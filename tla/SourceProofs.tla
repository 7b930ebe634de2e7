---------------------------- MODULE SourceProofs ----------------------------
(***************************************************************************)
(* Proofs about two sources of findings.                                   *)
(*                                                                         *)
(* vat-scan (VatScan), for every set of items, images and versions and     *)
(* every bound: the process implements the specification of each of its    *)
(* two parts, a lane's checkpoints stand for reports VAT has, a full       *)
(* rescan that is noted was complete, and a one-shot command keeps its     *)
(* promises however it ends.                                               *)
(*                                                                         *)
(* Aikido (AikidoSync), for any issues, runs and batches: a completed sync *)
(* leaves what Aikido says.                                                *)
(***************************************************************************)
EXTENDS VatScan, AikidoSync, FiniteSetTheorems, TLAPS

(***************************************************************************)
(* The incremental lanes (ScanState).                                      *)
(***************************************************************************)

\* What a full pass without failures has not scanned yet is still to be
\* scanned, was answered with nothing, or was hidden by a failed listing.
NothingForgotten ==
  pass.full /\ ~pass.failed =>
    Items \subseteq pass.todo \cup pass.got \cup pass.silent \cup pass.hidden

LaneInv == Lane!TypeOK /\ Lane!CheckpointSound /\ NothingForgotten

\* A fault is counted up to its bound.
LEMMA LaneFaultBound ==
  ASSUME laneFaults \in 0..LaneFaults, Lane!Fault \/ UNCHANGED laneFaults
  PROVE  laneFaults' \in 0..LaneFaults
BY VatScanAssumption DEF Lane!ScanStateAssumption, Lane!Fault

\* An idle pass and a new state file are well typed.
LEMMA LaneFresh ==
  /\ Lane!Idle \in Lane!Pass /\ Lane!NewFile \in Lane!StateFile
  /\ Lane!Idle.pc = "idle" /\ ~Lane!Idle.full /\ Lane!NewFile.full = "unset"
  /\ Lane!Idle.got = {} /\ Lane!Idle.silent = {} /\ Lane!Idle.hidden = {}
  /\ Lane!NewFile.sig = [i \in Items |-> NoVersion]
BY DEF Lane!Idle, Lane!Pass, Lane!NewFile, Lane!StateFile

\* The lane's invariant holds at the start.
LEMMA LaneInit == Lane!Init => LaneInv
<1> SUFFICES ASSUME Lane!Init PROVE LaneInv
  OBVIOUS
<1>1. /\ lane \in Lane!Lanes /\ strict \in BOOLEAN /\ rescans \in BOOLEAN
      /\ current = [i \in Items |-> FirstVersion]
      /\ file = Lane!NewFile /\ pass = Lane!Idle /\ key = "good"
      /\ vat = [i \in Items |-> {}] /\ knows = {} /\ ever = vat /\ excused = vat
      /\ changes = 0 /\ laneFaults = 0
  BY DEF Lane!Init
<1>2. FirstVersion \in Versions /\ MaxChanges \in Nat /\ LaneFaults \in Nat
  BY VatScanAssumption DEF Lane!ScanStateAssumption
<1>3. Lane!TypeOK
  BY <1>1, <1>2, LaneFresh DEF Lane!TypeOK
<1>4. Lane!CheckpointSound
  BY <1>1, LaneFresh DEF Lane!CheckpointSound
<1>5. NothingForgotten
  BY <1>1, LaneFresh DEF NothingForgotten
<1>6. QED
  BY <1>3, <1>4, <1>5 DEF LaneInv

\* The cluster, VAT's users and the clock.
LEMMA LaneSurroundings ==
  ASSUME LaneInv,
         \/ \E i \in Items : Lane!ChangeItem(i) \/ Lane!DeleteAsset(i)
         \/ Lane!LoseKey \/ Lane!ResetKeys \/ Lane!Age
  PROVE  LaneInv'
<1>1. Lane!TypeOK
  BY DEF LaneInv
<1>2. /\ UNCHANGED <<lane, strict, rescans, pass, excused, ever>> /\ file'.sig = file.sig
      /\ file' \in Lane!StateFile /\ (file'.full = "old" => rescans)
  BY <1>1 DEF Lane!ChangeItem, Lane!DeleteAsset, Lane!LoseKey, Lane!ResetKeys, Lane!Age,
              Lane!setup, Lane!TypeOK, Lane!StateFile
<1>3. current' \in [Items -> Versions]
  BY <1>1 DEF Lane!ChangeItem, Lane!DeleteAsset, Lane!LoseKey, Lane!ResetKeys, Lane!Age,
              Lane!TypeOK
<1>4. vat' \in [Items -> SUBSET Versions] /\ knows' \subseteq Items
  BY <1>1 DEF Lane!ChangeItem, Lane!DeleteAsset, Lane!LoseKey, Lane!ResetKeys, Lane!Age,
              Lane!TypeOK
<1>5. key' \in {"good", "stale", "missing"}
  BY <1>1 DEF Lane!ChangeItem, Lane!DeleteAsset, Lane!LoseKey, Lane!ResetKeys, Lane!Age,
              Lane!TypeOK
<1>6. changes' \in 0..MaxChanges
  <2>1. changes \in 0..MaxChanges /\ MaxChanges \in Nat
    BY <1>1, VatScanAssumption DEF Lane!TypeOK, Lane!ScanStateAssumption
  <2>2. UNCHANGED changes \/ (changes < MaxChanges /\ changes' = changes + 1)
    BY DEF Lane!ChangeItem, Lane!DeleteAsset, Lane!LoseKey, Lane!ResetKeys, Lane!Age,
           Lane!Changes
  <2>3. QED
    BY <2>1, <2>2
<1>7. laneFaults' \in 0..LaneFaults
  <2>1. Lane!Fault \/ UNCHANGED laneFaults
    BY DEF Lane!ChangeItem, Lane!DeleteAsset, Lane!LoseKey, Lane!ResetKeys, Lane!Age
  <2>2. QED
    BY <1>1, <2>1, LaneFaultBound DEF Lane!TypeOK
<1>8. Lane!TypeOK'
  BY <1>1, <1>2, <1>3, <1>4, <1>5, <1>6, <1>7 DEF Lane!TypeOK
<1>9. Lane!CheckpointSound' /\ NothingForgotten'
  BY <1>2 DEF LaneInv, Lane!CheckpointSound, NothingForgotten
<1>10. QED
  BY <1>8, <1>9 DEF LaneInv

\* A pass starts with everything to scan when it is a full rescan, except for
\* what a failed listing hides.
LEMMA LaneStartPass ==
  ASSUME LaneInv, Lane!StartPass
  PROVE  LaneInv'
<1>1. Lane!TypeOK
  BY DEF LaneInv
<1>2. PICK known \in Lane!StillKnown, failing \in {{}} \cup {{l} : l \in Lane!MayFail} :
        /\ IF failing # {} \/ (lane = "inventory" /\ key = "good" /\ known # knows)
           THEN Lane!Fault ELSE UNCHANGED laneFaults
        /\ pass' = [Lane!Idle EXCEPT
                      !.pc = "run", !.seen = current, !.full = Lane!FullRescanDue,
                      !.hidden = Lane!Hidden(failing),
                      !.todo = Lane!ToScan(Lane!FullRescanDue, known) \ Lane!Hidden(failing)]
  BY DEF Lane!StartPass
<1>3. UNCHANGED <<lane, strict, rescans, current, file, key, vat, knows, excused, ever, changes>>
  BY DEF Lane!StartPass, Lane!setup
<1> DEFINE hid  == Lane!Hidden(failing)
           todo == Lane!ToScan(Lane!FullRescanDue, known) \ hid
<1>4. hid \subseteq Items /\ todo \subseteq Items
  BY DEF Lane!Hidden, Lane!ToScan
<1>5. Lane!FullRescanDue \in BOOLEAN
  BY <1>1 DEF Lane!FullRescanDue, Lane!TypeOK
<1>6. Lane!FullRescanDue => Items \subseteq todo \cup hid
  BY DEF Lane!ToScan
<1> HIDE DEF hid, todo
<1>7. /\ pass'.pc = "run" /\ pass'.seen = current /\ pass'.full = Lane!FullRescanDue
      /\ pass'.failed = FALSE /\ pass'.got = {} /\ pass'.silent = {}
      /\ pass'.hidden = hid /\ pass'.todo = todo
  BY <1>2 DEF Lane!Idle, hid, todo
<1>8. pass' \in Lane!Pass
  <2>1. current \in [Items -> Versions \cup {NoVersion}]
    BY <1>1 DEF Lane!TypeOK
  <2>2. QED
    BY <1>2, <1>4, <1>5, <2>1 DEF Lane!Idle, Lane!Pass, hid, todo
<1>9. laneFaults' \in 0..LaneFaults
  BY <1>1, <1>2, LaneFaultBound DEF Lane!TypeOK
<1>10. todo \cap hid = {}
  BY DEF todo
<1>11. Lane!TypeOK'
  BY <1>1, <1>3, <1>4, <1>7, <1>8, <1>9, <1>10 DEF Lane!TypeOK
<1>12. Lane!CheckpointSound'
  BY <1>3 DEF LaneInv, Lane!CheckpointSound
<1>13. NothingForgotten'
  BY <1>6, <1>7 DEF NothingForgotten
<1>14. QED
  BY <1>11, <1>12, <1>13 DEF LaneInv

\* One item: a checkpoint is written for a version VAT has the reports of, or
\* for one that is excused, which the inventory lane never does.
LEMMA LaneScanItem ==
  ASSUME LaneInv, Lane!ScanItem
  PROVE  LaneInv'
<1>1. Lane!TypeOK /\ pass \in Lane!Pass /\ pass.pc = "run" /\ pass.todo # {}
  BY DEF LaneInv, Lane!ScanItem, Lane!TypeOK
<1> DEFINE i == CHOOSE j \in pass.todo : TRUE
           v == pass.seen[i]
<1>2. i \in pass.todo /\ i \in Items /\ v \in Versions
  <2>1. i \in pass.todo
    BY <1>1
  <2>2. QED
    BY <1>1, <2>1 DEF Lane!TypeOK, Lane!Pass
<1>3. PICK o \in Lane!Outcomes :
        LET stop == Lane!Stops(o)
        IN /\ IF o = "ok" \/ (o = "not_ingested" /\ key # "good")
              THEN UNCHANGED laneFaults ELSE Lane!Fault
           /\ IF o = "ok"
              THEN /\ vat' = [vat EXCEPT ![i] = @ \cup {v}]
                   /\ ever' = [ever EXCEPT ![i] = @ \cup {v}]
              ELSE UNCHANGED <<vat, ever>>
           /\ knows' \in IF o = "ok" THEN {knows \cup {i}}
                         ELSE IF key # "good" THEN {knows} ELSE {knows, knows \cup {i}}
           /\ pass' = IF stop THEN Lane!Idle
                      ELSE [pass EXCEPT !.todo = @ \ {i}, !.failed = @ \/ Lane!Counts(o),
                                        !.got = IF o = "ok" THEN @ \cup {i} ELSE @,
                                        !.silent = IF o \in {"silent", "empty"} THEN @ \cup {i} ELSE @]
           /\ IF Lane!Checkpoints(o) /\ ~stop
              THEN /\ file' = [file EXCEPT !.sig[i] = v]
                   /\ excused' = IF o # "ok" /\ lane # "inventory"
                                 THEN [excused EXCEPT ![i] = @ \cup {v}] ELSE excused
              ELSE UNCHANGED <<file, excused>>
  BY DEF Lane!ScanItem
<1>4. UNCHANGED <<lane, strict, rescans, current, key, changes>>
  BY DEF Lane!ScanItem, Lane!setup
<1> DEFINE counts == Lane!Counts(o)
<1>5. counts \in BOOLEAN
  BY DEF Lane!Counts
<1>6. Lane!Stops(o) \/ o \in {"ok", "silent", "empty"} \/ counts
  <2>1. o \in {"not_ingested", "ok", "no_report", "silent", "empty"} \cup Lane!BestEffort
    BY DEF Lane!Outcomes, Lane!RuntimeScan, Lane!InventoryScan, Lane!K8sScan, Lane!NodeScan
  <2>2. QED
    BY <2>1 DEF Lane!BestEffort, Lane!Counts, Lane!Stops
<1>7. Lane!Checkpoints(o) => o = "ok" \/ lane # "inventory"
  BY DEF Lane!Checkpoints, Lane!InventoryKeeps
<1> HIDE DEF i, v, counts
<1>8. vat' \in [Items -> SUBSET Versions] /\ ever' \in [Items -> SUBSET Versions]
  BY <1>1, <1>2, <1>3 DEF Lane!TypeOK
<1>9. knows' \subseteq Items
  BY <1>1, <1>2, <1>3 DEF Lane!TypeOK
<1>10. excused' \in [Items -> SUBSET Versions]
  BY <1>1, <1>2, <1>3 DEF Lane!TypeOK
<1>11. /\ \A j \in Items : ever[j] \subseteq ever'[j] /\ excused[j] \subseteq excused'[j]
       /\ o = "ok" => v \in ever'[i]
  BY <1>1, <1>2, <1>3 DEF Lane!TypeOK
<1>12. laneFaults' \in 0..LaneFaults
  BY <1>1, <1>3, LaneFaultBound DEF Lane!TypeOK
<1>13. /\ file' \in Lane!StateFile /\ file'.full = file.full
       /\ \A j \in Items : \/ file'.sig[j] = file.sig[j]
                           \/ /\ j = i /\ file'.sig[j] = v /\ Lane!Checkpoints(o)
                              /\ o # "ok" /\ lane # "inventory" => v \in excused'[i]
  <2>1. file \in Lane!StateFile /\ excused \in [Items -> SUBSET Versions]
    BY <1>1 DEF Lane!TypeOK
  <2>2. CASE file' = file
    BY <2>1, <2>2
  <2>3. CASE /\ Lane!Checkpoints(o)
             /\ file' = [file EXCEPT !.sig[i] = v]
             /\ excused' = IF o # "ok" /\ lane # "inventory"
                           THEN [excused EXCEPT ![i] = @ \cup {v}] ELSE excused
    BY <1>2, <2>1, <2>3 DEF Lane!StateFile
  <2>4. QED
    BY <1>3, <2>2, <2>3
<1>14. /\ pass' \in Lane!Pass
       /\ pass'.pc = "run" => pass'.seen = pass.seen
       /\ pass'.got \cup pass'.silent \cup pass'.hidden \subseteq Items \ pass'.todo
       /\ NothingForgotten'
  <2>1. CASE pass' = Lane!Idle
    BY <2>1, LaneFresh DEF NothingForgotten, Lane!Idle
  <2>2. CASE pass' # Lane!Idle
    <3>0. o \in {"ok", "silent", "empty"} \/ counts
      BY <1>3, <1>6, <2>2
    <3>1. pass' = [pass EXCEPT !.todo = @ \ {i}, !.failed = @ \/ counts,
                               !.got = IF o = "ok" THEN @ \cup {i} ELSE @,
                               !.silent = IF o \in {"silent", "empty"} THEN @ \cup {i} ELSE @]
      BY <1>3, <2>2 DEF counts
    <3>2. /\ pass'.todo = pass.todo \ {i} /\ pass'.failed = (pass.failed \/ counts)
          /\ pass'.got = IF o = "ok" THEN pass.got \cup {i} ELSE pass.got
          /\ pass'.silent = IF o \in {"silent", "empty"} THEN pass.silent \cup {i} ELSE pass.silent
          /\ pass'.hidden = pass.hidden /\ pass'.seen = pass.seen
          /\ pass'.full = pass.full
      BY <1>1, <3>1 DEF Lane!Pass
    <3>3. pass' \in Lane!Pass
      BY <1>1, <1>2, <1>5, <3>1 DEF Lane!Pass
    <3>4. pass'.got \cup pass'.silent \cup pass'.hidden \subseteq Items \ pass'.todo
      BY <1>1, <1>2, <3>2 DEF Lane!TypeOK
    <3>5. NothingForgotten'
      BY <1>2, <1>5, <3>0, <3>2 DEF LaneInv, NothingForgotten
    <3>6. QED
      BY <3>2, <3>3, <3>4, <3>5
  <2>3. QED
    BY <2>1, <2>2
<1>15. Lane!TypeOK'
  BY <1>1, <1>4, <1>8, <1>9, <1>10, <1>12, <1>13, <1>14 DEF Lane!TypeOK
<1>16. Lane!CheckpointSound'
  BY <1>4, <1>7, <1>11, <1>13 DEF LaneInv, Lane!CheckpointSound
<1>17. QED
  BY <1>14, <1>15, <1>16 DEF LaneInv

\* The end of a pass, and a crash.
LEMMA LaneEndOrCrash ==
  ASSUME LaneInv, Lane!EndPass \/ Lane!Crash
  PROVE  LaneInv'
<1>1. Lane!TypeOK
  BY DEF LaneInv
<1>2. /\ UNCHANGED <<lane, strict, rescans, current, key, vat, excused, ever, changes>>
      /\ pass' = Lane!Idle
  BY DEF Lane!EndPass, Lane!Crash, Lane!setup
<1>3. knows' \subseteq Items
  BY <1>1 DEF Lane!EndPass, Lane!Crash, Lane!TypeOK, Lane!Pass
<1>4. Lane!Fault \/ UNCHANGED laneFaults
  BY DEF Lane!EndPass, Lane!Crash
<1>5. file' = file \/ file' = Lane!NewFile \/ file' = [file EXCEPT !.full = "recent"]
  BY DEF Lane!EndPass, Lane!Crash
<1>6. /\ file' \in Lane!StateFile /\ (file'.full = "old" => file.full = "old")
      /\ \A j \in Items : file'.sig[j] = file.sig[j] \/ file'.sig[j] = NoVersion
  BY <1>1, <1>5, LaneFresh DEF Lane!TypeOK, Lane!StateFile
<1>7. laneFaults' \in 0..LaneFaults
  BY <1>1, <1>4, LaneFaultBound DEF Lane!TypeOK
<1>8. Lane!TypeOK'
  BY <1>1, <1>2, <1>3, <1>6, <1>7, LaneFresh DEF Lane!TypeOK
<1>9. Lane!CheckpointSound' /\ NothingForgotten'
  BY <1>2, <1>6, LaneFresh DEF LaneInv, Lane!CheckpointSound, NothingForgotten
<1>10. QED
  BY <1>8, <1>9 DEF LaneInv

\* Every step of a lane keeps its invariant.
LEMMA LaneStep ==
  ASSUME LaneInv, [Lane!Next]_(Lane!vars)
  PROVE  LaneInv'
<1>1. CASE Lane!Next
  BY <1>1, LaneSurroundings, LaneStartPass, LaneScanItem, LaneEndOrCrash DEF Lane!Next
<1>2. CASE UNCHANGED Lane!vars
  BY <1>2 DEF Lane!vars, Lane!setup, LaneInv, Lane!TypeOK, Lane!CheckpointSound, NothingForgotten
<1>3. QED
  BY <1>1, <1>2

\* Only the end of a pass notes a full rescan that was due; it was one.
LEMMA LaneFullRescan ==
  ASSUME LaneInv, [Lane!Next]_(Lane!vars), file.full = "old", file'.full = "recent"
  PROVE  Items \ pass.got \subseteq pass.silent \cup pass.hidden
<1>1. Lane!TypeOK /\ NothingForgotten
  BY DEF LaneInv
<1>2. Lane!EndPass
  <2>1. CASE UNCHANGED Lane!vars
    BY <2>1 DEF Lane!vars
  <2>2. CASE \/ \E i \in Items : Lane!ChangeItem(i) \/ Lane!DeleteAsset(i)
             \/ Lane!LoseKey \/ Lane!ResetKeys \/ Lane!Age
    BY <2>2 DEF Lane!ChangeItem, Lane!DeleteAsset, Lane!LoseKey, Lane!ResetKeys, Lane!Age
  <2>3. CASE Lane!StartPass
    BY <2>3 DEF Lane!StartPass
  <2>4. CASE Lane!Crash
    BY <2>4, LaneFresh DEF Lane!Crash
  <2>5. CASE Lane!ScanItem
    <3> DEFINE i == CHOOSE j \in pass.todo : TRUE
               v == pass.seen[i]
    <3>1. file' = file \/ file' = [file EXCEPT !.sig[i] = v]
      BY <2>5 DEF Lane!ScanItem
    <3> HIDE DEF i, v
    <3>2. file'.full = file.full
      BY <1>1, <3>1 DEF Lane!TypeOK, Lane!StateFile
    <3>3. QED
      BY <3>2
  <2>6. QED
    BY <2>1, <2>2, <2>3, <2>4, <2>5 DEF Lane!Next
<1>3. pass.todo = {} /\ ~pass.failed /\ pass.full
  BY <1>2 DEF Lane!EndPass, Lane!Noted
<1>4. QED
  BY <1>1, <1>3 DEF NothingForgotten

(***************************************************************************)
(* The one-shot commands (LocalScan).                                      *)
(***************************************************************************)

\* A part that scan-archive passes over in silence, for want of a key.
Passed(o) == cmd = "archive" /\ o[2] \in keyless

\* A part of the path at hand that is among the reports still to be sent.
Queued(o) == o[1] = path /\ o[2] \in queue /\ o[3] \in reports[o[2]]

\* A part of the report that is being sent.
Posting(o) == o[1] = path /\ o[2] = post.parser /\ o[3] \in post.left

\* Where a part is that VAT does not have.  In a scan of one directory it can
\* only be in the report that is being sent, as each is sent when it is there.
OwedInv ==
  /\ target # "vat" => owed = {}
  /\ cmd = "image" => \A o \in owed : pc \in {"upload", "end"} /\ o[1] = path
  /\ Scan!Incremental /\ pc # "end" => \A o \in owed : pc = "post" /\ Posting(o)
  /\ pc = "next" => \A o \in owed : Passed(o)
  /\ pc = "scan" => \A o \in owed : Passed(o) \/ (o[1] = path /\ o[3] \in reports[o[2]])
  /\ pc = "push" => \A o \in owed : Passed(o) \/ Queued(o)
  /\ pc = "post" /\ post.then = "push" =>
       \A o \in owed : Passed(o) \/ Queued(o) \/ Posting(o)
  /\ pc = "post" /\ post.then = "failing" => owed = {}

\* Where the command can be: only a scan of one directory sends reports while
\* it scans, and the commands that have paths are at one of them.
PlaceInv ==
  /\ pc = "failing" => Scan!Incremental
  /\ pc = "post" /\ post.then # "push" => Scan!Incremental
  /\ cmd = "image" => pc \in {"next", "upload", "end"} /\ path = 0 /\ paths = 1 /\ dirs = {}
  /\ pc = "upload" => cmd = "image"
  /\ pc = "next" => path < paths
  /\ pc # "end" => tries < 3
  /\ pc \in {"scan", "push", "failing", "post"} => path >= 1
  /\ \/ pc \in {"next", "push", "upload"}
     \/ pc = "post" /\ post.then = "push"
     => "wraps" \notin dirs
  /\ gating_exit = 0 <=> gated = {}

ScanInv ==
  /\ Scan!TypeOK /\ OwedInv /\ PlaceInv
  /\ Scan!DoneMeansSent /\ Scan!WorkKept /\ Scan!TempRemoved /\ Scan!GateHolds

\* A fault is counted up to its bound.
LEMMA ScanFaultBound ==
  ASSUME scanFaults \in 0..ScanFaults, Scan!Fault \/ UNCHANGED scanFaults
  PROVE  scanFaults' \in 0..ScanFaults
BY VatScanAssumption DEF Scan!LocalScanAssumption, Scan!Fault

\* Every stage but the collection of images reports under a parser's name.
LEMMA StageFacts ==
  /\ Len(Scan!Stages) = 11
  /\ \A n \in 1..11 : Scan!Stages[n] # "collect" => Scan!ParserOf(Scan!Stages[n]) \in Scan!Parsers
  /\ "trivy" \in Scan!Parsers
  /\ "none" \notin Scan!Parsers
BY DEF Scan!Stages, Scan!ParserOf, Scan!Parsers, Scan!Range

\* What a scanner comes to: parts of the path, and nothing if it raises.
LEMMA RunnerFacts ==
  ASSUME Scan!TypeOK, NEW s, NEW o \in Scan!Runner(s)
  PROVE  /\ o.parts \subseteq Scan!Parts /\ o.end \in {"on", "error", "raised"}
         /\ o.end = "raised" => o.parts = {}
<1>1. found \subseteq Images /\ Scan!Root \in Scan!Parts /\ Images \subseteq Scan!Parts
  BY DEF Scan!TypeOK, Scan!Parts
<1> DEFINE Good(r) == /\ r.parts \subseteq Scan!Parts /\ r.end \in {"on", "error", "raised"}
                      /\ r.end = "raised" => r.parts = {}
<1>2. \A S \in SUBSET Scan!Parts : Good(Scan!Gives(S)) /\ Good([parts |-> S, end |-> "error"])
  BY DEF Scan!Gives
<1>3. Good(Scan!Fails("error")) /\ Good(Scan!Fails("raised"))
  BY DEF Scan!Fails
<1>4. /\ SUBSET found \subseteq SUBSET Scan!Parts
      /\ SUBSET (found \cup {Scan!Root}) \subseteq SUBSET Scan!Parts
      /\ {} \in SUBSET Scan!Parts /\ {Scan!Root} \in SUBSET Scan!Parts
  BY <1>1
<1> HIDE DEF Good
<1>5. \A r \in Scan!TrivyFs \cup Scan!Audit \cup Scan!Secrets : Good(r)
  BY <1>2, <1>3, <1>4 DEF Scan!TrivyFs, Scan!Audit, Scan!Secrets
<1>6. \A r \in Scan!TrivyImages \cup Scan!OpenScap \cup Scan!OpenScapOval : Good(r)
  BY <1>2, <1>3, <1>4 DEF Scan!TrivyImages, Scan!OpenScap, Scan!OpenScapOval
<1>7. \A r \in Scan!Cyclonedx : Good(r)
  BY <1>2, <1>3, <1>4 DEF Scan!Cyclonedx
<1>8. \/ o \in Scan!TrivyFs \cup Scan!Audit \cup Scan!Secrets \cup Scan!Cyclonedx
      \/ o \in Scan!TrivyImages \cup Scan!OpenScap \cup Scan!OpenScapOval
      \/ o = Scan!Gives({})
  BY DEF Scan!Runner
<1>9. Good(o)
  BY <1>2, <1>4, <1>5, <1>6, <1>7, <1>8
<1>10. QED
  BY <1>9 DEF Good

\* The one-shot scan's invariant holds at the start.
LEMMA ScanInit == Scan!Init => ScanInv
<1> SUFFICES ASSUME Scan!Init PROVE ScanInv
  OBVIOUS
<1>1. MaxPaths \in Nat \ {0} /\ ScanFaults \in Nat
  BY VatScanAssumption DEF Scan!LocalScanAssumption
<1>2. Scan!TypeOK
  <2>1. /\ cmd \in {"scan", "archive", "image"} /\ paths \in 1..MaxPaths
        /\ target \in {"vat", "dry", "unset"} /\ keyless \subseteq Keyless
        /\ pc = "next" /\ path = 0 /\ stage = 1 /\ tries = 0 /\ found = {}
        /\ queue = {} /\ owed = {} /\ dirs = {} /\ gated = {} /\ gating_exit = 0
        /\ post = Scan!NoPost /\ exit = "none" /\ refused = FALSE /\ scanFaults = 0
    BY DEF Scan!Init
  <2>2. reports \in [Scan!Parsers -> SUBSET Scan!Parts]
    BY DEF Scan!Init, Scan!NoReports
  <2>3. path \in 0..paths /\ scanFaults \in 0..ScanFaults /\ stage \in 1..(Len(Scan!Stages) + 1)
    BY <1>1, <2>1, StageFacts
  <2>4. (pc = "post") = (post # Scan!NoPost) /\ (pc = "end") = (exit # "none")
    BY <2>1
  <2>5. post \in Scan!Post \cup {Scan!NoPost}
    BY <2>1
  <2>6. owed \subseteq (0..MaxPaths) \X Scan!Parsers \X Scan!Parts
    BY <2>1
  <2>7. tries \in 0..3 /\ found \subseteq Images /\ queue \subseteq Scan!Parsers
    BY <2>1
  <2>8. dirs \subseteq {"tree", "wraps"} /\ gated \subseteq 1..MaxPaths /\ gating_exit \in {0, 1}
    BY <2>1
  <2>9. QED
    BY <2>1, <2>2, <2>3, <2>4, <2>5, <2>6, <2>7, <2>8 DEF Scan!TypeOK
<1>3. OwedInv /\ PlaceInv
  BY <1>1 DEF Scan!Init, OwedInv, PlaceInv, Scan!NoPost
<1>4. Scan!DoneMeansSent /\ Scan!WorkKept /\ Scan!TempRemoved /\ Scan!GateHolds
  BY DEF Scan!Init, Scan!DoneMeansSent, Scan!WorkKept, Scan!TempRemoved, Scan!GateHolds
<1>5. QED
  BY <1>2, <1>3, <1>4 DEF ScanInv

\* How a command may end with a failure: what it owes is of the path at hand,
\* and of a single directory nothing unless VAT refused it.
LEMMA FailingExit ==
  ASSUME ScanInv, NEW how \in {"error", "raised"}, Scan!Exit(how), post' = Scan!NoPost,
         UNCHANGED <<cmd, paths, target, keyless, path, gated, gating_exit>>,
         target # "vat" => owed' = {},
         cmd = "image" => dirs = {} /\ \A o \in owed' : o[1] = path,
         \A o \in owed' : \/ Passed(o)
                          \/ o[1] = path /\ (Scan!Incremental => refused')
  PROVE  /\ OwedInv' /\ PlaceInv'
         /\ Scan!DoneMeansSent' /\ Scan!WorkKept' /\ Scan!TempRemoved' /\ Scan!GateHolds'
<1>1. /\ exit' = how /\ pc' = "end" /\ dirs' = dirs \ {"tree"}
      /\ exit' # "done"
  BY DEF Scan!Exit
<1>2. OwedInv'
  BY <1>1 DEF OwedInv
<1>3. PlaceInv'
  BY <1>1 DEF ScanInv, PlaceInv
<1>4. Scan!WorkKept'
  BY <1>1 DEF Scan!WorkKept, Passed, Scan!Incremental
<1>5. Scan!DoneMeansSent' /\ Scan!TempRemoved' /\ Scan!GateHolds'
  BY <1>1 DEF Scan!DoneMeansSent, Scan!TempRemoved, Scan!GateHolds
<1>6. QED
  BY <1>2, <1>3, <1>4, <1>5

\* While it runs, a command promises nothing of its end yet.
LEMMA StillRunning ==
  ASSUME exit' = "none"
  PROVE  Scan!DoneMeansSent' /\ Scan!WorkKept' /\ Scan!TempRemoved' /\ Scan!GateHolds'
BY DEF Scan!DoneMeansSent, Scan!WorkKept, Scan!TempRemoved, Scan!GateHolds

\* The next path of the command starts with nothing found and nothing reported.
LEMMA ScanStartPath ==
  ASSUME ScanInv, Scan!StartPath
  PROVE  ScanInv'
<1>1. /\ Scan!TypeOK /\ OwedInv /\ PlaceInv /\ pc = "next" /\ cmd # "image"
      /\ path' = path + 1 /\ stage' = 1 /\ found' = {} /\ reports' = Scan!NoReports
      /\ UNCHANGED <<cmd, paths, target, keyless, queue, post, tries, gated, gating_exit,
                     owed, refused>>
  BY DEF ScanInv, Scan!StartPath, Scan!options
<1>2. /\ \A o \in owed : Passed(o)
      /\ path \in Nat /\ paths \in Nat /\ path < paths /\ post = Scan!NoPost
      /\ exit = "none" /\ (Scan!Incremental => owed = {})
  BY <1>1 DEF OwedInv, PlaceInv, Scan!TypeOK
<1>3. Scan!Fault \/ UNCHANGED scanFaults
  BY DEF Scan!StartPath
<1>4. scanFaults' \in 0..ScanFaults
  BY <1>1, <1>3, ScanFaultBound DEF Scan!TypeOK
<1>5. CASE pc' = "scan" /\ UNCHANGED exit /\ dirs' \subseteq dirs \cup {"tree"}
  <2>1. Scan!TypeOK'
    BY <1>1, <1>2, <1>4, <1>5, StageFacts DEF Scan!TypeOK, Scan!NoReports
  <2>2. OwedInv'
    BY <1>1, <1>2, <1>5 DEF OwedInv, Passed, Scan!Incremental
  <2>3. PlaceInv'
    BY <1>1, <1>2, <1>5 DEF PlaceInv
  <2>4. QED
    BY <1>2, <1>5, <2>1, <2>2, <2>3, StillRunning DEF ScanInv
<1>6. CASE \E how \in {"error", "raised"} : Scan!Exit(how)
  <2>1. PICK how \in {"error", "raised"} : Scan!Exit(how)
    BY <1>6
  <2>2. /\ exit' = how /\ pc' = "end" /\ dirs' = dirs \ {"tree"}
    BY <2>1 DEF Scan!Exit
  <2>3. Scan!TypeOK'
    BY <1>1, <1>2, <1>4, <2>2, StageFacts DEF Scan!TypeOK, Scan!NoReports
  <2>4. OwedInv' /\ PlaceInv'
    BY <1>1, <1>2, <2>2 DEF OwedInv, PlaceInv, Scan!Incremental
  <2>5. Scan!DoneMeansSent' /\ Scan!WorkKept' /\ Scan!TempRemoved' /\ Scan!GateHolds'
    BY <1>1, <1>2, <2>2
       DEF Scan!DoneMeansSent, Scan!WorkKept, Scan!TempRemoved, Scan!GateHolds, Passed
  <2>6. QED
    BY <2>3, <2>4, <2>5 DEF ScanInv
<1>7. QED
  BY <1>5, <1>6 DEF Scan!StartPath

\* Collecting finds container images before any stage that scans them.
LEMMA ScanCollect ==
  ASSUME ScanInv, Scan!Collect
  PROVE  ScanInv'
<1>1. /\ Scan!TypeOK /\ OwedInv /\ PlaceInv /\ pc = "scan" /\ exit = "none"
      /\ stage <= Len(Scan!Stages) /\ stage' = stage + 1
      /\ found' \subseteq Images /\ dirs' \subseteq dirs \cup {"wraps"}
      /\ UNCHANGED <<cmd, paths, target, keyless, pc, path, reports, queue, post, tries,
                     gated, gating_exit, exit, owed, refused, scanFaults>>
  BY DEF ScanInv, Scan!Collect, Scan!options, Scan!TypeOK
<1>2. Scan!TypeOK'
  BY <1>1, StageFacts DEF Scan!TypeOK
<1>3. OwedInv'
  BY <1>1 DEF OwedInv, Passed, Scan!Incremental
<1>4. PlaceInv'
  BY <1>1 DEF PlaceInv
<1>5. QED
  BY <1>1, <1>2, <1>3, <1>4, StillRunning DEF ScanInv

\* A scanner's expected error: of a single directory what there is will be sent
\* as "failed", any other command ends.
LEMMA FailingStep ==
  ASSUME ScanInv, NEW reps, Scan!Failing(reps), pc \in {"scan", "post"},
         post' = Scan!NoPost,
         UNCHANGED <<cmd, paths, target, keyless, path, tries, gated, gating_exit>>,
         target # "vat" => owed' = {},
         Scan!Incremental => owed' = {},
         \A o \in owed' : Passed(o) \/ o[1] = path
  PROVE  /\ OwedInv' /\ PlaceInv'
         /\ Scan!DoneMeansSent' /\ Scan!WorkKept' /\ Scan!TempRemoved' /\ Scan!GateHolds'
         /\ pc' \in {"failing", "end"} /\ (pc' = "end") = (exit' # "none")
         /\ exit' \in {"none", "error"} /\ dirs' \subseteq dirs
         /\ queue' = queue \/ queue' \subseteq Scan!Parsers
<1>1. exit = "none" /\ cmd # "image" /\ path >= 1 /\ PlaceInv
  BY DEF ScanInv, Scan!TypeOK, PlaceInv
<1>2. CASE Scan!Incremental /\ \E p \in Scan!Parsers : reps[p] # {}
  <2>1. /\ pc' = "failing" /\ queue' = {p \in Scan!Parsers : reps[p] # {}}
        /\ exit' = exit /\ dirs' = dirs
    BY <1>2 DEF Scan!Failing
  <2>2. Scan!Incremental' /\ owed' = {}
    BY <1>2 DEF Scan!Incremental
  <2>3. OwedInv'
    BY <1>1, <2>1, <2>2 DEF OwedInv
  <2>4. PlaceInv'
    BY <1>1, <2>1, <2>2 DEF PlaceInv
  <2>5. QED
    BY <1>1, <2>1, <2>3, <2>4, StillRunning
<1>3. CASE ~(Scan!Incremental /\ \E p \in Scan!Parsers : reps[p] # {})
  <2>1. Scan!Exit("error") /\ queue' = queue
    BY <1>3 DEF Scan!Failing
  <2>2. exit' = "error" /\ pc' = "end" /\ dirs' = dirs \ {"tree"}
    BY <2>1 DEF Scan!Exit
  <2>3. \A o \in owed' : \/ Passed(o)
                         \/ o[1] = path /\ (Scan!Incremental => refused')
    OBVIOUS
  <2>4. QED
    BY <1>1, <2>1, <2>2, <2>3, FailingExit
<1>4. QED
  BY <1>2, <1>3

\* One scanner.
LEMMA ScanRunStage ==
  ASSUME ScanInv, Scan!RunStage
  PROVE  ScanInv'
<1> DEFINE s == Scan!Stages[stage]
           p == Scan!ParserOf(s)
<1>1. /\ Scan!TypeOK /\ OwedInv /\ PlaceInv /\ pc = "scan" /\ exit = "none"
      /\ stage \in 1..11 /\ stage' = stage + 1 /\ post = Scan!NoPost /\ cmd # "image"
      /\ s # "collect" /\ path \in 0..paths /\ paths \in 1..MaxPaths /\ path >= 1
  BY StageFacts DEF ScanInv, Scan!RunStage, Scan!TypeOK, PlaceInv
<1>2. p \in Scan!Parsers
  BY <1>1, StageFacts
<1>3. UNCHANGED <<cmd, paths, target, keyless, path, found, tries, gated, gating_exit, refused>>
  BY DEF Scan!RunStage, Scan!options
<1>4. PICK o \in Scan!Runner(s) :
        LET report == [reports EXCEPT ![p] = @ \cup o.parts]
        IN /\ IF o.end = "on" THEN UNCHANGED scanFaults ELSE Scan!Fault
           /\ reports' = report
           /\ owed' = owed \cup (IF target = "vat" THEN Scan!Produced(p, o.parts) ELSE {})
           /\ \/ /\ Scan!Publishes(o)
                 /\ pc' = "post" /\ post' = [parser |-> p, left |-> report[p], then |-> o.end]
                 /\ UNCHANGED <<queue, dirs, exit>>
              \/ /\ ~Scan!Publishes(o)
                 /\ CASE o.end = "on"    -> UNCHANGED <<pc, queue, dirs, exit>>
                      [] o.end = "error" -> Scan!Failing(report)
                      [] OTHER           -> Scan!Exit("raised") /\ UNCHANGED queue
                 /\ UNCHANGED post
  BY DEF Scan!RunStage
<1> HIDE DEF s, p
<1>5. /\ o.parts \subseteq Scan!Parts /\ o.end \in {"on", "error", "raised"}
      /\ o.end = "raised" => o.parts = {}
  BY <1>1, RunnerFacts
<1> DEFINE report == [reports EXCEPT ![p] = @ \cup o.parts]
           new    == IF target = "vat" THEN Scan!Produced(p, o.parts) ELSE {}
<1>6. /\ reports' = report /\ owed' = owed \cup new
      /\ report \in [Scan!Parsers -> SUBSET Scan!Parts]
      /\ \A q \in Scan!Parsers : reports[q] \subseteq report[q]
      /\ report[p] = reports[p] \cup o.parts
  BY <1>1, <1>2, <1>4, <1>5 DEF Scan!TypeOK
<1>7. /\ new \subseteq (0..MaxPaths) \X Scan!Parsers \X Scan!Parts
      /\ \A e \in new : e[1] = path /\ e[2] = p /\ e[3] \in o.parts
      /\ target # "vat" => new = {}
      /\ o.parts = {} => new = {}
  <2>1. path \in 0..MaxPaths
    BY <1>1, VatScanAssumption DEF Scan!LocalScanAssumption
  <2>2. new = IF target = "vat" THEN {<<path, p, x>> : x \in o.parts} ELSE {}
    BY DEF Scan!Produced
  <2> HIDE DEF new
  <2>3. \A e \in new : \E x \in o.parts : e = <<path, p, x>>
    BY <2>2
  <2>4. QED
    BY <1>2, <1>5, <2>1, <2>2, <2>3
<1>8. scanFaults' \in 0..ScanFaults
  <2>1. Scan!Fault \/ UNCHANGED scanFaults
    BY <1>4
  <2>2. QED
    BY <1>1, <2>1, ScanFaultBound DEF Scan!TypeOK
<1>9. owed' \subseteq (0..MaxPaths) \X Scan!Parsers \X Scan!Parts
  BY <1>1, <1>6, <1>7 DEF Scan!TypeOK
<1> HIDE DEF report, new
<1>10. /\ target # "vat" => owed' = {}
       /\ \A e \in owed : Passed(e) \/ (e[1] = path /\ e[2] \in Scan!Parsers
                                        /\ e[3] \in reports[e[2]])
       /\ \A e \in owed' : Passed(e) \/ (e[1] = path /\ e[3] \in report[e[2]])
       /\ Scan!Incremental => owed' = new
  BY <1>1, <1>6, <1>7 DEF OwedInv, Scan!TypeOK
<1>11. ASSUME /\ pc' \in {"scan", "post", "failing", "end"} /\ (pc' = "end") = (exit' # "none")
              /\ exit' \in {"none", "error", "raised"} /\ dirs' \subseteq dirs
              /\ queue' = queue \/ queue' \subseteq Scan!Parsers
              /\ (pc' = "post") = (post' # Scan!NoPost)
              /\ post' \in Scan!Post \cup {Scan!NoPost}
       PROVE  Scan!TypeOK'
  <2>1. stage' \in 1..(Len(Scan!Stages) + 1)
    BY <1>1, StageFacts
  <2>2. QED
    BY <1>1, <1>3, <1>6, <1>8, <1>9, <1>11, <2>1 DEF Scan!TypeOK
<1>12. CASE Scan!Publishes(o)
  <2>1. /\ pc' = "post" /\ post' = [parser |-> p, left |-> report[p], then |-> o.end]
        /\ UNCHANGED <<queue, dirs, exit>> /\ o.end \in {"on", "error"} /\ Scan!Incremental
    BY <1>4, <1>5, <1>12 DEF Scan!Publishes, report
  <2>2. post' \in Scan!Post /\ post' # Scan!NoPost
    BY <1>2, <1>6, <2>1, StageFacts DEF Scan!Post, Scan!NoPost
  <2>3. Scan!TypeOK'
    BY <1>1, <1>11, <2>1, <2>2
  <2>4. Scan!Incremental' /\ \A e \in owed' : e[1] = path /\ e[2] = p /\ e[3] \in report[p]
    BY <1>3, <1>6, <1>7, <1>10, <2>1 DEF Scan!Incremental
  <2>5. OwedInv'
    BY <1>1, <1>3, <1>10, <2>1, <2>4 DEF OwedInv, Posting
  <2>6. PlaceInv'
    BY <1>1, <1>3, <2>1, <2>4 DEF PlaceInv
  <2>7. QED
    BY <1>1, <2>1, <2>3, <2>5, <2>6, StillRunning DEF ScanInv
<1>13. CASE ~Scan!Publishes(o)
  <2>1. Scan!Incremental => owed' = {}
    BY <1>7, <1>10, <1>13 DEF Scan!Publishes
  <2>2. CASE o.end = "on"
    <3>1. UNCHANGED <<pc, queue, dirs, exit, post>>
      BY <1>4, <1>13, <2>2
    <3>2. Scan!TypeOK'
      BY <1>1, <1>11, <3>1
    <3>3. OwedInv'
      BY <1>1, <1>3, <1>6, <1>10, <2>1, <3>1 DEF OwedInv, Passed, Scan!Incremental
    <3>4. PlaceInv'
      BY <1>1, <1>3, <3>1 DEF PlaceInv
    <3>5. QED
      BY <1>1, <3>1, <3>2, <3>3, <3>4, StillRunning DEF ScanInv
  <2>3. CASE o.end = "error"
    <3>1. Scan!Failing(report) /\ UNCHANGED post
      BY <1>4, <1>13, <2>3 DEF report
    <3>2. /\ OwedInv' /\ PlaceInv'
          /\ Scan!DoneMeansSent' /\ Scan!WorkKept' /\ Scan!TempRemoved' /\ Scan!GateHolds'
          /\ pc' \in {"failing", "end"} /\ (pc' = "end") = (exit' # "none")
          /\ exit' \in {"none", "error"} /\ dirs' \subseteq dirs
          /\ queue' = queue \/ queue' \subseteq Scan!Parsers
      BY <1>1, <1>3, <1>10, <2>1, <3>1, FailingStep
    <3>3. Scan!TypeOK'
      BY <1>1, <1>11, <3>1, <3>2
    <3>4. QED
      BY <3>2, <3>3 DEF ScanInv
  <2>4. CASE o.end = "raised"
    <3>1. Scan!Exit("raised") /\ UNCHANGED <<queue, post>>
      BY <1>4, <1>13, <2>4
    <3>2. exit' = "raised" /\ pc' = "end" /\ dirs' = dirs \ {"tree"}
      BY <3>1 DEF Scan!Exit
    <3>3. Scan!TypeOK'
      BY <1>1, <1>11, <3>1, <3>2
    <3>4. \A e \in owed' : \/ Passed(e)
                           \/ e[1] = path /\ (Scan!Incremental => refused')
      BY <1>10, <2>1
    <3>5. /\ OwedInv' /\ PlaceInv'
          /\ Scan!DoneMeansSent' /\ Scan!WorkKept' /\ Scan!TempRemoved' /\ Scan!GateHolds'
      BY <1>1, <1>3, <1>10, <3>1, <3>4, FailingExit
    <3>6. QED
      BY <3>3, <3>5 DEF ScanInv
  <2>5. QED
    BY <1>5, <2>2, <2>3, <2>4
<1>14. QED
  BY <1>12, <1>13

\* The path's findings are held against --fail-on, and its reports are queued.
LEMMA ScanGate ==
  ASSUME ScanInv, Scan!Gate
  PROVE  ScanInv'
<1>1. /\ Scan!TypeOK /\ OwedInv /\ PlaceInv /\ pc = "scan" /\ exit = "none"
      /\ cmd # "image" /\ path >= 1 /\ path \in 1..MaxPaths /\ post = Scan!NoPost
  BY VatScanAssumption DEF ScanInv, Scan!Gate, Scan!TypeOK, PlaceInv, Scan!LocalScanAssumption
<1>2. /\ UNCHANGED <<cmd, paths, target, keyless, path, stage, found, reports, post, tries,
                     owed, refused, scanFaults>>
      /\ queue' = IF target = "vat" THEN {p \in Scan!Parsers : reports[p] # {}} ELSE {}
  BY DEF Scan!Gate, Scan!options, Scan!scan
<1>3. /\ gated' \subseteq 1..MaxPaths /\ gating_exit' \in {0, 1}
      /\ gating_exit' = 0 <=> gated' = {}
  BY <1>1 DEF Scan!Gate, Scan!Verdict, Scan!TypeOK, PlaceInv
<1>4. CASE target # "unset" /\ pc' = "push" /\ dirs' = dirs \ {"wraps"} /\ UNCHANGED exit
  <2>1. Scan!TypeOK'
    BY <1>1, <1>2, <1>3, <1>4 DEF Scan!TypeOK
  <2>2. OwedInv'
    BY <1>1, <1>2, <1>4 DEF OwedInv, Passed, Queued, Scan!Incremental, Scan!TypeOK
  <2>3. PlaceInv'
    BY <1>1, <1>2, <1>3, <1>4 DEF PlaceInv
  <2>4. QED
    BY <1>1, <1>4, <2>1, <2>2, <2>3, StillRunning DEF ScanInv
<1>5. CASE target = "unset" /\ exit' = "error" /\ pc' = "end" /\ dirs' = {}
  <2>1. owed = {}
    BY <1>1, <1>5 DEF OwedInv
  <2>2. Scan!TypeOK'
    BY <1>1, <1>2, <1>3, <1>5 DEF Scan!TypeOK
  <2>3. OwedInv' /\ PlaceInv'
    BY <1>1, <1>2, <1>3, <1>5, <2>1 DEF OwedInv, PlaceInv
  <2>4. Scan!DoneMeansSent' /\ Scan!WorkKept' /\ Scan!TempRemoved' /\ Scan!GateHolds'
    BY <1>2, <1>5, <2>1
       DEF Scan!DoneMeansSent, Scan!WorkKept, Scan!TempRemoved, Scan!GateHolds
  <2>5. QED
    BY <2>2, <2>3, <2>4 DEF ScanInv
<1>6. QED
  BY <1>4, <1>5 DEF Scan!Gate

\* The next report, if its source has a key.
LEMMA ScanSendNext ==
  ASSUME ScanInv, Scan!SendNext
  PROVE  ScanInv'
<1> DEFINE p == CHOOSE q \in queue : TRUE
<1>1. /\ Scan!TypeOK /\ OwedInv /\ PlaceInv /\ pc \in {"push", "failing"} /\ exit = "none"
      /\ cmd # "image" /\ path >= 1 /\ post = Scan!NoPost
  BY DEF ScanInv, Scan!SendNext, Scan!TypeOK, PlaceInv
<1>2. p \in queue /\ p \in Scan!Parsers
  <2>1. queue # {} /\ queue \subseteq Scan!Parsers
    BY <1>1 DEF Scan!SendNext, Scan!TypeOK
  <2>2. QED
    BY <2>1
<1>3. /\ queue' = queue \ {p}
      /\ \/ /\ p \notin keyless /\ pc' = "post"
            /\ post' = [parser |-> p, left |-> reports[p], then |-> pc]
            /\ UNCHANGED <<exit, dirs>>
         \/ /\ p \in keyless /\ UNCHANGED post
            /\ IF cmd = "archive" \/ pc = "failing"
               THEN UNCHANGED <<pc, exit, dirs>>
               ELSE Scan!Exit("error")
      /\ UNCHANGED <<cmd, paths, target, keyless, path, stage, found, reports, tries, gated,
                     gating_exit, owed, refused, scanFaults>>
  BY DEF Scan!SendNext, Scan!Rest, Scan!options, Scan!scan
<1> HIDE DEF p
<1>4. /\ pc = "failing" => Scan!Incremental
      /\ Scan!Incremental => owed = {}
      /\ \A o \in owed : Passed(o) \/ Queued(o)
  BY <1>1 DEF OwedInv, PlaceInv
<1>5. CASE /\ p \notin keyless /\ pc' = "post"
           /\ post' = [parser |-> p, left |-> reports[p], then |-> pc]
           /\ UNCHANGED <<exit, dirs>>
  <2>1. post' \in Scan!Post /\ post' # Scan!NoPost
    BY <1>1, <1>2, <1>5, StageFacts DEF Scan!Post, Scan!NoPost, Scan!TypeOK
  <2>2. Scan!TypeOK'
    BY <1>1, <1>3, <1>5, <2>1 DEF Scan!TypeOK
  <2>3. post'.parser = p /\ post'.left = reports[p] /\ post'.then = pc
    BY <1>5
  <2>4. \A o \in owed' : Passed(o)' \/ Queued(o)' \/ Posting(o)'
    BY <1>3, <1>4, <2>3 DEF Passed, Queued, Posting
  <2>5. OwedInv'
    BY <1>1, <1>3, <1>4, <1>5, <2>3, <2>4 DEF OwedInv, Scan!Incremental
  <2>6. PlaceInv'
    BY <1>1, <1>3, <1>5, <2>3 DEF PlaceInv, Scan!Incremental
  <2>7. QED
    BY <1>1, <1>5, <2>2, <2>5, <2>6, StillRunning DEF ScanInv
<1>6. CASE /\ p \in keyless /\ (cmd = "archive" \/ pc = "failing")
           /\ UNCHANGED <<pc, exit, dirs, post>>
  <2>1. Scan!TypeOK'
    BY <1>1, <1>3, <1>6 DEF Scan!TypeOK
  <2>2. \A o \in owed' : Passed(o)' \/ Queued(o)'
    BY <1>3, <1>4, <1>6 DEF Passed, Queued
  <2>3. OwedInv'
    BY <1>1, <1>3, <1>4, <1>6, <2>2 DEF OwedInv, Scan!Incremental
  <2>4. PlaceInv'
    BY <1>1, <1>3, <1>6 DEF PlaceInv, Scan!Incremental
  <2>5. QED
    BY <1>1, <1>6, <2>1, <2>3, <2>4, StillRunning DEF ScanInv
<1>7. CASE Scan!Exit("error") /\ UNCHANGED post
  <2>1. exit' = "error" /\ pc' = "end" /\ dirs' = dirs \ {"tree"}
    BY <1>7 DEF Scan!Exit
  <2>2. Scan!TypeOK'
    BY <1>1, <1>3, <1>7, <2>1 DEF Scan!TypeOK
  <2>3. \A o \in owed' : \/ Passed(o)
                         \/ o[1] = path /\ (Scan!Incremental => refused')
    BY <1>3, <1>4 DEF Queued
  <2>4. target # "vat" => owed' = {}
    BY <1>1, <1>3 DEF OwedInv
  <2>5. QED
    BY <1>1, <1>3, <1>7, <2>2, <2>3, <2>4, FailingExit DEF ScanInv
<1>8. QED
  BY <1>3, <1>5, <1>6, <1>7

\* A piece of a report reaches VAT: what is still owed of the path is in the
\* rest of the report, or among the reports to be sent.
LEMMA ScanDelivered ==
  ASSUME ScanInv, Scan!Delivered
  PROVE  ScanInv'
<1> DEFINE b == Scan!Piece(post.parser, post.left)
<1>1. /\ Scan!TypeOK /\ OwedInv /\ PlaceInv /\ pc = "post" /\ exit = "none"
      /\ cmd # "image" /\ path >= 1 /\ post # Scan!NoPost /\ post \in Scan!Post
  BY DEF ScanInv, Scan!Delivered, Scan!TypeOK, PlaceInv
<1>2. /\ owed' = owed \ Scan!Produced(post.parser, b)
      /\ IF post.left = b THEN Scan!Resume(post.then) /\ post' = Scan!NoPost
         ELSE post' = [post EXCEPT !.left = @ \ b] /\ UNCHANGED <<pc, queue, exit, dirs>>
      /\ UNCHANGED <<cmd, paths, target, keyless, path, stage, found, reports, tries, gated,
                     gating_exit, refused, scanFaults>>
  BY DEF Scan!Delivered, Scan!options, Scan!scan
<1> HIDE DEF b
<1>3. /\ \A o \in owed' : o \in owed /\ (Posting(o) => o[3] \notin b)
      /\ target # "vat" => owed' = {}
      /\ Scan!Incremental => \A o \in owed' : Posting(o)
      /\ post.then = "push" => \A o \in owed' : Passed(o) \/ Queued(o) \/ Posting(o)
      /\ post.then = "failing" => owed' = {}
      /\ post.then # "push" => Scan!Incremental
      /\ owed' \subseteq (0..MaxPaths) \X Scan!Parsers \X Scan!Parts
  <2>1. \A o \in owed : Posting(o) /\ o[3] \in b => o \in Scan!Produced(post.parser, b)
    <3>1. \A o \in owed : o = <<o[1], o[2], o[3]>>
      BY <1>1 DEF Scan!TypeOK
    <3>2. QED
      BY <3>1 DEF Posting, Scan!Produced
  <2>2. QED
    BY <1>1, <1>2, <2>1 DEF OwedInv, PlaceInv, Scan!TypeOK
<1>4. CASE post.left # b
  <2>1. post' = [post EXCEPT !.left = @ \ b] /\ UNCHANGED <<pc, queue, exit, dirs>>
    BY <1>2, <1>4
  <2>2. /\ post' \in Scan!Post /\ post' # Scan!NoPost /\ post'.parser = post.parser
        /\ post'.left = post.left \ b /\ post'.then = post.then
    BY <1>1, <2>1, StageFacts DEF Scan!Post, Scan!NoPost
  <2>3. Scan!TypeOK'
    BY <1>1, <1>2, <1>3, <2>1, <2>2 DEF Scan!TypeOK
  <2>4. \A o \in owed' : /\ Posting(o) => Posting(o)'
                         /\ Passed(o) => Passed(o)'
                         /\ Queued(o) => Queued(o)'
    BY <1>2, <1>3, <2>1, <2>2 DEF Posting, Passed, Queued
  <2>5. OwedInv'
    BY <1>1, <1>2, <1>3, <2>1, <2>2, <2>4 DEF OwedInv, Scan!Incremental
  <2>6. PlaceInv'
    BY <1>1, <1>2, <2>1, <2>2 DEF PlaceInv, Scan!Incremental
  <2>7. QED
    BY <1>1, <2>1, <2>3, <2>5, <2>6, StillRunning DEF ScanInv
<1>5. CASE post.left = b
  <2>1. Scan!Resume(post.then) /\ post' = Scan!NoPost
    BY <1>2, <1>5
  <2>2. \A o \in owed' : ~Posting(o)
    BY <1>3, <1>5 DEF Posting
  <2>3. Scan!Incremental => owed' = {}
    BY <1>3, <2>2
  <2>4. CASE post.then # "error"
    <3>1. /\ UNCHANGED <<queue, exit, dirs>>
          /\ \/ post.then = "on" /\ pc' = "scan"
             \/ post.then = "push" /\ pc' = "push"
             \/ post.then = "failing" /\ pc' = "failing"
      BY <1>1, <2>1, <2>4 DEF Scan!Resume, Scan!Post
    <3>2. Scan!TypeOK'
      BY <1>1, <1>2, <1>3, <2>1, <3>1 DEF Scan!TypeOK
    <3>3. pc' = "push" => \A o \in owed' : Passed(o)' \/ Queued(o)'
      BY <1>2, <1>3, <2>2, <3>1 DEF Passed, Queued
    <3>4. OwedInv'
      BY <1>1, <1>2, <1>3, <2>3, <3>1, <3>3 DEF OwedInv, Scan!Incremental
    <3>5. PlaceInv'
      BY <1>1, <1>2, <1>3, <3>1 DEF PlaceInv, Scan!Incremental
    <3>6. QED
      BY <1>1, <3>1, <3>2, <3>4, <3>5, StillRunning DEF ScanInv
  <2>5. CASE post.then = "error"
    <3>1. Scan!Failing(reports)
      BY <2>1, <2>5 DEF Scan!Resume
    <3>2. owed' = {}
      BY <1>3, <2>3, <2>5
    <3>3. /\ OwedInv' /\ PlaceInv'
          /\ Scan!DoneMeansSent' /\ Scan!WorkKept' /\ Scan!TempRemoved' /\ Scan!GateHolds'
          /\ pc' \in {"failing", "end"} /\ (pc' = "end") = (exit' # "none")
          /\ exit' \in {"none", "error"} /\ dirs' \subseteq dirs
          /\ queue' = queue \/ queue' \subseteq Scan!Parsers
      BY <1>1, <1>2, <2>1, <3>1, <3>2, FailingStep
    <3>4. Scan!TypeOK'
      BY <1>1, <1>2, <2>1, <3>2, <3>3 DEF Scan!TypeOK
    <3>5. QED
      BY <3>3, <3>4 DEF ScanInv
  <2>6. QED
    BY <2>4, <2>5
<1>6. QED
  BY <1>4, <1>5

\* VAT refuses a report.
LEMMA ScanRefused ==
  ASSUME ScanInv, Scan!Refused
  PROVE  ScanInv'
<1>1. /\ Scan!TypeOK /\ OwedInv /\ PlaceInv /\ pc = "post" /\ exit = "none"
      /\ cmd # "image" /\ path >= 1 /\ post # Scan!NoPost /\ post \in Scan!Post
  BY DEF ScanInv, Scan!Refused, Scan!TypeOK, PlaceInv
<1>2. /\ post' = Scan!NoPost /\ refused' = TRUE
      /\ UNCHANGED <<cmd, paths, target, keyless, path, stage, found, reports, queue, tries,
                     gated, gating_exit, owed>>
  BY DEF Scan!Refused, Scan!options, Scan!scan
<1>3. scanFaults' \in 0..ScanFaults
  <2>1. Scan!Fault \/ UNCHANGED scanFaults
    BY DEF Scan!Refused
  <2>2. QED
    BY <1>1, <2>1, ScanFaultBound DEF Scan!TypeOK
<1>4. /\ target # "vat" => owed' = {}
      /\ \A o \in owed' : Passed(o) \/ o[1] = path
      /\ post.then = "failing" => owed' = {} /\ Scan!Incremental
  BY <1>1, <1>2 DEF OwedInv, PlaceInv, Queued, Posting
<1>5. \/ post.then = "failing" /\ pc' = "failing" /\ UNCHANGED <<exit, dirs>>
      \/ \E how \in {"error", "raised"} : Scan!Exit(how)
  BY DEF Scan!Refused
<1>6. CASE post.then = "failing" /\ pc' = "failing" /\ UNCHANGED <<exit, dirs>>
  <2>1. Scan!TypeOK'
    BY <1>1, <1>2, <1>3, <1>6 DEF Scan!TypeOK
  <2>2. OwedInv' /\ PlaceInv'
    BY <1>1, <1>2, <1>4, <1>6 DEF OwedInv, PlaceInv, Scan!Incremental
  <2>3. QED
    BY <1>1, <1>6, <2>1, <2>2, StillRunning DEF ScanInv
<1>7. CASE \E how \in {"error", "raised"} : Scan!Exit(how)
  <2>1. PICK how \in {"error", "raised"} : Scan!Exit(how)
    BY <1>7
  <2>2. exit' = how /\ pc' = "end" /\ dirs' = dirs \ {"tree"}
    BY <2>1 DEF Scan!Exit
  <2>3. Scan!TypeOK'
    BY <1>1, <1>2, <1>3, <2>2 DEF Scan!TypeOK
  <2>4. \A o \in owed' : \/ Passed(o)
                         \/ o[1] = path /\ (Scan!Incremental => refused')
    BY <1>2, <1>4
  <2>5. QED
    BY <1>1, <1>2, <1>4, <2>1, <2>3, <2>4, FailingExit DEF ScanInv
<1>8. QED
  BY <1>5, <1>6, <1>7

\* A path ends with all its reports sent, and with the last one the command.
LEMMA ScanEndPath ==
  ASSUME ScanInv, Scan!EndPath
  PROVE  ScanInv'
<1>1. /\ Scan!TypeOK /\ OwedInv /\ PlaceInv /\ pc = "push" /\ exit = "none"
      /\ cmd # "image" /\ path >= 1 /\ post = Scan!NoPost /\ queue = {}
  BY DEF ScanInv, Scan!EndPath, Scan!TypeOK, PlaceInv
<1>2. UNCHANGED <<cmd, paths, target, keyless, path, stage, found, reports, queue, post, tries,
                  gated, gating_exit, owed, refused, scanFaults>>
  BY DEF Scan!EndPath, Scan!options, Scan!scan
<1>3. /\ \A o \in owed : Passed(o) /\ (Scan!Incremental => owed = {})
      /\ Scan!Incremental => owed = {}
      /\ target # "vat" => owed = {}
      /\ "wraps" \notin dirs
  BY <1>1 DEF OwedInv, PlaceInv, Queued
<1>4. CASE path < paths
  <2>1. pc' = "next" /\ dirs' = dirs \ {"tree"} /\ UNCHANGED exit
    BY <1>4 DEF Scan!EndPath
  <2>2. Scan!TypeOK'
    BY <1>1, <1>2, <2>1 DEF Scan!TypeOK
  <2>3. OwedInv'
    BY <1>1, <1>2, <1>3, <2>1 DEF OwedInv, Passed, Scan!Incremental
  <2>4. PlaceInv'
    BY <1>1, <1>2, <1>3, <1>4, <2>1 DEF PlaceInv
  <2>5. QED
    BY <1>1, <2>1, <2>2, <2>3, <2>4, StillRunning DEF ScanInv
<1>5. CASE ~(path < paths)
  <2>1. exit' = "done" /\ pc' = "end" /\ dirs' = dirs \ {"tree"}
    BY <1>5 DEF Scan!EndPath, Scan!Exit
  <2>2. Scan!TypeOK'
    BY <1>1, <1>2, <2>1 DEF Scan!TypeOK
  <2>3. OwedInv' /\ PlaceInv'
    BY <1>1, <1>2, <1>3, <2>1 DEF OwedInv, PlaceInv
  <2>4. Scan!DoneMeansSent' /\ Scan!WorkKept'
    BY <1>2, <1>3, <2>1 DEF Scan!DoneMeansSent, Scan!WorkKept, Passed
  <2>5. Scan!TempRemoved' /\ Scan!GateHolds'
    BY <1>1, <1>2, <1>3, <2>1
       DEF Scan!TempRemoved, Scan!GateHolds, Scan!TypeOK, PlaceInv
  <2>6. QED
    BY <2>2, <2>3, <2>4, <2>5 DEF ScanInv
<1>6. QED
  BY <1>4, <1>5

\* The reports of a failed scan have been sent.
LEMMA ScanEndFailing ==
  ASSUME ScanInv, Scan!EndFailing
  PROVE  ScanInv'
<1>1. /\ Scan!TypeOK /\ OwedInv /\ PlaceInv /\ pc = "failing" /\ exit = "none"
      /\ cmd # "image" /\ post = Scan!NoPost /\ Scan!Exit("error")
      /\ UNCHANGED <<cmd, paths, target, keyless, path, stage, found, reports, queue, post,
                     tries, gated, gating_exit, owed, refused, scanFaults>>
  BY DEF ScanInv, Scan!EndFailing, Scan!TypeOK, PlaceInv, Scan!options, Scan!scan
<1>2. owed' = {}
  BY <1>1 DEF OwedInv, PlaceInv
<1>3. Scan!TypeOK'
  BY <1>1 DEF Scan!TypeOK, Scan!Exit
<1>4. QED
  BY <1>1, <1>2, <1>3, FailingExit DEF ScanInv

\* The image command: one report, uploaded with three attempts.
LEMMA ScanImage ==
  ASSUME ScanInv, Scan!ImageScan \/ Scan!ImageSent \/ Scan!ImageRefused
  PROVE  ScanInv'
<1>1. /\ Scan!TypeOK /\ OwedInv /\ PlaceInv /\ exit = "none" /\ post = Scan!NoPost
      /\ cmd = "image" /\ path = 0 /\ paths = 1 /\ dirs = {} /\ pc \in {"next", "upload"}
      /\ tries \in 0..2
  BY DEF ScanInv, Scan!ImageScan, Scan!ImageSent, Scan!ImageRefused, Scan!TypeOK, PlaceInv
<1>2. UNCHANGED <<cmd, paths, target, keyless, path, stage, found, reports, queue, post, gated,
                  gating_exit>>
  BY DEF Scan!ImageScan, Scan!ImageSent, Scan!ImageRefused, Scan!options, Scan!scan
<1>3. scanFaults' \in 0..ScanFaults
  <2>1. Scan!Fault \/ UNCHANGED scanFaults
    BY DEF Scan!ImageScan, Scan!ImageSent, Scan!ImageRefused
  <2>2. QED
    BY <1>1, <2>1, ScanFaultBound DEF Scan!TypeOK
<1>4. /\ owed' \subseteq (0..MaxPaths) \X Scan!Parsers \X Scan!Parts
      /\ \A o \in owed' : o[1] = path
      /\ target # "vat" => owed' = {}
      /\ tries' \in 0..3 /\ refused' \in BOOLEAN
      /\ \/ pc' = "upload" /\ tries' < 3 /\ exit' = "none" /\ dirs' = {}
         \/ pc' = "end" /\ exit' \in {"error", "raised"} /\ dirs' = {}
         \/ pc' = "end" /\ exit' = "done" /\ dirs' = {} /\ owed' = {}
  <2>1. CASE Scan!ImageScan
    <3>1. PICK o \in {Scan!Gives({Scan!Root}), Scan!Fails("error"), Scan!Fails("raised")} :
            /\ owed' = IF target = "vat" THEN Scan!Produced("trivy", o.parts) ELSE {}
            /\ \/ o.end # "on" /\ Scan!Exit(o.end)
               \/ o.end = "on" /\ target = "dry" /\ Scan!Exit("done")
               \/ o.end = "on" /\ target = "unset" /\ Scan!Exit("error")
               \/ o.end = "on" /\ target = "vat" /\ "trivy" \in keyless /\ Scan!Exit("error")
               \/ /\ o.end = "on" /\ target = "vat" /\ "trivy" \notin keyless
                  /\ pc' = "upload" /\ UNCHANGED <<exit, dirs>>
      BY <2>1 DEF Scan!ImageScan
    <3>2. /\ o.parts \subseteq {Scan!Root} /\ o.end \in {"on", "error", "raised"}
      BY DEF Scan!Gives, Scan!Fails
    <3>3. owed' \subseteq {<<0, "trivy", Scan!Root>>} /\ (target # "vat" => owed' = {})
      BY <1>1, <3>1, <3>2 DEF Scan!Produced
    <3>4. UNCHANGED <<tries, refused>>
      BY <2>1 DEF Scan!ImageScan
    <3>5. <<0, "trivy", Scan!Root>> \in (0..MaxPaths) \X Scan!Parsers \X Scan!Parts
      BY VatScanAssumption, StageFacts DEF Scan!LocalScanAssumption, Scan!Parts
    <3>6. /\ owed' \subseteq (0..MaxPaths) \X Scan!Parsers \X Scan!Parts
          /\ \A q \in owed' : q[1] = path
      BY <1>1, <3>3, <3>5
    <3>7. tries' \in 0..3 /\ tries' < 3 /\ refused' \in BOOLEAN
      BY <1>1, <3>4 DEF Scan!TypeOK
    <3>8. QED
      BY <1>1, <3>1, <3>2, <3>3, <3>6, <3>7 DEF Scan!Exit
  <2>2. CASE Scan!ImageSent
    BY <1>1, <2>2 DEF Scan!ImageSent, Scan!Exit, Scan!TypeOK
  <2>3. CASE Scan!ImageRefused
    <3>1. /\ owed' = owed /\ tries' = tries + 1 /\ pc = "upload"
          /\ \/ tries' < 3 /\ UNCHANGED <<pc, exit, dirs, refused>>
             \/ refused' = TRUE /\ \E how \in {"error", "raised"} : Scan!Exit(how)
      BY <2>3 DEF Scan!ImageRefused
    <3>2. /\ owed' \subseteq (0..MaxPaths) \X Scan!Parsers \X Scan!Parts
          /\ \A o \in owed' : o[1] = path
          /\ target # "vat" => owed' = {}
      BY <1>1, <3>1 DEF Scan!TypeOK, OwedInv
    <3>3. tries' \in 0..3
      BY <1>1, <3>1
    <3>4. refused' \in BOOLEAN
      BY <1>1, <3>1 DEF Scan!TypeOK
    <3>5. QED
      BY <1>1, <3>1, <3>2, <3>3, <3>4 DEF Scan!Exit
  <2>4. QED
    BY <2>1, <2>2, <2>3
<1>5. Scan!TypeOK'
  BY <1>1, <1>2, <1>3, <1>4 DEF Scan!TypeOK
<1>6. OwedInv'
  BY <1>1, <1>2, <1>4 DEF OwedInv, Scan!Incremental
<1>7. PlaceInv'
  BY <1>1, <1>2, <1>4 DEF PlaceInv
<1>8. Scan!DoneMeansSent' /\ Scan!WorkKept' /\ Scan!TempRemoved' /\ Scan!GateHolds'
  BY <1>1, <1>2, <1>4
     DEF Scan!DoneMeansSent, Scan!WorkKept, Scan!TempRemoved, Scan!GateHolds, Scan!Incremental,
         PlaceInv
<1>9. QED
  BY <1>5, <1>6, <1>7, <1>8 DEF ScanInv

\* Every step of a one-shot scan keeps its invariant.
LEMMA ScanStep ==
  ASSUME ScanInv, [Scan!Next]_(Scan!vars)
  PROVE  ScanInv'
<1>1. CASE Scan!StartPath \/ Scan!Collect \/ Scan!RunStage \/ Scan!Gate
  BY <1>1, ScanStartPath, ScanCollect, ScanRunStage, ScanGate
<1>2. CASE Scan!SendNext \/ Scan!Delivered \/ Scan!Refused
  BY <1>2, ScanSendNext, ScanDelivered, ScanRefused
<1>3. CASE Scan!EndPath \/ Scan!EndFailing
  BY <1>3, ScanEndPath, ScanEndFailing
<1>4. CASE Scan!ImageScan \/ Scan!ImageSent \/ Scan!ImageRefused
  BY <1>4, ScanImage
<1>5. CASE UNCHANGED Scan!vars
  <2>1. UNCHANGED <<cmd, paths, target, keyless, pc, path, stage, found, reports, queue, post,
                    tries, dirs, gated, gating_exit, exit, owed, refused, scanFaults>>
    BY <1>5 DEF Scan!vars, Scan!options, Scan!scan
  <2>2. Scan!TypeOK'
    BY <2>1 DEF ScanInv, Scan!TypeOK
  <2>3. OwedInv' /\ PlaceInv'
    BY <2>1 DEF ScanInv, OwedInv, PlaceInv, Passed, Queued, Posting, Scan!Incremental
  <2>4. Scan!DoneMeansSent' /\ Scan!WorkKept' /\ Scan!TempRemoved' /\ Scan!GateHolds'
    BY <2>1 DEF ScanInv, Scan!DoneMeansSent, Scan!WorkKept, Scan!TempRemoved, Scan!GateHolds,
                Scan!Incremental
  <2>5. QED
    BY <2>2, <2>3, <2>4 DEF ScanInv
<1>6. QED
  BY <1>1, <1>2, <1>3, <1>4, <1>5 DEF Scan!Next, Scan!Ended

(***************************************************************************)
(* The process.                                                            *)
(***************************************************************************)

\* Every step of the process is a step, or a stutter, of each part.
LEMMA StepOfParts ==
  ASSUME [Next]_vars
  PROVE  [Scan!Next]_(Scan!vars) /\ [Lane!Next]_(Lane!vars)
<1>1. UNCHANGED scanVars => UNCHANGED Scan!vars
  BY DEF scanVars, Scan!vars, Scan!options, Scan!scan
<1>2. UNCHANGED laneVars => UNCHANGED Lane!vars
  BY DEF laneVars, Lane!vars, Lane!setup
<1>3. CASE RunScan
  BY <1>2, <1>3 DEF RunScan
<1>4. CASE RunLane
  BY <1>1, <1>4 DEF RunLane
<1>5. CASE UNCHANGED vars
  BY <1>1, <1>2, <1>5 DEF vars
<1>6. QED
  BY <1>3, <1>4, <1>5 DEF Next

\* The process implements each of its two parts: a one-shot command and a lane
\* do not disturb each other's state.
THEOREM ProcessImplementsParts == Spec => Scan!Spec /\ Lane!Spec
<1>1. Init => Scan!Init /\ Lane!Init
  BY DEF Init
<1>2. [Next]_vars => [Scan!Next]_(Scan!vars) /\ [Lane!Next]_(Lane!vars)
  BY StepOfParts
<1>3. QED
  BY <1>1, <1>2, PTL DEF Spec, Scan!Spec, Lane!Spec

\* The invariant of the process.
VatScanInv == command \in Commands /\ ScanInv /\ LaneInv

\* A process keeps the invariants of the part whose path it takes.
LEMMA VatScanInvariant == Spec => []VatScanInv
<1>1. Init => VatScanInv
  BY ScanInit, LaneInit DEF Init, VatScanInv, Commands
<1>2. VatScanInv /\ [Next]_vars => VatScanInv'
  <2> SUFFICES ASSUME VatScanInv, [Next]_vars PROVE VatScanInv'
    OBVIOUS
  <2>1. ScanInv' /\ LaneInv'
    BY StepOfParts, ScanStep, LaneStep DEF VatScanInv
  <2>2. command' = command
    BY DEF Next, RunScan, RunLane, vars
  <2>3. QED
    BY <2>1, <2>2 DEF VatScanInv
<1>3. QED
  BY <1>1, <1>2, PTL DEF Spec

\* A one-shot command that ends of itself has sent all it produced, one that
\* fails half-way has kept what it had finished, neither leaves an extracted
\* tree behind, and the exit code tells of every path's findings.
THEOREM OneShotAlwaysSound == Spec => []OneShotSound
<1>1. VatScanInv => OneShotSound
  BY DEF VatScanInv, ScanInv, OneShotSound
<1>2. QED
  BY <1>1, VatScanInvariant, PTL

\* A lane checkpoints what VAT has had the reports of.
THEOREM LaneAlwaysSound == Spec => []LaneSound
<1>1. VatScanInv => LaneSound
  BY DEF VatScanInv, LaneInv, LaneSound
<1>2. QED
  BY <1>1, VatScanInvariant, PTL

\* A full rescan that puts off the next one has brought VAT every item.
THEOREM RescansComplete == Spec => FullRescanComplete
<1> DEFINE Complete == file.full = "old" /\ file'.full = "recent"
                         => Items \ pass.got \subseteq pass.silent \cup pass.hidden
<1>1. VatScanInv /\ [Next]_vars => [Complete]_(Lane!vars)
  <2> SUFFICES ASSUME VatScanInv, [Next]_vars, file.full = "old", file'.full = "recent"
               PROVE  Items \ pass.got \subseteq pass.silent \cup pass.hidden
    OBVIOUS
  <2>1. QED
    BY StepOfParts, LaneFullRescan DEF VatScanInv
<1>2. QED
  BY <1>1, VatScanInvariant, PTL DEF Spec, FullRescanComplete, Lane!FullRescanComplete

(***************************************************************************)
(* Aikido's full syncs (AikidoSync).                                       *)
(***************************************************************************)

\* What the state s of an issue asks of the status and of closed_at.
GoodStatus(st, s) == IF VatStatus(s) = "Open" THEN st # "Resolved" ELSE st = VatStatus(s)
GoodClosed(c, s)  == HasClosedAt(s) => c

\* From f to g a column has only been given what s asks for.
Improves(f, g, s) ==
  /\ g \in Finding
  /\ g.status = f.status \/ GoodStatus(g.status, s)
  /\ g.closedAt = f.closedAt \/ GoodClosed(g.closedAt, s)
  /\ f.digest => g.digest

\* A finding that says what s asks for, but for the digest.
Ingest(f, s) == f # NoFinding /\ GoodStatus(f.status, s) /\ GoodClosed(f.closedAt, s)

Write   == [issue : Issues, seen : Finding \cup {NoFinding}, new : Finding]
RunType == [pc : Pc, snap : [Issues -> IssueStates], pos : Nat, got : SUBSET Listed,
            seen : Finding \cup {NoFinding}, writes : SUBSET Write, clean : SUBSET Issues,
            retried : BOOLEAN]

\* Where a run is: at an issue while it reads and writes, and with nothing to
\* promise before it has fetched.
RunPlace(r) ==
  /\ run[r].pc \in {"read", "write"} => run[r].pos \in 1..Len(Export)
  /\ run[r].pc = "commit" => run[r].pos \in 1..(Len(Export) + 1)
  /\ run[r].pc \in {"queued", "fetch"} => run[r].clean = {}
  /\ \A i \in run[r].clean : run[r].snap[i] = issue[i]

\* What a run has read and not written yet.
ReadInv(r) ==
  run[r].pc = "write" /\ run[r].seen # NoFinding =>
    /\ finding[Export[run[r].pos]] # NoFinding
    /\ Export[run[r].pos] \in run[r].clean =>
         Improves(run[r].seen, finding[Export[run[r].pos]], run[r].snap[Export[run[r].pos]])

\* What it has written and not committed yet.
PendingInv(r) ==
  \A w \in run[r].writes :
    /\ w.new = Ingested(w.seen, run[r].snap[w.issue])
    /\ w.seen = NoFinding <=> finding[w.issue] = NoFinding
    /\ w.seen # NoFinding /\ w.issue \in run[r].clean =>
         Improves(w.seen, finding[w.issue], run[r].snap[w.issue])

\* The issues the export lists before its place p, and those a run has come past.
Before(p) == {Export[n] : n \in 1..(p - 1)}

Past(r) == IF run[r].pc \in {"read", "write", "commit"}
           THEN Before(run[r].pos)
           ELSE IF run[r].pc \in {"dashboard", "backfill", "off"} THEN Issues ELSE {}

\* What a run has brought VAT of the issues nobody touched.
DoneInv(r) ==
  /\ \A i \in run[r].clean \cap Past(r) :
       i \in Wrote(r) \/ (i \in assets /\ Ingest(finding[i], run[r].snap[i]))
  /\ run[r].pc \in {"backfill", "off"} =>
       \A i \in run[r].clean \cap run[r].got : finding[i].digest

RunInv(r) == RunPlace(r) /\ ReadInv(r) /\ PendingInv(r) /\ DoneInv(r)

\* Nobody writes a row that another has written and not committed.
Exclusive ==
  \A q, r \in Runs : \A v \in run[q].writes, w \in run[r].writes :
    v.issue = w.issue => q = r /\ v = w

\* A row that a request has read stays.
HandlingInv ==
  \A g \in handling : g.seen # NoFinding => finding[g.hook.issue] # NoFinding

\* What the syncs leave alone, and what they are.
WebTypes ==
  /\ issue \in [Issues -> IssueStates]
  /\ hooks \subseteq Hook /\ claimed \subseteq Hook
  /\ \A g \in handling : g.hook \in Hook /\ g.seen \in Finding \cup {NoFinding}
  /\ issueChanges \in 0..MaxIssueChanges

RunTypes ==
  /\ finding \in [Issues -> Finding \cup {NoFinding}]
  /\ assets \subseteq Issues /\ row \in Row
  /\ run \in [Runs -> RunType]
  /\ \A r \in Runs : run[r].writes # {} => run[r].pc \in {"read", "write", "commit"}

SyncInv == WebTypes /\ RunTypes /\ (\A r \in Runs : RunInv(r)) /\ Exclusive /\ HandlingInv

\* The status that an issue asks for is a finding's.
LEMMA VatStatusType ==
  ASSUME NEW s \in IssueStates
  PROVE  VatStatus(s) \in {"Open", "Resolved", "Suppressed"} /\ HasClosedAt(s) \in BOOLEAN
BY DEF VatStatus, HasClosedAt, IssueStates

\* What the types say of a finding.
LEMMA FindingFields ==
  ASSUME NEW f \in Finding
  PROVE  /\ f.status \in {"Open", "Reopened", "Resolved", "Suppressed"}
         /\ f.closedAt \in BOOLEAN /\ f.digest \in BOOLEAN /\ f # NoFinding
BY AikidoAssumption DEF Finding

\* What is ingested for s is what s asks for, and leaves the digest alone.

\* What is ingested for s is what s asks for, and leaves the digest alone.
LEMMA IngestedFacts ==
  ASSUME NEW f \in Finding \cup {NoFinding},
         NEW s \in IssueStates
  PROVE  /\ Ingested(f, s) \in Finding
         /\ GoodStatus(Ingested(f, s).status, s) /\ GoodClosed(Ingested(f, s).closedAt, s)
         /\ f # NoFinding => Ingested(f, s).digest = f.digest
<1>1. VatStatus(s) \in {"Open", "Resolved", "Suppressed"} /\ HasClosedAt(s) \in BOOLEAN
      /\ (VatStatus(s) = "Open" => ~HasClosedAt(s))
  BY VatStatusType DEF VatStatus, HasClosedAt, IssueStates
<1>2. CASE f = NoFinding
  BY <1>1, <1>2 DEF Ingested, Created, Finding, GoodStatus, GoodClosed
<1>3. CASE f # NoFinding /\ VatStatus(s) # "Open"
  <2> DEFINE c == f.closedAt \/ HasClosedAt(s)
             n == [f EXCEPT !.status = VatStatus(s), !.closedAt = c]
  <2>1. Ingested(f, s) = n /\ f \in Finding
    BY <1>3 DEF Ingested, Merged
  <2>2. c \in BOOLEAN /\ (HasClosedAt(s) => c)
    OBVIOUS
  <2> HIDE DEF c
  <2>3. n \in Finding /\ n.status = VatStatus(s) /\ n.closedAt = c /\ n.digest = f.digest
    BY <1>1, <2>1, <2>2 DEF Finding
  <2>4. QED
    BY <1>3, <2>1, <2>2, <2>3 DEF GoodStatus, GoodClosed
<1>4. CASE f # NoFinding /\ VatStatus(s) = "Open" /\ f.status = "Resolved"
  <2> DEFINE n == [f EXCEPT !.status = "Reopened", !.closedAt = FALSE]
  <2>1. Ingested(f, s) = n /\ f \in Finding
    BY <1>4 DEF Ingested, Merged
  <2>2. n \in Finding /\ n.status = "Reopened" /\ n.digest = f.digest
    BY <2>1 DEF Finding
  <2>3. QED
    BY <1>1, <1>4, <2>1, <2>2 DEF GoodStatus, GoodClosed
<1>5. CASE f # NoFinding /\ VatStatus(s) = "Open" /\ f.status # "Resolved"
  <2>1. Ingested(f, s) = f /\ f \in Finding
    BY <1>5 DEF Ingested, Merged
  <2>2. QED
    BY <1>1, <1>5, <2>1 DEF GoodStatus, GoodClosed
<1>6. QED
  BY <1>2, <1>3, <1>4, <1>5

\* An UPDATE writes the columns that differ from what was read, and no other.
LEMMA WrittenFacts ==
  ASSUME NEW f \in Finding, NEW seen \in Finding,
         NEW new \in Finding
  PROVE  /\ Written(f, seen, new) \in Finding
         /\ Written(f, seen, new).status = IF new.status = seen.status THEN f.status ELSE new.status
         /\ Written(f, seen, new).closedAt = IF new.closedAt = seen.closedAt THEN f.closedAt
                                             ELSE new.closedAt
         /\ Written(f, seen, new).digest = IF new.digest = seen.digest THEN f.digest ELSE new.digest
<1>1. DOMAIN f = {"status", "closedAt", "digest"}
  BY DEF Finding
<1>2. Written(f, seen, new) =
        [c \in {"status", "closedAt", "digest"} |-> IF new[c] = seen[c] THEN f[c] ELSE new[c]]
  BY <1>1 DEF Written
<1> DEFINE w == Written(f, seen, new)
<1>3. /\ w.status = IF new.status = seen.status THEN f.status ELSE new.status
      /\ w.closedAt = IF new.closedAt = seen.closedAt THEN f.closedAt ELSE new.closedAt
      /\ w.digest = IF new.digest = seen.digest THEN f.digest ELSE new.digest
  BY <1>2
<1>4. w = [status |-> w.status, closedAt |-> w.closedAt, digest |-> w.digest]
  BY <1>2
<1>5. /\ w.status \in {"Open", "Reopened", "Resolved", "Suppressed"}
      /\ w.closedAt \in BOOLEAN /\ w.digest \in BOOLEAN
  BY <1>3, FindingFields
<1> HIDE DEF w
<1>6. w \in Finding
  BY <1>4, <1>5 DEF Finding
<1>7. QED
  BY <1>3, <1>6 DEF w

\* A row that stays as it is improves.
LEMMA ImprovesSelf ==
  ASSUME NEW f \in Finding, NEW s
  PROVE  Improves(f, f, s)
BY DEF Improves

\* Improvements add up.
LEMMA ImprovesAgain ==
  ASSUME NEW f, NEW g, NEW h, NEW s, Improves(f, g, s), Improves(g, h, s)
  PROVE  Improves(f, h, s)
BY DEF Improves

\* What is good stays good.
LEMMA GoodStays ==
  ASSUME NEW f, NEW g, NEW s, Improves(f, g, s),
         GoodStatus(f.status, s), GoodClosed(f.closedAt, s)
  PROVE  GoodStatus(g.status, s) /\ GoodClosed(g.closedAt, s)
BY DEF Improves

\* A flushed row or a webhook, however much later it is written.
LEMMA StoredImproves ==
  ASSUME NEW f \in Finding, NEW seen \in Finding, NEW new,
         NEW s \in IssueStates,
         new = Ingested(seen, s) \/ (s = "closed" /\ new = Closed(seen))
  PROVE  Improves(f, Stored(f, seen, new), s)
<1>1. /\ new \in Finding /\ new.digest = seen.digest
      /\ new.status = seen.status \/ GoodStatus(new.status, s)
      /\ new.closedAt = seen.closedAt \/ GoodClosed(new.closedAt, s)
  <2>1. CASE new = Ingested(seen, s)
    BY <2>1, IngestedFacts, FindingFields
  <2>2. CASE s = "closed" /\ new = Closed(seen)
    <3> DEFINE n == [seen EXCEPT !.status = "Resolved"]
    <3>1. new = n
      BY <2>2, FindingFields DEF Closed
    <3>2. /\ n \in Finding /\ n.status = "Resolved"
          /\ n.closedAt = seen.closedAt /\ n.digest = seen.digest
      BY DEF Finding
    <3>3. VatStatus(s) = "Resolved"
      BY <2>2 DEF VatStatus
    <3>4. QED
      BY <3>1, <3>2, <3>3 DEF GoodStatus
  <2>3. QED
    BY <2>1, <2>2
<1>2. Stored(f, seen, new) = Written(f, seen, new)
  BY <1>1, FindingFields DEF Stored
<1>3. QED
  BY <1>1, <1>2, WrittenFacts DEF Improves

\* What a batch commits: what the issue asked for, as long as nothing else came.
LEMMA StoredIngested ==
  ASSUME NEW f \in Finding \cup {NoFinding},
         NEW seen \in Finding \cup {NoFinding},
         NEW s \in IssueStates, seen = NoFinding <=> f = NoFinding,
         seen # NoFinding => Improves(seen, f, s)
  PROVE  /\ Stored(f, seen, Ingested(seen, s)) \in Finding
         /\ GoodStatus(Stored(f, seen, Ingested(seen, s)).status, s)
         /\ GoodClosed(Stored(f, seen, Ingested(seen, s)).closedAt, s)
<1> DEFINE new == Ingested(seen, s)
<1>1. /\ new \in Finding /\ new # NoFinding
      /\ GoodStatus(new.status, s) /\ GoodClosed(new.closedAt, s)
  BY IngestedFacts, FindingFields
<1> HIDE DEF new
<1>2. CASE seen = NoFinding
  <2>1. Stored(f, seen, new) = new
    BY <1>1, <1>2 DEF Stored
  <2>2. QED
    BY <1>1, <2>1 DEF new
<1>3. CASE seen # NoFinding
  <2>1. /\ Stored(f, seen, new) = Written(f, seen, new)
        /\ f \in Finding /\ seen \in Finding
    BY <1>1, <1>3 DEF Stored
  <2>2. Improves(seen, f, s)
    BY <1>3
  <2> DEFINE w == Written(f, seen, new)
  <2>3. /\ w \in Finding
        /\ w.status = IF new.status = seen.status THEN f.status ELSE new.status
        /\ w.closedAt = IF new.closedAt = seen.closedAt THEN f.closedAt ELSE new.closedAt
    BY <1>1, <2>1, WrittenFacts
  <2> HIDE DEF w
  <2>4. GoodStatus(w.status, s) /\ GoodClosed(w.closedAt, s)
    BY <1>1, <2>2, <2>3 DEF Improves
  <2>5. QED
    BY <2>1, <2>3, <2>4 DEF new, w
<1>4. QED
  BY <1>2, <1>3

(***************************************************************************)
(* Runs.                                                                   *)
(***************************************************************************)

\* What the types say of a run.
LEMMA RunFields ==
  ASSUME RunTypes, NEW r \in Runs
  PROVE  /\ run[r] \in RunType
         /\ run[r].pc \in Pc /\ run[r].snap \in [Issues -> IssueStates] /\ run[r].pos \in Nat
         /\ run[r].seen \in Finding \cup {NoFinding} /\ run[r].writes \subseteq Write
         /\ run[r].clean \subseteq Issues /\ run[r].retried \in BOOLEAN
         /\ run[r].got \subseteq Listed /\ run[r].got \subseteq Issues
         /\ \A i \in Issues : run[r].snap[i] \in IssueStates
         /\ \A w \in run[r].writes : /\ w.issue \in Issues /\ w.seen \in Finding \cup {NoFinding}
                                     /\ w.new \in Finding
<1>1. run[r] \in RunType
  BY DEF RunTypes
<1>2. \A w \in Write : /\ w.issue \in Issues /\ w.seen \in Finding \cup {NoFinding}
                       /\ w.new \in Finding
  BY DEF Write
<1> HIDE DEF Write
<1>3. /\ run[r].pc \in Pc /\ run[r].snap \in [Issues -> IssueStates] /\ run[r].pos \in Nat
      /\ run[r].seen \in Finding \cup {NoFinding} /\ run[r].writes \subseteq Write
      /\ run[r].clean \subseteq Issues /\ run[r].retried \in BOOLEAN
      /\ run[r].got \subseteq Listed /\ run[r].got \subseteq Issues
  BY <1>1, AikidoAssumption DEF RunType
<1>4. QED
  BY <1>1, <1>2, <1>3

\* Findings and assets only come.
Grow ==
  /\ assets \subseteq assets'
  /\ \A i \in Issues : finding[i] # NoFinding => finding'[i] # NoFinding

\* A run that does not move while another actor does.
Alongside(r) ==
  /\ run'[r].pc = run[r].pc /\ run'[r].snap = run[r].snap /\ run'[r].pos = run[r].pos
  /\ run'[r].seen = run[r].seen /\ run'[r].writes = run[r].writes
  /\ run'[r].got = run[r].got /\ run'[r].clean \subseteq run[r].clean
  /\ \A i \in run'[r].clean :
       /\ issue'[i] = issue[i]
       /\ finding[i] # NoFinding => Improves(finding[i], finding'[i], run[r].snap[i])
  /\ \A w \in run[r].writes : finding'[w.issue] = finding[w.issue]

\* The export lists every issue.
LEMMA ExportFacts ==
  /\ Len(Export) \in Nat /\ DOMAIN Export = 1..Len(Export)
  /\ \A n \in 1..Len(Export) : Export[n] \in Issues
  /\ \A i \in Issues : \E n \in 1..Len(Export) : Export[n] = i
BY AikidoAssumption

\* An ingested finding stays so while its row only improves.
LEMMA IngestStays ==
  ASSUME NEW f, NEW g, NEW s, Ingest(f, s), Improves(f, g, s), g # NoFinding
  PROVE  Ingest(g, s)
BY GoodStays DEF Ingest

\* A run that stands still while findings and assets are added keeps its invariant.
LEMMA AlongsideKeeps ==
  ASSUME RunTypes, NEW r \in Runs, RunInv(r), Alongside(r), Grow
  PROVE  RunInv(r)'
<1>0. /\ run'[r].pc = run[r].pc /\ run'[r].snap = run[r].snap
      /\ run'[r].pos = run[r].pos /\ run'[r].seen = run[r].seen
  BY DEF Alongside
<1>1. RunPlace(r)'
  BY DEF RunInv, RunPlace, Alongside
<1>2. ReadInv(r)'
  <2> SUFFICES ASSUME run[r].pc = "write", run[r].seen # NoFinding
      PROVE  /\ finding'[Export[run[r].pos]] # NoFinding
             /\ Export[run[r].pos] \in run'[r].clean =>
                  Improves(run[r].seen, finding'[Export[run[r].pos]], run[r].snap[Export[run[r].pos]])
    BY <1>0 DEF ReadInv
  <2> DEFINE i == Export[run[r].pos]
  <2>1. run[r].pos \in 1..Len(Export) /\ i \in Issues
    BY ExportFacts DEF RunInv, RunPlace
  <2>2. /\ finding[i] # NoFinding
        /\ i \in run[r].clean => Improves(run[r].seen, finding[i], run[r].snap[i])
    BY DEF RunInv, ReadInv
  <2> HIDE DEF i
  <2>3. finding'[i] # NoFinding
    BY <2>1, <2>2 DEF Grow
  <2>4. i \in run'[r].clean => Improves(run[r].seen, finding'[i], run[r].snap[i])
    BY <2>2, ImprovesAgain DEF Alongside
  <2>5. QED
    BY <2>3, <2>4 DEF i
<1>3. PendingInv(r)'
  <2>1. \A w \in run[r].writes :
          /\ w.new = Ingested(w.seen, run[r].snap[w.issue])
          /\ w.seen = NoFinding <=> finding'[w.issue] = NoFinding
          /\ w.seen # NoFinding /\ w.issue \in run'[r].clean =>
               Improves(w.seen, finding'[w.issue], run[r].snap[w.issue])
    BY DEF RunInv, PendingInv, Alongside
  <2>2. QED
    BY <2>1 DEF PendingInv, Alongside
<1>4. DoneInv(r)'
  <2>1. Past(r)' = Past(r) /\ Wrote(r)' = Wrote(r)
    BY DEF Past, Wrote, Alongside
  <2>2. ASSUME NEW i \in run'[r].clean
        PROVE  /\ i \in Past(r) =>
                    i \in Wrote(r) \/ (i \in assets' /\ Ingest(finding'[i], run[r].snap[i]))
               /\ run[r].pc \in {"backfill", "off"} /\ i \in run[r].got => finding'[i].digest
    <3>1. /\ i \in run[r].clean /\ i \in Issues
          /\ finding[i] # NoFinding => Improves(finding[i], finding'[i], run[r].snap[i])
      BY <2>2, RunFields DEF Alongside
    <3>2. Ingest(finding[i], run[r].snap[i]) => Ingest(finding'[i], run[r].snap[i])
      BY <3>1, IngestStays DEF Ingest, Grow
    <3>3. i \in Past(r) =>
            i \in Wrote(r) \/ (i \in assets /\ Ingest(finding[i], run[r].snap[i]))
      BY <3>1 DEF RunInv, DoneInv
    <3>4. ASSUME run[r].pc \in {"backfill", "off"}, i \in run[r].got
          PROVE  finding'[i].digest
      <4>1. i \in Past(r) /\ i \notin Wrote(r)
        BY <3>1, <3>4, RunTypes DEF Past, Wrote, RunTypes
      <4>2. finding[i].digest /\ finding[i] # NoFinding
        BY <3>1, <3>3, <3>4, <4>1 DEF RunInv, DoneInv, Ingest
      <4>3. QED
        BY <3>1, <4>2 DEF Improves
    <3>5. QED
      BY <3>2, <3>3, <3>4 DEF Grow
  <2>3. QED
    BY <2>1, <2>2 DEF DoneInv, Alongside
<1>5. QED
  BY <1>1, <1>2, <1>3, <1>4 DEF RunInv

\* A run that has nothing to promise and nothing to write.
LEMMA BlankHolds ==
  ASSUME NEW r \in Runs, run'[r].pc \in {"off", "queued", "fetch", "failed"},
         run'[r].clean = {}, run'[r].writes = {}
  PROVE  RunInv(r)'
BY DEF RunInv, RunPlace, ReadInv, PendingInv, DoneInv

\* Fewer uncommitted writes exclude one another as well.
LEMMA ExclusiveKept ==
  ASSUME Exclusive, \A r \in Runs : run'[r].writes \subseteq run[r].writes
  PROVE  Exclusive'
BY DEF Exclusive

\* Rows that requests have read stay while findings are added.
LEMMA HandlingKept ==
  ASSUME WebTypes, HandlingInv, Grow, handling' \subseteq handling
  PROVE  HandlingInv'
BY DEF WebTypes, HandlingInv, Grow, Hook

\* A run stands still when neither it nor issues and findings change.
LEMMA RunUnchanged ==
  ASSUME RunTypes, NEW r \in Runs, run'[r] = run[r], UNCHANGED <<issue, finding>>
  PROVE  Alongside(r)
<1>1. \A i \in run[r].clean : finding[i] # NoFinding => finding[i] \in Finding
  BY RunFields DEF RunTypes
<1>2. QED
  BY <1>1, ImprovesSelf DEF Alongside

\* One run goes on, and writes nothing more.
LEMMA OneRun ==
  ASSUME SyncInv, NEW r \in Runs, NEW x \in RunType,
         run' = [run EXCEPT ![r] = x], x.writes \subseteq run[r].writes,
         x.writes # {} => x.pc \in {"read", "write", "commit"},
         UNCHANGED <<issue, hooks, handling, claimed, finding, issueChanges>>,
         assets \subseteq assets', assets' \subseteq Issues, row' \in Row, RunInv(r)'
  PROVE  SyncInv'
<1>1. /\ run' \in [Runs -> RunType] /\ run'[r] = x
      /\ \A q \in Runs : q # r => run'[q] = run[q]
  BY DEF SyncInv, RunTypes
<1>2. RunTypes'
  BY <1>1 DEF SyncInv, RunTypes
<1>3. WebTypes'
  BY DEF SyncInv, WebTypes
<1>4. Grow
  BY DEF Grow
<1>5. ASSUME NEW q \in Runs PROVE RunInv(q)'
  <2>1. CASE q = r
    BY <2>1
  <2>2. CASE q # r
    BY <1>1, <1>4, <2>2, RunUnchanged, AlongsideKeeps DEF SyncInv
  <2>3. QED
    BY <2>1, <2>2
<1>6. Exclusive'
  BY <1>1, ExclusiveKept DEF SyncInv
<1>7. HandlingInv'
  BY <1>4, HandlingKept DEF SyncInv
<1>8. QED
  BY <1>2, <1>3, <1>5, <1>6, <1>7 DEF SyncInv

\* A new run is typed, has written nothing and promises nothing.
LEMMA NewRunType ==
  /\ NewRun \in RunType /\ NewRun.pc = "off"
         /\ NewRun.clean = {} /\ NewRun.writes = {}
         /\ \A step \in {"off", "queued"}, b \in BOOLEAN :
              /\ [NewRun EXCEPT !.pc = step] \in RunType
              /\ [NewRun EXCEPT !.retried = b, !.pc = step] \in RunType
              /\ [NewRun EXCEPT !.pc = step, !.retried = b] \in RunType
<1> DEFINE sn == [i \in Issues |-> "open"]
<1>1. sn \in [Issues -> IssueStates]
  BY DEF IssueStates
<1>2. NewRun = [pc |-> "off", snap |-> sn, pos |-> 1, got |-> {},
                seen |-> NoFinding, writes |-> {}, clean |-> {}, retried |-> FALSE]
  BY DEF NewRun
<1> HIDE DEF sn
<1>3. QED
  BY <1>1, <1>2 DEF RunType, Pc

\* A run that is started, or started again.
LEMMA StartKeeps ==
  ASSUME SyncInv, NEW r \in Runs, NEW x \in RunType,
         run' = [run EXCEPT ![r] = x], x.pc \in {"off", "queued"}, x.clean = {}, x.writes = {},
         UNCHANGED <<issue, hooks, handling, claimed, finding, assets, issueChanges>>,
         row' \in Row
  PROVE  SyncInv'
<1>1. run'[r] = x
  BY DEF SyncInv, RunTypes
<1>2. RunInv(r)'
  BY <1>1, BlankHolds
<1>3. assets' \subseteq Issues /\ assets \subseteq assets'
  BY DEF SyncInv, RunTypes
<1>4. QED
  BY <1>2, <1>3, OneRun

\* Progress and outcomes are typed status rows.
LEMMA RowFacts ==
  /\ Progress \in Row
  /\ \A st \in {"success", "error"} : Terminal(st) \in Row
BY DEF Progress, Terminal, Row

\* A new task takes a run that is off.
LEMMA FreeRun ==
  ASSUME AnyFree
  PROVE  Free \in Runs /\ run[Free].pc = "off"
BY DEF AnyFree, Free

\* POST /sync queues a run that promises nothing.
LEMMA PostSyncKeeps == 
  ASSUME SyncInv, PostSync
  PROVE  SyncInv'
<1> DEFINE x == [NewRun EXCEPT !.pc = "queued"]
<1>1. x \in RunType /\ x.pc = "queued" /\ x.clean = {} /\ x.writes = {}
  BY NewRunType DEF RunType
<1>2. Free \in Runs /\ run' = [run EXCEPT ![Free] = x]
  BY FreeRun DEF PostSync
<1>3. /\ row' \in Row
      /\ UNCHANGED <<issue, hooks, handling, claimed, finding, assets, issueChanges>>
  BY RowFacts DEF PostSync
<1> HIDE DEF x
<1>4. QED
  BY <1>1, <1>2, <1>3, StartKeeps

\* A task handed out again is a run that promises nothing.
LEMMA RedeliverKeeps ==
  ASSUME SyncInv, Redeliver
  PROVE  SyncInv'
<1> DEFINE x == [NewRun EXCEPT !.pc = "queued", !.retried = TRUE]
<1>1. x \in RunType /\ x.pc = "queued" /\ x.clean = {} /\ x.writes = {}
  BY NewRunType DEF RunType
<1>2. Free \in Runs /\ run' = [run EXCEPT ![Free] = x]
  BY FreeRun DEF Redeliver
<1>3. /\ row' \in Row
      /\ UNCHANGED <<issue, hooks, handling, claimed, finding, assets, issueChanges>>
  BY DEF Redeliver, SyncInv, RunTypes
<1> HIDE DEF x
<1>4. QED
  BY <1>1, <1>2, <1>3, StartKeeps

\* An exception rolls a run back.
LEMMA RaiseKeeps ==
  ASSUME SyncInv, NEW r \in Runs, Raise(r)
  PROVE  SyncInv'
<1> DEFINE step == IF run[r].retried THEN "off" ELSE "queued"
           x == [NewRun EXCEPT !.retried = TRUE, !.pc = step]
<1>1. step \in {"off", "queued"}
  OBVIOUS
<1>2. run' = [run EXCEPT ![r] = x]
  BY DEF Raise
<1>3. /\ row' \in Row
      /\ UNCHANGED <<issue, hooks, handling, claimed, finding, assets, issueChanges>>
  BY RowFacts DEF Raise
<1> HIDE DEF step
<1>4. x \in RunType /\ x.pc = step /\ x.clean = {} /\ x.writes = {}
  BY <1>1, NewRunType DEF RunType
<1> HIDE DEF x
<1>5. QED
  BY <1>1, <1>2, <1>3, <1>4, StartKeeps

\* The worker's death rolls its run back.
LEMMA RunCrashKeeps ==
  ASSUME SyncInv, NEW r \in Runs, Crash(r)
  PROVE  SyncInv'
<1>1. PICK step \in {"off", "queued"} :
        run' = [run EXCEPT ![r] = [NewRun EXCEPT !.retried = run[r].retried, !.pc = step]]
  BY DEF Crash
<1> DEFINE x == [NewRun EXCEPT !.retried = run[r].retried, !.pc = step]
<1>2. run[r].retried \in BOOLEAN
  BY RunFields DEF SyncInv
<1>3. x \in RunType /\ x.pc = step /\ x.clean = {} /\ x.writes = {}
  BY <1>2, NewRunType DEF RunType
<1>4. /\ row' \in Row
      /\ UNCHANGED <<issue, hooks, handling, claimed, finding, assets, issueChanges>>
  BY DEF Crash, SyncInv, RunTypes
<1> HIDE DEF x
<1>5. QED
  BY <1>1, <1>3, <1>4, StartKeeps DEF x

(***************************************************************************)
(* The stages of a run.                                                    *)
(***************************************************************************)

\* A run adds the assets it has listed.
LEMMA ListAssetsKeeps ==
  ASSUME SyncInv, NEW r \in Runs, ListAssets(r)
  PROVE  SyncInv'
<1>0. PICK got \in SUBSET Listed, made \in SUBSET Listed :
        /\ assets' = assets \cup made
        /\ run' = [run EXCEPT ![r].pc = "fetch", ![r].got = got]
  BY DEF ListAssets
<1> DEFINE x == [run[r] EXCEPT !.pc = "fetch", !.got = got]
<1>1. RunTypes /\ run[r].pc = "queued" /\ run' = [run EXCEPT ![r] = x]
  BY <1>0 DEF ListAssets, SyncInv
<1>2. run[r].clean = {} /\ run[r].writes = {}
  BY <1>1 DEF SyncInv, RunInv, RunPlace, RunTypes
<1>3. run[r] \in RunType
  BY <1>1, RunFields
<1>4. x \in RunType /\ x.pc = "fetch" /\ x.clean = {} /\ x.writes = {}
  BY <1>2, <1>3 DEF RunType, Pc
<1>5. assets \subseteq assets' /\ assets' \subseteq Issues
  BY <1>0, <1>1, AikidoAssumption DEF RunTypes
<1>6. /\ row' \in Row
      /\ UNCHANGED <<issue, hooks, handling, claimed, finding, issueChanges>>
  BY RowFacts DEF ListAssets
<1> HIDE DEF x
<1>7. run'[r] = x
  BY <1>1 DEF RunTypes
<1>8. RunInv(r)'
  BY <1>4, <1>7, BlankHolds
<1>9. QED
  BY <1>1, <1>4, <1>5, <1>6, <1>8, OneRun

\* A run takes its snapshot of the issues, from which it promises.
LEMMA FetchIssuesKeeps ==
  ASSUME SyncInv, NEW r \in Runs, FetchIssues(r)
  PROVE  SyncInv'
<1>1. RunTypes /\ run[r].pc = "fetch" /\ run[r] \in RunType
  BY RunFields DEF FetchIssues, SyncInv
<1>2. run[r].clean = {} /\ run[r].writes = {}
  BY <1>1 DEF SyncInv, RunInv, RunPlace, RunTypes
<1>3. /\ row' \in Row
      /\ UNCHANGED <<issue, hooks, handling, claimed, finding, assets, issueChanges>>
      /\ assets' \subseteq Issues /\ issue \in [Issues -> IssueStates]
  BY <1>1, RowFacts DEF FetchIssues, SyncInv, RunTypes, WebTypes
<1>4. CASE run' = [run EXCEPT ![r].pc = "failed"]
  <2> DEFINE x == [run[r] EXCEPT !.pc = "failed"]
  <2>1. x \in RunType /\ x.pc = "failed" /\ x.clean = {} /\ x.writes = {}
    BY <1>1, <1>2 DEF RunType, Pc
  <2>2. run' = [run EXCEPT ![r] = x]
    BY <1>4
  <2> HIDE DEF x
  <2>3. run'[r] = x
    BY <1>1, <2>2 DEF RunTypes
  <2>4. RunInv(r)'
    BY <2>1, <2>3, BlankHolds
  <2>5. QED
    BY <1>3, <2>1, <2>2, <2>4, OneRun
<1>5. CASE run' = [run EXCEPT ![r].pc = IF Len(Export) = 0 THEN "dashboard" ELSE "read",
                              ![r].snap = issue, ![r].clean = Issues, ![r].pos = 1]
  <2> DEFINE step == IF Len(Export) = 0 THEN "dashboard" ELSE "read"
             x == [run[r] EXCEPT !.pc = step, !.snap = issue, !.clean = Issues, !.pos = 1]
  <2>1. run' = [run EXCEPT ![r] = x]
    BY <1>5
  <2>2. step \in Pc /\ (step = "read" \/ (step = "dashboard" /\ Issues = {}))
        /\ (step = "read" => 1 \in 1..Len(Export))
    BY ExportFacts DEF Pc
  <2> HIDE DEF step
  <2>3. /\ x \in RunType /\ x.pc = step /\ x.snap = issue /\ x.clean = Issues /\ x.pos = 1
        /\ x.writes = {} /\ x.seen = run[r].seen
    BY <1>1, <1>2, <1>3, <2>2 DEF RunType
  <2> HIDE DEF x
  <2>4. run'[r] = x
    BY <1>1, <2>1 DEF RunTypes
  <2>5. RunInv(r)'
    <3>1. RunPlace(r)'
      BY <1>3, <2>2, <2>3, <2>4 DEF RunPlace
    <3>2. ReadInv(r)' /\ PendingInv(r)'
      BY <2>2, <2>3, <2>4 DEF ReadInv, PendingInv
    <3>3. Past(r)' = {}
      BY <2>2, <2>3, <2>4 DEF Past, Before
    <3>4. DoneInv(r)'
      BY <2>2, <2>3, <2>4, <3>3 DEF DoneInv
    <3>5. QED
      BY <3>1, <3>2, <3>4 DEF RunInv
  <2>6. QED
    BY <1>3, <2>1, <2>2, <2>3, <2>5, OneRun
<1>6. QED
  BY <1>4, <1>5 DEF FetchIssues

\* A run reads the row that it is about to write.
LEMMA ReadFindingKeeps ==
  ASSUME SyncInv, NEW r \in Runs, ReadFinding(r)
  PROVE  SyncInv'
<1> DEFINE i == Export[run[r].pos]
           x == [run[r] EXCEPT !.pc = "write", !.seen = finding[i]]
<1>1. /\ RunTypes /\ run[r].pc = "read" /\ run[r] \in RunType /\ RunInv(r)
      /\ run' = [run EXCEPT ![r] = x]
  BY RunFields DEF ReadFinding, SyncInv
<1>2. run[r].pos \in 1..Len(Export) /\ i \in Issues
  BY <1>1, ExportFacts DEF RunInv, RunPlace
<1>3. finding[i] \in Finding \cup {NoFinding}
  BY <1>1, <1>2 DEF RunTypes
<1>4. /\ row' \in Row
      /\ UNCHANGED <<issue, hooks, handling, claimed, finding, assets, issueChanges>>
      /\ assets' \subseteq Issues
  BY <1>1 DEF ReadFinding, RunTypes
<1>5. /\ x \in RunType /\ x.pc = "write" /\ x.seen = finding[i] /\ x.snap = run[r].snap
      /\ x.pos = run[r].pos /\ x.writes = run[r].writes /\ x.clean = run[r].clean
  BY <1>1, <1>3 DEF RunType, Pc
<1> HIDE DEF x
<1>6. run'[r] = x
  BY <1>1 DEF RunTypes
<1>7. RunInv(r)'
  <2>1. RunPlace(r)'
    BY <1>1, <1>2, <1>4, <1>5, <1>6 DEF RunInv, RunPlace
  <2>2. ReadInv(r)'
    <3>1. finding[i] # NoFinding => Improves(finding[i], finding[i], run[r].snap[i])
      BY <1>3, ImprovesSelf
    <3> HIDE DEF i
    <3>2. QED
      BY <1>4, <1>5, <1>6, <3>1 DEF ReadInv, i
  <2>3. PendingInv(r)'
    BY <1>1, <1>4, <1>5, <1>6 DEF RunInv, PendingInv
  <2>4. DoneInv(r)'
    <3>1. Past(r)' = Past(r) /\ Wrote(r)' = Wrote(r)
      BY <1>1, <1>5, <1>6 DEF Past, Wrote
    <3>2. \A j \in run[r].clean \cap Past(r) :
            j \in Wrote(r) \/ (j \in assets /\ Ingest(finding[j], run[r].snap[j]))
      BY <1>1 DEF RunInv, DoneInv
    <3>3. QED
      BY <1>4, <1>5, <1>6, <3>1, <3>2 DEF DoneInv
  <2>5. QED
    BY <2>1, <2>2, <2>3, <2>4 DEF RunInv
<1>8. x.writes # {} => x.pc \in {"read", "write", "commit"}
  BY <1>5
<1>9. QED
  BY <1>1, <1>4, <1>5, <1>7, <1>8, OneRun

\* A run that succeeds goes off with what it promises.
LEMMA SettleKeeps ==
  ASSUME SyncInv, NEW r \in Runs, Settle(r)
  PROVE  SyncInv'
<1> DEFINE c == IF run[r].pc = "backfill" THEN run[r].clean ELSE {}
           x == [run[r] EXCEPT !.pc = "off", !.writes = {}, !.clean = c]
<1>1. /\ RunTypes /\ run[r].pc \in {"backfill", "failed"} /\ run[r] \in RunType /\ RunInv(r)
      /\ run' = [run EXCEPT ![r] = x]
  BY RunFields DEF Settle, Off, SyncInv
<1>2. run[r].clean \subseteq Issues /\ run[r].writes = {}
  BY <1>1, RunFields DEF RunTypes
<1>3. /\ row' \in Row
      /\ UNCHANGED <<issue, hooks, handling, claimed, finding, assets, issueChanges>>
      /\ assets' \subseteq Issues
  BY <1>1, RowFacts DEF Settle, RunTypes
<1>4. c \subseteq Issues
  BY <1>2
<1>5. c = {} \/ (c = run[r].clean /\ run[r].pc = "backfill")
  BY <1>1
<1> HIDE DEF c
<1>6. /\ x \in RunType /\ x.pc = "off" /\ x.snap = run[r].snap /\ x.writes = {} /\ x.clean = c
      /\ x.got = run[r].got
  BY <1>1, <1>4 DEF RunType, Pc
<1> HIDE DEF x
<1>7. run'[r] = x
  BY <1>1 DEF RunTypes
<1>8. RunInv(r)'
  <2>1. CASE c = {}
    BY <1>6, <1>7, <2>1, BlankHolds
  <2>2. CASE c = run[r].clean /\ run[r].pc = "backfill"
    <3>1. Past(r)' = Past(r) /\ Wrote(r)' = Wrote(r)
      BY <1>2, <1>6, <1>7, <2>2 DEF Past, Wrote
    <3>2. /\ \A j \in run[r].clean \cap Past(r) :
               j \in Wrote(r) \/ (j \in assets /\ Ingest(finding[j], run[r].snap[j]))
          /\ \A j \in run[r].clean \cap run[r].got : finding[j].digest
      BY <1>1, <2>2 DEF RunInv, DoneInv
    <3>3. DoneInv(r)'
      BY <1>3, <1>6, <1>7, <2>2, <3>1, <3>2 DEF DoneInv
    <3>4. RunPlace(r)' /\ ReadInv(r)' /\ PendingInv(r)'
      BY <1>1, <1>3, <1>6, <1>7, <2>2 DEF RunInv, RunPlace, ReadInv, PendingInv
    <3>5. QED
      BY <3>3, <3>4 DEF RunInv
  <2>3. QED
    BY <1>5, <2>1, <2>2
<1>9. QED
  BY <1>1, <1>3, <1>6, <1>8, OneRun

\* One more issue of the export is handled.
LEMMA BeforeNext ==
  ASSUME NEW p \in Nat \ {0}
  PROVE  Before(p + 1) = Before(p) \cup {Export[p]}
<1>1. 1..(p + 1 - 1) = 1..(p - 1) \cup {p}
  OBVIOUS
<1>2. \A y : y \in Before(p + 1) <=> \E n \in 1..(p - 1) \cup {p} : y = Export[n]
  BY <1>1 DEF Before
<1>3. \A y : y \in Before(p) <=> \E n \in 1..(p - 1) : y = Export[n]
  BY DEF Before
<1>4. QED
  BY <1>2, <1>3

\* The flush of an issue: it is past, with a row to be committed or no promise.
LEMMA WriteFindingKeeps ==
  ASSUME SyncInv, NEW r \in Runs, WriteFinding(r)
  PROVE  SyncInv'
<1> DEFINE p == run[r].pos
           i == Export[p]
           s == run[r].snap[i]
           w == [issue |-> i, seen |-> run[r].seen, new |-> Ingested(run[r].seen, s)]
           step == AfterIssue(p)
           next == [run[r] EXCEPT !.pc = step, !.pos = p + 1, !.seen = NoFinding]
<1>1. /\ RunTypes /\ WebTypes /\ run[r].pc = "write" /\ run[r] \in RunType /\ RunInv(r)
      /\ Exclusive /\ HandlingInv /\ (\A q \in Runs : RunInv(q)) /\ ~Locked(i)
  BY RunFields DEF WriteFinding, SyncInv
<1>2. /\ \/ /\ ~(run[r].seen = NoFinding /\ finding[i] # NoFinding)
            /\ run' = [run EXCEPT ![r] = [next EXCEPT !.writes = @ \cup {w}]]
         \/ run' = [run EXCEPT ![r] = [next EXCEPT !.clean = @ \ {i}]]
      /\ UNCHANGED <<issue, hooks, handling, claimed, finding, assets, row, issueChanges>>
  BY DEF WriteFinding
<1>3. p \in 1..Len(Export) /\ i \in Issues /\ Len(Export) \in Nat
  BY <1>1, ExportFacts DEF RunInv, RunPlace
<1>4. /\ s \in IssueStates /\ run[r].seen \in Finding \cup {NoFinding}
      /\ run[r].clean \subseteq Issues
      /\ run[r].writes \subseteq Write
      /\ finding[i] \in Finding \cup {NoFinding}
  BY <1>1, <1>3, RunFields DEF RunTypes
<1>5. /\ step \in {"read", "commit"} /\ step \in Pc
      /\ step = "read" => p + 1 \in 1..Len(Export)
      /\ p + 1 \in 1..(Len(Export) + 1) /\ p + 1 \in Nat
  BY <1>3 DEF AfterIssue, Pc
<1>6. w \in Write
  BY <1>3, <1>4, IngestedFacts DEF Write
<1> HIDE DEF step
<1>7. /\ next \in RunType /\ next.pc = step /\ next.pos = p + 1 /\ next.snap = run[r].snap
      /\ next.writes = run[r].writes /\ next.clean = run[r].clean /\ next.seen = NoFinding
  BY <1>1, <1>5 DEF RunType
<1> HIDE DEF next
<1>8. Before(p + 1) = Before(p) \cup {i} /\ Past(r) = Before(p)
  <2>1. p \in Nat \ {0}
    BY <1>3
  <2>2. Before(p + 1) = Before(p) \cup {i}
    BY <2>1, BeforeNext
  <2>3. QED
    BY <1>1, <2>2 DEF Past
<1>9. \A j \in run[r].clean \cap Past(r) :
        j \in Wrote(r) \/ (j \in assets /\ Ingest(finding[j], run[r].snap[j]))
  BY <1>1 DEF RunInv, DoneInv
\* What both cases share.
<1>10. ASSUME NEW x \in RunType, run' = [run EXCEPT ![r] = x], x.pc = step, x.pos = p + 1,
              x.snap = run[r].snap, x.seen = NoFinding, x.clean \subseteq run[r].clean,
              run[r].writes \subseteq x.writes,
              \A v \in x.writes \ run[r].writes :
                /\ v = w /\ ~(run[r].seen = NoFinding /\ finding[i] # NoFinding),
              i \in x.clean => w \in x.writes
       PROVE  /\ run'[r] = x /\ RunInv(r)'
              /\ \A q \in Runs : q # r => run'[q] = run[q] /\ RunInv(q)'
              /\ RunTypes' /\ WebTypes' /\ HandlingInv'
  <2>1. run'[r] = x /\ run' \in [Runs -> RunType] /\ \A q \in Runs : q # r => run'[q] = run[q]
    BY <1>1, <1>10 DEF RunTypes
  <2>2. RunPlace(r)'
    <3>1. /\ run'[r].pc = step /\ run'[r].pos = p + 1 /\ run'[r].snap = run[r].snap
          /\ run'[r].clean \subseteq run[r].clean
      BY <1>10, <2>1
    <3>2. \A j \in run[r].clean : run[r].snap[j] = issue'[j]
      BY <1>1, <1>2 DEF RunInv, RunPlace
    <3> HIDE DEF p, i, s, w
    <3>3. QED
      BY <1>5, <3>1, <3>2 DEF RunPlace
  <2>3. ReadInv(r)'
    BY <1>5, <1>10, <2>1 DEF ReadInv
  <2>4. PendingInv(r)'
    <3>1. ASSUME NEW v \in x.writes
          PROVE  /\ v.new = Ingested(v.seen, run[r].snap[v.issue])
                 /\ v.seen = NoFinding <=> finding[v.issue] = NoFinding
                 /\ v.seen # NoFinding /\ v.issue \in x.clean =>
                      Improves(v.seen, finding[v.issue], run[r].snap[v.issue])
      <4>1. CASE v \in run[r].writes
        BY <1>1, <1>10, <4>1 DEF RunInv, PendingInv
      <4>2. CASE v \notin run[r].writes
        <5>1. v = w /\ (run[r].seen = NoFinding => finding[i] = NoFinding)
          BY <1>10, <3>1, <4>2
        <5>2. v.issue = i /\ v.seen = run[r].seen /\ v.new = Ingested(run[r].seen, s)
          BY <5>1
        <5>3. run[r].seen # NoFinding =>
                /\ finding[i] # NoFinding
                /\ i \in run[r].clean => Improves(run[r].seen, finding[i], s)
          BY <1>1 DEF RunInv, ReadInv
        <5> HIDE DEF i, s, w
        <5>4. QED
          BY <1>10, <5>1, <5>2, <5>3 DEF s
      <4>3. QED
        BY <4>1, <4>2
    <3>2. QED
      BY <1>2, <1>10, <2>1, <3>1 DEF PendingInv
  <2>5. DoneInv(r)'
    <3>1. Past(r)' = Past(r) \cup {i} /\ Wrote(r)' = {v.issue : v \in x.writes}
      <4>1. run'[r].pc \in {"read", "commit"} /\ run'[r].pos = p + 1 /\ run'[r].writes = x.writes
        BY <1>5, <1>10, <2>1
      <4>2. Past(r)' = Before(p + 1)
        BY <4>1 DEF Past
      <4>3. Wrote(r)' = {v.issue : v \in x.writes}
        BY <4>1 DEF Wrote
      <4> HIDE DEF i, p
      <4>4. QED
        BY <1>8, <4>2, <4>3
    <3>2. i \in x.clean => i \in Wrote(r)'
      <4>1. w.issue = i
        OBVIOUS
      <4>2. QED
        BY <1>10, <3>1, <4>1
    <3>3. Wrote(r) \subseteq Wrote(r)'
      BY <1>10, <3>1 DEF Wrote
    <3>4. \A j \in x.clean \cap (Past(r) \cup {i}) :
            j \in Wrote(r)' \/ (j \in assets /\ Ingest(finding[j], run[r].snap[j]))
      BY <1>9, <1>10, <3>2, <3>3
    <3>5. QED
      BY <1>2, <1>5, <1>10, <2>1, <3>1, <3>4 DEF DoneInv
  <2>6. Grow
    BY <1>2 DEF Grow
  <2>7. \A q \in Runs : q # r => RunInv(q)'
    BY <1>1, <1>2, <2>1, <2>6, RunUnchanged, AlongsideKeeps
  <2>8. RunTypes'
    BY <1>1, <1>2, <1>5, <1>10, <2>1 DEF RunTypes
  <2>9. WebTypes'
    BY <1>1, <1>2 DEF WebTypes
  <2>10. HandlingInv'
    BY <1>1, <1>2, <2>6, HandlingKept
  <2>11. QED
    BY <2>1, <2>2, <2>3, <2>4, <2>5, <2>7, <2>8, <2>9, <2>10 DEF RunInv
<1>11. CASE /\ ~(run[r].seen = NoFinding /\ finding[i] # NoFinding)
            /\ run' = [run EXCEPT ![r] = [next EXCEPT !.writes = @ \cup {w}]]
  <2> DEFINE x == [next EXCEPT !.writes = @ \cup {w}]
  <2>1. w \in Write /\ next.writes \subseteq Write
    BY <1>4, <1>6, <1>7
  <2> HIDE DEF w
  <2>2. /\ x \in RunType /\ x.pc = step /\ x.pos = p + 1 /\ x.snap = run[r].snap
        /\ x.writes = run[r].writes \cup {w} /\ x.clean = run[r].clean /\ x.seen = NoFinding
    BY <1>7, <2>1 DEF RunType
  <2>3. run' = [run EXCEPT ![r] = x]
    BY <1>11
  <2> HIDE DEF x
  <2>4. /\ run'[r] = x /\ RunInv(r)'
        /\ \A q \in Runs : q # r => run'[q] = run[q] /\ RunInv(q)'
        /\ RunTypes' /\ WebTypes' /\ HandlingInv'
    BY <1>10, <1>11, <2>2, <2>3
  <2>5. \A q \in Runs : \A v \in run[q].writes : v.issue # w.issue
    BY <1>1 DEF Locked, w
  <2>6. Exclusive'
    <3> SUFFICES ASSUME NEW a \in Runs, NEW b \in Runs, NEW v \in run'[a].writes, NEW u \in run'[b].writes,
                        v.issue = u.issue
        PROVE  a = b /\ v = u
      BY DEF Exclusive
    <3>1. v \in run[a].writes \/ (a = r /\ v = w)
      BY <2>2, <2>4
    <3>2. u \in run[b].writes \/ (b = r /\ u = w)
      BY <2>2, <2>4
    <3>3. QED
      BY <1>1, <2>5, <3>1, <3>2 DEF Exclusive
  <2>7. QED
    BY <2>4, <2>6 DEF SyncInv
<1>12. CASE run' = [run EXCEPT ![r] = [next EXCEPT !.clean = @ \ {i}]]
  <2> DEFINE x == [next EXCEPT !.clean = @ \ {i}]
  <2>1. next.clean \ {i} \subseteq Issues
    BY <1>4, <1>7
  <2> HIDE DEF w, i
  <2>2. /\ x \in RunType /\ x.pc = step /\ x.pos = p + 1 /\ x.snap = run[r].snap
        /\ x.writes = run[r].writes /\ x.clean = run[r].clean \ {i} /\ x.seen = NoFinding
    BY <1>7, <2>1 DEF RunType
  <2>3. run' = [run EXCEPT ![r] = x]
    BY <1>12
  <2> HIDE DEF x
  <2>4. /\ run'[r] = x /\ RunInv(r)'
        /\ \A q \in Runs : q # r => run'[q] = run[q] /\ RunInv(q)'
        /\ RunTypes' /\ WebTypes' /\ HandlingInv'
    BY <1>10, <2>2, <2>3
  <2>5. Exclusive'
    BY <1>1, <2>2, <2>4, ExclusiveKept
  <2>6. QED
    BY <2>4, <2>5 DEF SyncInv
<1>13. QED
  BY <1>2, <1>11, <1>12

\* A step in which no run moves keeps the invariant.
LEMMA AllAlongside ==
  ASSUME SyncInv, \A r \in Runs : Alongside(r), Grow,
         WebTypes', RunTypes', HandlingInv'
  PROVE  SyncInv'
<1>1. \A r \in Runs : RunInv(r)'
  BY AlongsideKeeps DEF SyncInv
<1>2. Exclusive'
  BY ExclusiveKept DEF SyncInv, Alongside
<1>3. QED
  BY <1>1, <1>2 DEF SyncInv

\* A batch writes what it has flushed, and nothing else.
LEMMA BatchFacts ==
  ASSUME SyncInv, NEW r \in Runs, CommitBatch(r), NEW i \in Issues
  PROVE  /\ i \notin Wrote(r) => finding'[i] = finding[i]
         /\ i \in Wrote(r) =>
              /\ finding'[i] \in Finding
              /\ finding[i] # NoFinding => Improves(finding[i], finding'[i], run[r].snap[i])
              /\ i \in run[r].clean => Ingest(finding'[i], run[r].snap[i])
<1>1. finding'[i] =
        IF i \in Wrote(r)
        THEN Stored(finding[i], WriteOf(r, i).seen, WriteOf(r, i).new)
        ELSE finding[i]
  BY DEF CommitBatch
<1>2. ASSUME i \in Wrote(r)
      PROVE  /\ finding'[i] \in Finding
             /\ finding[i] # NoFinding => Improves(finding[i], finding'[i], run[r].snap[i])
             /\ i \in run[r].clean => Ingest(finding'[i], run[r].snap[i])
  <2> DEFINE w == WriteOf(r, i)
             s == run[r].snap[i]
  <2>1. w \in run[r].writes /\ w.issue = i
    BY <1>2 DEF Wrote, WriteOf
  <2> HIDE DEF w
  <2>2. RunTypes /\ PendingInv(r)
    BY DEF SyncInv, RunInv
  <2>3. /\ w.new = Ingested(w.seen, s)
        /\ w.seen = NoFinding <=> finding[i] = NoFinding
        /\ w.seen # NoFinding /\ i \in run[r].clean => Improves(w.seen, finding[i], s)
    BY <2>1, <2>2 DEF PendingInv
  <2>4. w.seen \in Finding \cup {NoFinding} /\ s \in IssueStates /\ w.new \in Finding
        /\ finding[i] \in Finding \cup {NoFinding}
    BY <2>1, <2>2, RunFields DEF RunTypes
  <2>5. finding'[i] = Stored(finding[i], w.seen, w.new)
    BY <1>1, <1>2 DEF w
  <2> HIDE DEF s
  <2>6. finding[i] # NoFinding => Improves(finding[i], finding'[i], s)
    BY <2>3, <2>4, <2>5, StoredImproves
  <2>7. finding[i] = NoFinding => finding'[i] = w.new
    BY <2>3, <2>4, <2>5, FindingFields DEF Stored
  <2>8. finding'[i] \in Finding
    BY <2>4, <2>6, <2>7 DEF Improves
  <2>9. i \in run[r].clean => Ingest(finding'[i], s)
    <3>1. finding'[i] # NoFinding
      BY <2>8, FindingFields
    <3>2. QED
      BY <2>3, <2>4, <2>5, <3>1, StoredIngested DEF Ingest
  <2>10. QED
    BY <2>6, <2>8, <2>9 DEF s
<1>3. QED
  BY <1>1, <1>2

\* A batch commits the rows its run has locked, which then say what the snapshot asks for.
LEMMA CommitBatchKeeps ==
  ASSUME SyncInv, NEW r \in Runs, CommitBatch(r)
  PROVE  SyncInv'
<1> DEFINE step == IF run[r].pos > Len(Export) THEN "dashboard" ELSE "read"
           x == [run[r] EXCEPT !.writes = {}, !.pc = step]
           p == run[r].pos
<1>1. /\ RunTypes /\ WebTypes /\ run[r].pc = "commit" /\ run[r] \in RunType /\ RunInv(r)
      /\ Exclusive /\ HandlingInv
  BY RunFields DEF CommitBatch, SyncInv
<1>2. /\ UNCHANGED <<issue, hooks, handling, claimed, issueChanges>> /\ row' \in Row
      /\ assets' = assets \cup Wrote(r)
      /\ finding' = [i \in Issues |-> finding'[i]]
  BY RowFacts DEF CommitBatch
<1>3. Wrote(r) \subseteq Issues /\ p \in 1..(Len(Export) + 1) /\ Len(Export) \in Nat
  BY <1>1, RunFields, ExportFacts DEF Wrote, RunInv, RunPlace
<1>4. /\ p \in 1..(Len(Export) + 1) /\ Len(Export) \in Nat
      /\ step \in Pc /\ step \in {"dashboard", "read"}
      /\ step = "read" => p \in 1..Len(Export)
      /\ step = "dashboard" => p = Len(Export) + 1
  BY <1>3 DEF Pc
<1> HIDE DEF step
<1>5. /\ x \in RunType /\ x.pc = step /\ x.snap = run[r].snap /\ x.pos = run[r].pos
      /\ x.seen = run[r].seen /\ x.writes = {} /\ x.clean = run[r].clean
  BY <1>1, <1>4 DEF RunType
<1>6. run'[r] = x
  BY DEF CommitBatch, Committed, step
<1> HIDE DEF x
<1>7. ASSUME NEW q \in Runs, q # r
      PROVE  run'[q] \in RunType /\ Alongside(q)
  <2> DEFINE C == {i \in Wrote(r) : run[r].snap[i] # run[q].snap[i]}
  <2>1. run'[q] = [run[q] EXCEPT !.clean = @ \ C]
    BY <1>7 DEF CommitBatch
  <2>2. run[q] \in RunType /\ run[q].clean \subseteq Issues
    BY <1>1, RunFields
  <2>3. \A i : i \in C <=> i \in Wrote(r) /\ run[r].snap[i] # run[q].snap[i]
    OBVIOUS
  <2> HIDE DEF C
  <2>4. /\ run'[q] \in RunType /\ run'[q].pc = run[q].pc /\ run'[q].snap = run[q].snap
        /\ run'[q].pos = run[q].pos /\ run'[q].seen = run[q].seen
        /\ run'[q].writes = run[q].writes /\ run'[q].clean = run[q].clean \ C
        /\ run'[q].got = run[q].got
    BY <2>1, <2>2 DEF RunType
  <2>5. ASSUME NEW i \in run'[q].clean, finding[i] # NoFinding
        PROVE  Improves(finding[i], finding'[i], run[q].snap[i])
    <3>1. i \in Issues /\ (i \in Wrote(r) => run[r].snap[i] = run[q].snap[i])
      BY <2>2, <2>3, <2>4, <2>5
    <3>2. finding[i] \in Finding
      BY <1>1, <2>5, <3>1 DEF RunTypes
    <3>3. QED
      BY <2>5, <3>1, <3>2, BatchFacts, ImprovesSelf
  <2>6. ASSUME NEW w \in run[q].writes PROVE finding'[w.issue] = finding[w.issue]
    <3>1. w.issue \notin Wrote(r)
      BY <1>1, <1>7 DEF Exclusive, Wrote
    <3>2. w.issue \in Issues
      BY <1>1, RunFields
    <3>3. QED
      BY <3>1, <3>2, BatchFacts
  <2>7. QED
    BY <1>2, <2>4, <2>5, <2>6 DEF Alongside
<1>8. RunTypes'
  <2>1. \A q \in Runs : run'[q] \in RunType
    BY <1>5, <1>6, <1>7
  <2>2. run' = [q \in Runs |-> run'[q]]
    BY DEF CommitBatch
  <2>3. \A i \in Issues : finding'[i] \in Finding \cup {NoFinding}
    BY <1>1, BatchFacts DEF RunTypes
  <2>4. finding' \in [Issues -> Finding \cup {NoFinding}]
    <3> HIDE DEF RunTypes
    <3>1. QED
      BY <1>2, <2>3
  <2>5. \A q \in Runs : run'[q].writes # {} => run'[q].pc \in {"read", "write", "commit"}
    BY <1>1, <1>5, <1>6, <1>7 DEF RunTypes, Alongside
  <2>6. run' \in [Runs -> RunType]
    BY <2>1, <2>2
  <2>7. assets' \subseteq Issues
    BY <1>1, <1>2, <1>3 DEF RunTypes
  <2>8. QED
    BY <1>2, <2>4, <2>5, <2>6, <2>7 DEF RunTypes
<1>9. Grow
  <2>1. \A i \in Issues : finding[i] # NoFinding => finding'[i] # NoFinding
    BY BatchFacts, FindingFields
  <2>2. QED
    BY <1>2, <2>1 DEF Grow
<1>10. RunInv(r)'
  <2>1. RunPlace(r)'
    BY <1>1, <1>2, <1>4, <1>5, <1>6 DEF RunInv, RunPlace
  <2>2. ReadInv(r)' /\ PendingInv(r)'
    BY <1>4, <1>5, <1>6 DEF ReadInv, PendingInv
  <2>3. Past(r)' \subseteq Past(r) \/ (step = "dashboard" /\ Past(r)' = Issues)
    BY <1>1, <1>4, <1>5, <1>6 DEF Past
  <2>4. step = "dashboard" => Issues \subseteq Past(r)
    <3>1. SUFFICES ASSUME step = "dashboard", NEW i \in Issues PROVE i \in Past(r)
      OBVIOUS
    <3>2. PICK n \in 1..Len(Export) : Export[n] = i
      BY ExportFacts
    <3>3. n \in 1..(run[r].pos - 1)
      BY <1>4, <3>1
    <3>4. QED
      BY <1>1, <3>2, <3>3 DEF Past, Before
  <2>5. \A i \in run[r].clean \cap Past(r) : i \in assets' /\ Ingest(finding'[i], run[r].snap[i])
    <3>1. SUFFICES ASSUME NEW i \in run[r].clean, i \in Past(r)
                   PROVE  i \in assets' /\ Ingest(finding'[i], run[r].snap[i])
      OBVIOUS
    <3>2. /\ i \in Issues
          /\ i \in Wrote(r) \/ (i \in assets /\ Ingest(finding[i], run[r].snap[i]))
      BY <1>1, <3>1, RunFields DEF RunInv, DoneInv
    <3>3. CASE i \in Wrote(r)
      BY <1>2, <3>1, <3>2, <3>3, BatchFacts
    <3>4. CASE i \notin Wrote(r)
      BY <1>2, <3>2, <3>4, BatchFacts
    <3>5. QED
      BY <3>3, <3>4
  <2>6. DoneInv(r)'
    BY <1>4, <1>5, <1>6, <2>3, <2>4, <2>5 DEF DoneInv
  <2>7. QED
    BY <2>1, <2>2, <2>6 DEF RunInv
<1>11. \A q \in Runs : RunInv(q)'
  BY <1>1, <1>7, <1>9, <1>10, AlongsideKeeps DEF SyncInv
<1>12. Exclusive'
  <2>1. \A q \in Runs : run'[q].writes \subseteq run[q].writes
    BY <1>5, <1>6, <1>7 DEF Alongside
  <2>2. QED
    BY <1>1, <2>1, ExclusiveKept
<1>13. WebTypes'
  BY <1>1, <1>2 DEF WebTypes
<1>14. HandlingInv'
  BY <1>1, <1>2, <1>9, HandlingKept
<1>15. QED
  BY <1>8, <1>11, <1>12, <1>13, <1>14 DEF SyncInv

\* The dashboard gives digests, and nothing else.
LEMMA DigestFacts ==
  ASSUME RunTypes, NEW D \in SUBSET Issues,
         finding' = Digests(D)
  PROVE  /\ finding' \in [Issues -> Finding \cup {NoFinding}]
         /\ \A i \in Issues :
              /\ i \notin D => finding'[i] = finding[i]
              /\ i \in D /\ finding[i] # NoFinding => finding'[i].digest
              /\ finding[i] # NoFinding =>
                   /\ finding'[i] # NoFinding
                   /\ \A s \in IssueStates : Improves(finding[i], finding'[i], s)
<1>1. ASSUME NEW i \in Issues
      PROVE  /\ finding'[i] \in Finding \cup {NoFinding}
             /\ i \notin D => finding'[i] = finding[i]
             /\ i \in D /\ finding[i] # NoFinding => finding'[i].digest
             /\ finding[i] # NoFinding =>
                  /\ finding'[i] # NoFinding
                  /\ \A s \in IssueStates : Improves(finding[i], finding'[i], s)
  <2>1. finding'[i] = IF i \in D /\ finding[i] # NoFinding
                      THEN [finding[i] EXCEPT !.digest = TRUE] ELSE finding[i]
    BY DEF Digests
  <2>2. finding[i] \in Finding \cup {NoFinding}
    BY DEF RunTypes
  <2>3. CASE i \in D /\ finding[i] # NoFinding
    <3> DEFINE g == [finding[i] EXCEPT !.digest = TRUE]
    <3>1. finding'[i] = g /\ finding[i] \in Finding
      BY <2>1, <2>2, <2>3
    <3>2. /\ g \in Finding /\ g.digest = TRUE
          /\ g.status = finding[i].status /\ g.closedAt = finding[i].closedAt
      BY <3>1 DEF Finding
    <3> HIDE DEF g
    <3>3. g # NoFinding
      BY <3>2, FindingFields
    <3>4. QED
      BY <2>3, <3>1, <3>2, <3>3 DEF Improves
  <2>4. CASE ~(i \in D /\ finding[i] # NoFinding)
    BY <2>1, <2>2, <2>4, ImprovesSelf
  <2>5. QED
    BY <2>3, <2>4
<1>2. finding' = [i \in Issues |-> finding'[i]]
  BY DEF Digests
<1>3. finding' \in [Issues -> Finding \cup {NoFinding}]
  <2> HIDE DEF RunTypes
  <2>1. QED
    BY <1>1, <1>2
<1>4. QED
  BY <1>1, <1>3

\* The dashboard stage adds digests, which is an improvement.
LEMMA SyncDashboardKeeps ==
  ASSUME SyncInv, NEW r \in Runs, SyncDashboard(r)
  PROVE  SyncInv'
<1>1. /\ RunTypes /\ WebTypes /\ run[r].pc = "dashboard" /\ run[r] \in RunType /\ RunInv(r)
      /\ Exclusive /\ HandlingInv /\ run[r].got \subseteq Issues
      /\ \A i \in run[r].got : ~Locked(i)
  BY RunFields, AikidoAssumption DEF SyncDashboard, SyncInv
<1>2. /\ UNCHANGED <<issue, hooks, handling, claimed, assets, issueChanges>> /\ row' \in Row
      /\ run[r].writes = {} /\ run[r].clean \subseteq Issues
  BY <1>1, RowFacts, RunFields DEF SyncDashboard, RunTypes
\* Digests, or none at all when the stage fails.
<1>3. PICK D \in SUBSET Issues, C \in SUBSET Issues, step \in {"backfill", "failed"} :
        /\ run' = [run EXCEPT ![r] = [run[r] EXCEPT !.pc = step, !.clean = @ \ C]]
        /\ finding' = Digests(D) /\ D \subseteq run[r].got
        /\ step = "backfill" => run[r].got \subseteq D \cup C
  <2>1. CASE \E done \in SUBSET run[r].got :
               /\ finding' = Digests(done)
               /\ run' = [run EXCEPT ![r].pc = "backfill", ![r].clean = @ \ (run[r].got \ done)]
    <3>1. PICK done \in SUBSET run[r].got :
            /\ finding' = Digests(done)
            /\ run' = [run EXCEPT ![r].pc = "backfill", ![r].clean = @ \ (run[r].got \ done)]
      BY <2>1
    <3> DEFINE missed == run[r].got \ done
    <3>2. run' = [run EXCEPT ![r] = [run[r] EXCEPT !.pc = "backfill", !.clean = @ \ missed]]
      BY <1>1, <3>1 DEF RunTypes
    <3>3. run[r].got \subseteq done \cup missed
      OBVIOUS
    <3> done \in SUBSET Issues /\ missed \in SUBSET Issues
      BY <1>1
    <3> HIDE DEF missed
    <3>4. WITNESS done \in SUBSET Issues, missed \in SUBSET Issues,
                  "backfill" \in {"backfill", "failed"}
    <3>5. QED
      BY <3>1, <3>2, <3>3
  <2>3. CASE finding' = finding /\ run' = [run EXCEPT ![r].pc = "failed"]
    <3>1. run' = [run EXCEPT ![r] = [run[r] EXCEPT !.pc = "failed", !.clean = @ \ {}]]
      <4>1. run[r].clean \ {} = run[r].clean
        OBVIOUS
      <4>2. [run[r] EXCEPT !.pc = "failed"] = [run[r] EXCEPT !.pc = "failed", !.clean = @ \ {}]
        BY <1>1, <4>1 DEF RunType
      <4>3. QED
        BY <2>3, <4>2
    <3>2. finding' = Digests({})
      <4>1. finding = [i \in Issues |-> finding[i]]
        BY <1>1 DEF RunTypes
      <4>2. QED
        BY <2>3, <4>1 DEF Digests
    <3>3. WITNESS {} \in SUBSET Issues, {} \in SUBSET Issues, "failed" \in {"backfill", "failed"}
    <3>4. QED
      BY <3>1, <3>2
  <2>4. QED
    BY <2>1, <2>3 DEF SyncDashboard
<1> DEFINE x == [run[r] EXCEPT !.pc = step, !.clean = @ \ C]
<1>4. /\ x \in RunType /\ x.pc = step /\ x.snap = run[r].snap /\ x.pos = run[r].pos
      /\ x.seen = run[r].seen /\ x.writes = {} /\ x.clean = run[r].clean \ C
      /\ x.got = run[r].got
  BY <1>1, <1>2 DEF RunType, Pc
<1>5. run' = [run EXCEPT ![r] = x]
  BY <1>3
<1> HIDE DEF x
<1>6. /\ run'[r] = x /\ run' \in [Runs -> RunType]
      /\ \A q \in Runs : q # r => run'[q] = run[q]
  BY <1>1, <1>4, <1>5 DEF RunTypes
<1>7. /\ finding' \in [Issues -> Finding \cup {NoFinding}]
      /\ \A i \in Issues :
           /\ i \notin D => finding'[i] = finding[i]
           /\ i \in D /\ finding[i] # NoFinding => finding'[i].digest
           /\ finding[i] # NoFinding =>
                /\ finding'[i] # NoFinding
                /\ \A s \in IssueStates : Improves(finding[i], finding'[i], s)
  BY <1>1, <1>3, DigestFacts
<1>8. Grow
  BY <1>2, <1>7 DEF Grow
<1>9. ASSUME NEW q \in Runs, q # r PROVE RunInv(q)'
  <2>1. \A i \in run[q].clean :
          finding[i] # NoFinding => Improves(finding[i], finding'[i], run[q].snap[i])
    <3>1. run[q].clean \subseteq Issues /\ \A i \in Issues : run[q].snap[i] \in IssueStates
      BY <1>1, RunFields
    <3>2. QED
      BY <1>7, <3>1
  <2>2. \A w \in run[q].writes : finding'[w.issue] = finding[w.issue]
    <3>1. \A w \in run[q].writes : w.issue \in Issues /\ w.issue \notin D
      BY <1>1, <1>3, RunFields DEF Locked
    <3>2. QED
      BY <1>7, <3>1
  <2>3. run'[q] = run[q]
    BY <1>6, <1>9
  <2>4. Alongside(q)
    BY <1>2, <2>1, <2>2, <2>3 DEF Alongside
  <2>5. QED
    BY <1>1, <1>8, <2>4, AlongsideKeeps DEF SyncInv
<1>10. RunInv(r)'
  <2>1. RunPlace(r)' /\ ReadInv(r)' /\ PendingInv(r)'
    BY <1>1, <1>2, <1>4, <1>6 DEF RunInv, RunPlace, ReadInv, PendingInv
  <2>2. ASSUME NEW i \in run[r].clean
        PROVE  /\ i \in assets /\ Ingest(finding'[i], run[r].snap[i])
               /\ i \in D => finding'[i].digest
    <3>1. i \in Issues /\ run[r].snap[i] \in IssueStates
      BY <1>1, RunFields
    <3>2. i \in assets /\ Ingest(finding[i], run[r].snap[i])
      BY <1>1, <1>2, <3>1 DEF RunInv, DoneInv, Past, Wrote
    <3>3. QED
      BY <1>7, <3>1, <3>2, IngestStays DEF Ingest
  <2>3. DoneInv(r)'
    <3>1. x.pc = "backfill" => \A i \in x.clean \cap x.got : i \in D
      BY <1>3, <1>4
    <3>2. QED
      BY <1>2, <1>4, <1>6, <2>2, <3>1 DEF DoneInv
  <2>4. QED
    BY <2>1, <2>3 DEF RunInv
<1>11. \A q \in Runs : RunInv(q)'
  BY <1>9, <1>10
<1>12. RunTypes'
  BY <1>1, <1>2, <1>4, <1>6, <1>7 DEF RunTypes
<1>13. WebTypes'
  BY <1>1, <1>2 DEF WebTypes
<1>14. HandlingInv'
  BY <1>1, <1>2, <1>8, HandlingKept
<1>15. Exclusive'
  BY <1>1, <1>2, <1>4, <1>6, ExclusiveKept
<1>16. QED
  BY <1>11, <1>12, <1>13, <1>14, <1>15 DEF SyncInv

(***************************************************************************)
(* Aikido and its webhooks.                                                *)
(***************************************************************************)

\* A webhook's commit writes no row that a run has locked, and spoils the promises
\* it does not fit.
LEMMA HandleKeeps ==
  ASSUME SyncInv, NEW g \in handling, Handle(g)
  PROVE  SyncInv'
<1> DEFINE i == g.hook.issue
           s == g.hook.as
           new == IF s = "closed" THEN Closed(g.seen) ELSE Ingested(g.seen, s)
<1>1. /\ RunTypes /\ WebTypes /\ HandlingInv /\ ~Locked(i)
      /\ UNCHANGED <<issue, hooks, assets, row, issueChanges>> /\ handling' = handling \ {g}
  BY DEF Handle, SyncInv
<1>2. /\ i \in Issues /\ s \in IssueStates /\ g.hook \in Hook
      /\ g.seen \in Finding \cup {NoFinding}
  BY <1>1 DEF WebTypes, Hook
<1>3. finding[i] \in Finding \cup {NoFinding}
  BY <1>1, <1>2 DEF RunTypes
<1>4. CASE UNCHANGED <<claimed, finding, run>>
  <2>1. \A r \in Runs : Alongside(r)
    BY <1>1, <1>4, RunUnchanged
  <2>2. Grow
    BY <1>1, <1>4 DEF Grow
  <2>3. WebTypes' /\ RunTypes'
    BY <1>1, <1>4 DEF WebTypes, RunTypes
  <2>4. HandlingInv'
    BY <1>1, <2>2, HandlingKept
  <2>5. QED
    BY <2>1, <2>2, <2>3, <2>4, AllAlongside
<1>5. CASE /\ ~(g.seen = NoFinding /\ new # NoFinding /\ finding[i] # NoFinding)
           /\ claimed' = claimed \cup {g.hook}
           /\ finding' = [finding EXCEPT ![i] = Stored(@, g.seen, new)]
           /\ run' = Disturb(i, s)
  <2>1. /\ finding'[i] = Stored(finding[i], g.seen, new)
        /\ \A j \in Issues : j # i => finding'[j] = finding[j]
        /\ finding' = [j \in Issues |-> finding'[j]]
    BY <1>1, <1>2, <1>5 DEF RunTypes
  <2>2. /\ finding'[i] \in Finding \cup {NoFinding}
        /\ finding[i] # NoFinding => Improves(finding[i], finding'[i], s)
    <3>1. CASE new = NoFinding
      BY <1>3, <2>1, <3>1, ImprovesSelf DEF Stored
    <3>2. CASE new # NoFinding /\ g.seen = NoFinding
      <4>1. finding[i] = NoFinding /\ finding'[i] = new
        BY <1>5, <2>1, <3>2 DEF Stored
      <4>2. s # "closed" /\ new = Ingested(g.seen, s)
        BY <3>2 DEF Closed
      <4>3. QED
        BY <1>2, <4>1, <4>2, IngestedFacts
    <3>3. CASE g.seen # NoFinding
      <4>1. finding[i] \in Finding /\ g.seen \in Finding
        BY <1>1, <1>2, <1>3, <3>3 DEF HandlingInv
      <4>2. new = Ingested(g.seen, s) \/ (s = "closed" /\ new = Closed(g.seen))
        OBVIOUS
      <4> HIDE DEF new, i, s
      <4>3. QED
        <5>1. Improves(finding[i], Stored(finding[i], g.seen, new), s)
          BY <1>2, <4>1, <4>2, StoredImproves
        <5>2. QED
          BY <2>1, <5>1 DEF Improves
    <3>4. QED
      BY <3>1, <3>2, <3>3
  <2>3. ASSUME NEW r \in Runs
        PROVE  run'[r] \in RunType /\ Alongside(r)
    <3>1. run[r] \in RunType /\ run[r].clean \subseteq Issues
      BY <1>1, RunFields
    <3>2. run'[r] = IF run[r].snap[i] = s THEN run[r] ELSE [run[r] EXCEPT !.clean = @ \ {i}]
      BY <1>5 DEF Disturb
    <3> HIDE DEF i, s, new
    <3>3. /\ run'[r] \in RunType /\ run'[r].pc = run[r].pc /\ run'[r].snap = run[r].snap
          /\ run'[r].pos = run[r].pos /\ run'[r].seen = run[r].seen
          /\ run'[r].writes = run[r].writes /\ run'[r].clean \subseteq run[r].clean
          /\ run'[r].got = run[r].got
          /\ i \in run'[r].clean => run[r].snap[i] = s
      <4>1. CASE run[r].snap[i] = s
        BY <3>1, <3>2, <4>1
      <4>2. CASE run[r].snap[i] # s
        <5>1. run[r].clean \ {i} \subseteq run[r].clean /\ i \notin run[r].clean \ {i}
          OBVIOUS
        <5> DEFINE x == [run[r] EXCEPT !.clean = @ \ {i}]
        <5>2. /\ x \in RunType /\ x.pc = run[r].pc /\ x.snap = run[r].snap
              /\ x.pos = run[r].pos /\ x.seen = run[r].seen
              /\ x.writes = run[r].writes /\ x.clean = run[r].clean \ {i}
              /\ x.got = run[r].got
          BY <3>1 DEF RunType
        <5>3. run'[r] = x
          BY <3>2, <4>2
        <5> HIDE DEF x
        <5>4. QED
          BY <5>1, <5>2, <5>3
      <4>3. QED
        BY <4>1, <4>2
    <3>4. ASSUME NEW j \in run'[r].clean, finding[j] # NoFinding
          PROVE  Improves(finding[j], finding'[j], run[r].snap[j])
      <4>1. j \in Issues /\ finding[j] \in Finding
        BY <1>1, <3>1, <3>3, <3>4 DEF RunTypes
      <4>2. QED
        BY <2>1, <2>2, <3>3, <3>4, <4>1, ImprovesSelf
    <3>5. \A w \in run[r].writes : finding'[w.issue] = finding[w.issue]
      BY <1>1, <2>1, RunFields DEF Locked
    <3>6. QED
      BY <1>1, <3>3, <3>4, <3>5 DEF Alongside
  <2>4. \A j \in Issues : /\ finding'[j] \in Finding \cup {NoFinding}
                          /\ finding[j] # NoFinding => finding'[j] # NoFinding
    BY <1>1, <2>1, <2>2, FindingFields DEF RunTypes, Improves
  <2>5. Grow
    BY <1>1, <2>4 DEF Grow
  <2>6. RunTypes'
    <3>1. finding' \in [Issues -> Finding \cup {NoFinding}]
      <4> HIDE DEF RunTypes, i, s, new
      <4>1. QED
        BY <2>1, <2>4
    <3>2. run' = [r \in Runs |-> run'[r]]
      BY <1>5 DEF Disturb
    <3>3. run' \in [Runs -> RunType]
      <4> HIDE DEF RunTypes, i, s, new
      <4>1. QED
        BY <2>3, <3>2
    <3>4. \A r \in Runs : run'[r].writes # {} => run'[r].pc \in {"read", "write", "commit"}
      BY <1>1, <2>3 DEF RunTypes, Alongside
    <3>5. QED
      BY <1>1, <3>1, <3>3, <3>4 DEF RunTypes
  <2>7. WebTypes'
    BY <1>1, <1>2, <1>5 DEF WebTypes
  <2>8. HandlingInv'
    BY <1>1, <2>5, HandlingKept
  <2>9. QED
    BY <2>3, <2>5, <2>6, <2>7, <2>8, AllAlongside
<1>6. QED
  BY <1>4, <1>5 DEF Handle

\* A change of an issue at Aikido spoils what a run may promise of it.
LEMMA IssueChangeKeeps ==
  ASSUME SyncInv, NEW i \in Issues, NEW s \in Changing, Change(i, s)
  PROVE  SyncInv'
<1>1. /\ RunTypes /\ WebTypes /\ HandlingInv /\ s \in IssueStates /\ MaxIssueChanges \in Nat
      /\ issueChanges < MaxIssueChanges /\ issueChanges \in 0..MaxIssueChanges
  BY AikidoAssumption DEF Change, SyncInv, WebTypes
<1>2. /\ UNCHANGED <<handling, claimed, finding, assets, row>> /\ issueChanges' = issueChanges + 1
      /\ issue' = [issue EXCEPT ![i] = s]
      /\ hooks' = hooks \cup {[issue |-> i, as |-> s, ts |-> issueChanges']}
      /\ run' = [r \in Runs |-> [run[r] EXCEPT !.clean = @ \ {i}]]
  BY DEF Change
<1>3. ASSUME NEW r \in Runs
      PROVE  run'[r] \in RunType /\ Alongside(r)
  <2> DEFINE x == [run[r] EXCEPT !.clean = @ \ {i}]
  <2>1. run[r] \in RunType /\ run[r].clean \subseteq Issues
    BY <1>1, RunFields
  <2>2. /\ x \in RunType /\ x.pc = run[r].pc /\ x.snap = run[r].snap
        /\ x.pos = run[r].pos /\ x.seen = run[r].seen
        /\ x.writes = run[r].writes /\ x.clean = run[r].clean \ {i}
        /\ x.got = run[r].got
    BY <2>1 DEF RunType
  <2>3. run'[r] = x
    BY <1>2
  <2> HIDE DEF x
  <2>4. \A j \in run[r].clean \ {i} : issue'[j] = issue[j]
    BY <1>1, <1>2, <2>1 DEF WebTypes
  <2>5. \A j \in run[r].clean :
          finding[j] # NoFinding => Improves(finding[j], finding[j], run[r].snap[j])
    BY <1>1, <2>1, ImprovesSelf DEF RunTypes
  <2>6. QED
    BY <1>2, <2>2, <2>3, <2>4, <2>5 DEF Alongside
<1>4. Grow
  BY <1>2 DEF Grow
<1>5. WebTypes'
  <2>1. issueChanges' \in 0..MaxIssueChanges /\ issueChanges' \in 1..MaxIssueChanges
    BY <1>1, <1>2
  <2>2. [issue |-> i, as |-> s, ts |-> issueChanges'] \in Hook
    BY <1>1, <2>1 DEF Hook
  <2>3. issue' \in [Issues -> IssueStates]
    BY <1>1, <1>2 DEF WebTypes
  <2>4. QED
    BY <1>1, <1>2, <2>1, <2>2, <2>3 DEF WebTypes
<1>6. RunTypes'
  <2>1. run' \in [Runs -> RunType]
    BY <1>2, <1>3
  <2>2. \A r \in Runs : run'[r].writes # {} => run'[r].pc \in {"read", "write", "commit"}
    BY <1>1, <1>3 DEF RunTypes, Alongside
  <2>3. QED
    BY <1>1, <1>2, <2>1, <2>2 DEF RunTypes
<1>7. HandlingInv'
  BY <1>1, <1>2, <1>4, HandlingKept
<1>8. QED
  BY <1>3, <1>4, <1>5, <1>6, <1>7, AllAlongside

\* Deliveries that are lost or received, and the status row, which ages.
LEMMA BesideRuns ==
  ASSUME SyncInv, UNCHANGED <<issue, finding, assets, run>>,
         WebTypes', HandlingInv', row' \in Row
  PROVE  SyncInv'
<1>1. \A r \in Runs : Alongside(r)
  BY RunUnchanged DEF SyncInv
<1>2. Grow /\ RunTypes'
  BY DEF Grow, SyncInv, RunTypes
<1>3. QED
  BY <1>1, <1>2, AllAlongside

\* A lost or claimed delivery writes no finding.
LEMMA DeliveryKeeps ==
  ASSUME SyncInv, NEW h \in hooks, Lose(h) \/ Receive(h)
  PROVE  SyncInv'
<1>1. RunTypes /\ WebTypes /\ HandlingInv /\ h \in Hook /\ h.issue \in Issues
  BY DEF SyncInv, WebTypes, Hook
<1>2. /\ UNCHANGED <<issue, finding, assets, run, claimed, row, issueChanges>>
      /\ hooks' \subseteq hooks
  BY DEF Lose, Receive
<1>3. handling' = handling \/ handling' = handling \cup {[hook |-> h, seen |-> finding[h.issue]]}
  BY DEF Lose, Receive
<1>4. finding[h.issue] \in Finding \cup {NoFinding}
  BY <1>1 DEF RunTypes
<1>5. WebTypes'
  BY <1>1, <1>2, <1>3, <1>4 DEF WebTypes
<1>6. HandlingInv'
  BY <1>1, <1>2, <1>3 DEF HandlingInv
<1>7. row' \in Row
  BY <1>1, <1>2 DEF RunTypes
<1>8. QED
  BY <1>2, <1>5, <1>6, <1>7, BesideRuns

\* Ageing of the status row, and stuttering.
LEMMA RowAgesKeeps ==
  ASSUME SyncInv, RowAges \/ UNCHANGED syncVars
  PROVE  SyncInv'
<1>1. UNCHANGED <<issue, hooks, handling, claimed, finding, assets, run, issueChanges>>
  BY DEF RowAges, syncVars
<1>2. row' \in Row
  BY DEF RowAges, syncVars, SyncInv, RunTypes, Row
<1>3. WebTypes' /\ HandlingInv'
  BY <1>1 DEF SyncInv, WebTypes, HandlingInv
<1>4. QED
  BY <1>1, <1>2, <1>3, BesideRuns

\* The sync's invariant holds at the start.
LEMMA SyncStart == SyncInit => SyncInv
<1> SUFFICES ASSUME SyncInit PROVE SyncInv
  OBVIOUS
<1>1. /\ issue \in [Issues -> IssueStates] /\ hooks = {} /\ handling = {} /\ claimed = {}
      /\ finding = [i \in Issues |-> NoFinding] /\ assets = {}
      /\ row \in Row /\ run = [r \in Runs |-> NewRun] /\ issueChanges \in 0..MaxIssueChanges
  BY AikidoAssumption DEF SyncInit, Row
<1>2. \A r \in Runs : /\ run[r] \in RunType /\ run[r].pc = "off"
                      /\ run[r].clean = {} /\ run[r].writes = {}
  BY <1>1, NewRunType
<1>3. WebTypes
  BY <1>1 DEF WebTypes
<1>4. run \in [Runs -> RunType]
  BY <1>1, NewRunType
<1>5. RunTypes
  BY <1>1, <1>2, <1>4 DEF RunTypes
<1>6. \A r \in Runs : RunInv(r)
  BY <1>2 DEF RunInv, RunPlace, ReadInv, PendingInv, DoneInv
<1>7. Exclusive /\ HandlingInv
  BY <1>1, <1>2 DEF Exclusive, HandlingInv
<1>8. QED
  BY <1>3, <1>5, <1>6, <1>7 DEF SyncInv

\* Every step keeps the sync's invariant.
LEMMA SyncStep == SyncInv /\ [SyncNext]_syncVars => SyncInv'
<1> SUFFICES ASSUME SyncInv, [SyncNext]_syncVars PROVE SyncInv'
  OBVIOUS
<1>1. CASE \E i \in Issues, s \in Changing : Change(i, s)
  BY <1>1, IssueChangeKeeps
<1>2. CASE \E h \in hooks : Lose(h) \/ Receive(h)
  BY <1>2, DeliveryKeeps
<1>3. CASE \E g \in handling : Handle(g)
  BY <1>3, HandleKeeps
<1>4. CASE PostSync \/ Redeliver
  BY <1>4, PostSyncKeeps, RedeliverKeeps
<1>5. CASE \E r \in Runs : Step(r) \/ Raise(r) \/ Crash(r)
  <2>1. PICK r \in Runs : Step(r) \/ Raise(r) \/ Crash(r)
    BY <1>5
  <2>2. CASE Step(r)
    BY <2>2, ListAssetsKeeps, FetchIssuesKeeps, ReadFindingKeeps, WriteFindingKeeps,
       CommitBatchKeeps, SyncDashboardKeeps, SettleKeeps DEF Step
  <2>3. QED
    BY <2>1, <2>2, RaiseKeeps, RunCrashKeeps
<1>6. CASE RowAges \/ UNCHANGED syncVars
  BY <1>6, RowAgesKeeps
<1>7. QED
  BY <1>1, <1>2, <1>3, <1>4, <1>5, <1>6 DEF SyncNext

\* A run that is over has come past every issue.
LEMMA SyncInvSound == SyncInv => SyncSound
<1> SUFFICES ASSUME SyncInv PROVE SyncSound
  OBVIOUS
<1>1. RunTypes /\ WebTypes
  BY DEF SyncInv
<1>2. SyncTypes
  <2>1. \A r \in Runs : run[r].pc \in Pc /\ run[r].clean \subseteq Issues /\ run[r].got \subseteq Listed
    BY <1>1, RunFields
  <2>2. QED
    BY <1>1, <2>1 DEF SyncTypes, RunTypes, WebTypes
<1>3. ASSUME NEW r \in Runs, run[r].pc = "off", NEW i \in run[r].clean
      PROVE  Agrees(i, issue[i], run[r].got)
  <2>1. i \in Issues /\ run[r].writes = {} /\ RunInv(r)
    BY <1>1, <1>3, RunFields DEF RunTypes, SyncInv
  <2>2. run[r].snap[i] = issue[i] /\ i \in Past(r) /\ i \notin Wrote(r)
    BY <1>3, <2>1 DEF RunInv, RunPlace, Past, Wrote
  <2>3. i \in assets /\ Ingest(finding[i], issue[i]) /\ (i \in run[r].got => finding[i].digest)
    BY <1>3, <2>1, <2>2 DEF RunInv, DoneInv
  <2>4. issue[i] \in IssueStates
    BY <1>1, <2>1 DEF WebTypes
  <2>5. AikidoStatusToVat(issue[i]) = VatStatus(issue[i])
    BY <2>4 DEF AikidoStatusToVat, VatStatus, IssueStates
  <2>6. QED
    BY <2>3, <2>5 DEF Agrees, Ingest, GoodStatus, GoodClosed
<1>4. QED
  BY <1>2, <1>3 DEF SyncSound, SyncAgrees

(***************************************************************************)
(* The theorems about Aikido's syncs.                                      *)
(***************************************************************************)

\* Every reachable state of the syncs satisfies the inductive invariant.
THEOREM SyncInvariant == SyncSpec => []SyncInv
<1>1. SyncInit => SyncInv
  BY SyncStart
<1>2. SyncInv /\ [SyncNext]_syncVars => SyncInv'
  BY SyncStep
<1>3. QED
  BY <1>1, <1>2, PTL DEF SyncSpec

\* A sync that ended in success has left every issue nobody touched since it
\* fetched them with a finding and an asset that say what Aikido says, whatever
\* overlapped with it, was retried, redelivered or came in by webhook.
THEOREM SyncAlwaysSound == SyncSpec => []SyncSound
<1>1. SyncInv => SyncSound
  BY SyncInvSound
<1>2. QED
  BY <1>1, SyncInvariant, PTL
=============================================================================
