------------------------------ MODULE VatScan ------------------------------
(***************************************************************************)
(* The vat-scan process.  main parses the command line and runs one         *)
(* command: a one-shot command (LocalScan), which ends, or an incremental   *)
(* lane (ScanState), which a deployment runs again and again.  A process    *)
(* that runs the one has none of the other's state.                        *)
(***************************************************************************)
EXTENDS Naturals

CONSTANTS
  \* of LocalScan
  Asked, Images, MaxPaths, Keyless, Batch, ScanFaults,
  \* of ScanState
  Items, Place, Versions, NoVersion, FirstVersion, MaxChanges, LaneFaults

VARIABLES
  command,  \* the kind of command that runs
  cmd, paths, target, keyless, pc, path, stage, found, reports, queue, post, tries, dirs, gated,
  gating_exit, exit, owed, refused, scanFaults,
  lane, strict, rescans, current, file, pass, key, vat, knows, excused, ever, changes, laneFaults

Scan == INSTANCE LocalScan WITH faults <- scanFaults, MaxFaults <- ScanFaults
Lane == INSTANCE ScanState WITH faults <- laneFaults, MaxFaults <- LaneFaults

ASSUME VatScanAssumption == Scan!LocalScanAssumption /\ Lane!ScanStateAssumption

scanVars == <<cmd, paths, target, keyless, pc, path, stage, found, reports, queue, post, tries,
              dirs, gated, gating_exit, exit, owed, refused, scanFaults>>
laneVars == <<lane, strict, rescans, current, file, pass, key, vat, knows, excused, ever, changes,
              laneFaults>>
vars == <<command, scanVars, laneVars>>

Commands == {"one-shot", "lane"}

\* The state of the part that does not run is one of its initial states.
NoScan == cmd = "image" /\ paths = 1 /\ target = "dry" /\ keyless = {}
NoLane == lane = "node" /\ ~strict /\ ~rescans

Init ==
  /\ Scan!Init /\ Lane!Init
  /\ \/ command = "one-shot" /\ NoLane
     \/ command = "lane" /\ NoScan

RunScan == command = "one-shot" /\ Scan!Next /\ UNCHANGED <<command, laneVars>>
RunLane == command = "lane" /\ Lane!Next /\ UNCHANGED <<command, scanVars>>

Next == RunScan \/ RunLane

\* The fairness of the lanes (ScanState): the deployments run pass after pass, and time
\* passes.
Passes == command = "lane" /\ (Lane!StartPass \/ Lane!ScanItem \/ Lane!EndPass)
            /\ UNCHANGED <<command, scanVars>>
Ages   == command = "lane" /\ Lane!Age /\ UNCHANGED <<command, scanVars>>

Spec == Init /\ [][Next]_vars /\ WF_vars(Passes) /\ WF_vars(Ages)

----------------------------------------------------------------------------
(* Properties: those of the two parts.                                     *)

\* A one-shot command keeps its promises however it ends: one that ends of itself has
\* given VAT all it produced and removed what it unpacked, one that fails half-way has not
\* lost the reports it had finished, and the exit code hides no finding that --fail-on is
\* to stop.
OneShotSound ==
  /\ command \in Commands /\ Scan!TypeOK
  /\ Scan!DoneMeansSent /\ Scan!WorkKept /\ Scan!TempRemoved /\ Scan!GateHolds

\* A version a lane has checkpointed, and will skip, has reached VAT (CheckpointSound).
LaneSound == Lane!TypeOK /\ Lane!CheckpointSound

\* A full rescan is noted when it brought VAT the reports of every item.
FullRescanComplete == Lane!FullRescanComplete

\* Every item's current version reaches VAT, again and again.
EveryItemScanned == command = "lane" => Lane!EveryItemScanned
=============================================================================
