----------------------------- MODULE SyncQueue -----------------------------
(***************************************************************************)
(* The outbound queue of sync events: imports and reviewers enqueue        *)
(* events, the Celery task process_sync_queue and the admin endpoints link *)
(* findings to existing issues, enqueue what is missing, and deliver the   *)
(* events to the issue tracker in transactions of their own.               *)
(*                                                                         *)
(* A delivery session locks the rows it has claimed, calls the tracker     *)
(* while its database writes are still uncommitted, and commits once at    *)
(* the end: a session that dies loses its writes but not what it did in    *)
(* the tracker.  An event row carries the session that has locked it and   *)
(* the outcome that session would commit.  Completed rows are dropped,     *)
(* except that corrected remembers the completed update_issue rows, which  *)
(* the backfill of corrections asks for.                                   *)
(***************************************************************************)
EXTENDS Naturals, Sequences, FiniteSets

CONSTANTS
  Findings,        \* findings of the imports
  Below,           \* those whose severity is below the push threshold
  CreatedAt,       \* created_at of the findings, no two alike
  KeysOf,          \* the keys an issue is looked up by: group, then CVE and title
  Sourced,         \* findings whose source takes ignore and unignore calls
  Workers,         \* parallel batches of the Celery task
  Admins,          \* requests of /sync/process that run the queue inline
  NoSession,
  PushModes,       \* {"groups", "instances"}: the settings the run starts with
  UnlinkScanRuns,  \* FALSE: the scan reads a name its module does not import
  MaxAttempts,     \* max_attempts of an event, 5 in the code
  BatchSize,       \* tracker_create_batch_size
  BackfillLimit,   \* rows one backfill reads, 50 in the task
  MaxEdits,        \* bound on what reviewers and admins do after the imports
  MaxIssues,       \* bound on issues
  MaxFailed,       \* bound on the failed rows that corrections are still added to
  MaxFaults        \* bound on failed calls, lost answers, crashes and deletions

Sessions == Workers \cup Admins
Modes == {"groups", "instances"}

ASSUME QueueAssumption ==
  /\ IsFiniteSet(Findings) /\ DOMAIN KeysOf = Findings /\ Sourced \subseteq Findings
  /\ Below \subseteq Findings /\ CreatedAt \in [Findings -> Nat]
  /\ \A f, g \in Findings : CreatedAt[f] = CreatedAt[g] => f = g
  /\ \A f \in Findings : DOMAIN KeysOf[f] \subseteq Nat
  /\ IsFiniteSet(Sessions) /\ NoSession \notin Sessions
  /\ PushModes \subseteq Modes /\ UnlinkScanRuns \in BOOLEAN
  /\ MaxAttempts \in Nat \ {0} /\ BatchSize \in Nat \ {0}
  /\ BackfillLimit \in Nat \ {0}
  /\ MaxEdits \in Nat /\ MaxIssues \in Nat /\ MaxFailed \in Nat /\ MaxFaults \in Nat

VARIABLES
  status,     \* finding status: "absent" before its first import
  link,       \* its tracker link in external_links
  sync,       \* its sync_status
  corrected,  \* findings with a completed update_issue
  events,     \* sync_events that are not completed, by created_at
  issues,     \* issues of the tracker, by number
  phase,      \* what each delivery session is doing
  task,       \* where the Celery task stands
  picked,     \* findings the task's backfill has read as unsynced
  configured, \* the tracker has an API key and a team
  mode,       \* push mode
  granted,    \* history: issues that may exist for a finding, see Delivered
  faults,     \* history: faults so far
  edits       \* history: edits so far

vars == <<status, link, sync, corrected, events, issues, phase, task, picked,
          configured, mode, granted, faults, edits>>

Statuses  == {"absent", "Open", "Decided"}
Types     == {"create_issue", "update_issue", "post_decision", "source_ignore",
              "source_unignore"}
TrackerTypes == {"create_issue", "update_issue", "post_decision"}
IssueIds  == 0..MaxIssues
NoIssue   == 0
NoLink    == [issue |-> NoIssue, uuid |-> FALSE]
Outcomes  == {"todo", "create", "linked", "created", "done", "error", "left", "skip"}
NoOutcome == [kind |-> "todo", issue |-> NoIssue]
Event == [finding : Findings, type : Types, issue : IssueIds,
          status : {"pending", "processing", "failed"}, attempts : 0..MaxAttempts,
          waiting : BOOLEAN, lock : Sessions \cup {NoSession},
          batch : BOOLEAN, out : [kind : Outcomes, issue : IssueIds]]
Issue == [for : Findings, deleted : BOOLEAN]
Phases == {"idle", "ready", "work", "found"}
Stages == {"idle", "link", "corrections", "backfill", "enqueue", "batches"}

TypeOK ==
  /\ status \in [Findings -> Statuses]
  /\ link \in [Findings -> [issue : IssueIds, uuid : BOOLEAN]]
  /\ sync \in [Findings -> {"none", "pending_sync", "synced", "sync_failed"}]
  /\ corrected \subseteq Findings /\ picked \subseteq Findings
  /\ events \in Seq(Event) /\ issues \in Seq(Issue) /\ Len(issues) <= MaxIssues
  /\ phase \in [Sessions -> Phases] /\ task \in Stages
  /\ configured \in BOOLEAN /\ mode \in Modes
  /\ granted \in [Findings -> Nat]
  /\ faults \in 0..MaxFaults /\ edits \in 0..MaxEdits

Init ==
  /\ status = [f \in Findings |-> "absent"]
  /\ link = [f \in Findings |-> NoLink]
  /\ sync = [f \in Findings |-> "none"]
  /\ corrected = {} /\ picked = {} /\ events = <<>> /\ issues = <<>>
  /\ phase = [s \in Sessions |-> "idle"] /\ task = "idle"
  /\ configured \in BOOLEAN /\ mode \in PushModes
  /\ granted = [f \in Findings |-> 0] /\ faults = 0 /\ edits = 0

findingVars == <<status, link, sync, corrected>>
sessionVars == <<phase, task, picked>>
settingVars == <<configured, mode>>
Edited == edits < MaxEdits /\ edits' = edits + 1

(***************************************************************************)
(* Rows, and the issues of the tracker.                                    *)
(***************************************************************************)

Linked(f) == link[f] # NoLink

\* enqueue_sync_event: the row of a new event.
NewEvent(f, type, issue) ==
  [finding |-> f, type |-> type, issue |-> issue, status |-> "pending",
   attempts |-> 0, waiting |-> FALSE, lock |-> NoSession, batch |-> FALSE,
   out |-> NoOutcome]
CreateEvent(f)    == NewEvent(f, "create_issue", NoIssue)
UpdateEvent(f, i) == NewEvent(f, "update_issue", i)

\* Of a set of numbers, the first and the last.
First(S) == CHOOSE i \in S : \A j \in S : i <= j
Last(S)  == CHOOSE i \in S : \A j \in S : j <= i

\* The place of row i among the rows of a set, and the row with the n-th place.
Place(S, i) == Cardinality({j \in S : j <= i})
Nth(S, n)   == CHOOSE i \in S : Place(S, i) = n

\* A set of findings in some order; the queries order by a timestamp.
InOrder(S) == CHOOSE g \in [1..Cardinality(S) -> S] : \A f \in S : \E i \in DOMAIN g : g[i] = f
Creates(S) == LET g == InOrder(S) IN [i \in DOMAIN g |-> CreateEvent(g[i])]

\* A row of this type is pending or processing for the finding.
Outstanding(f, type) ==
  \E i \in DOMAIN events : /\ events[i].finding = f /\ events[i].type = type
                           /\ events[i].status # "failed"

\* The issue a finding is matched with: its first key that an issue of the tracker
\* carries, and the first such issue.  An issue carries the keys of the finding it
\* was made for, the group key only when the push mode is groups.
SharedKey(f, g, n) ==
  /\ n > 1 \/ mode = "groups"
  /\ \E m \in DOMAIN KeysOf[g] : KeysOf[f][n] = KeysOf[g][m]
Carries(i, f, n) == ~issues[i].deleted /\ SharedKey(f, issues[i].for, n)
Hits(f, n) == {i \in DOMAIN issues : Carries(i, f, n)}
Match(f) ==
  LET keys  == {n \in DOMAIN KeysOf[f] : Hits(f, n) # {}}
      found == [n \in keys |-> First(Hits(f, n))]
  IN  IF keys = {} THEN NoIssue ELSE found[First(keys)]

\* Live issues that a link could point at.
Exists(i) == i \in DOMAIN issues /\ ~issues[i].deleted

(***************************************************************************)
(* Imports, reviewers and admins.                                          *)
(***************************************************************************)

\* ingest_finding of a new finding, with maybe_enqueue_tracker_for_new_finding.
NewFinding(f) ==
  /\ status[f] = "absent"
  /\ \A g \in Findings : CreatedAt[g] < CreatedAt[f] => status[g] # "absent"
  /\ status' = [status EXCEPT ![f] = "Open"]
  /\ \/ /\ configured /\ f \notin Below
        /\ events' = Append(events, CreateEvent(f))
        /\ sync' = [sync EXCEPT ![f] = "pending_sync"]
        /\ granted' = [granted EXCEPT ![f] = @ + 1]
     \/ /\ ~configured \/ f \in Below
        /\ UNCHANGED <<events, sync, granted>>
  /\ UNCHANGED <<link, corrected, issues, sessionVars, settingVars, faults, edits>>

\* _enqueue_sync_on_status_change: a comment on the issue of a linked finding, and
\* an ignore or an unignore for the source.
DecisionEvents(f, st) ==
  IF st = "Decided" /\ Linked(f) THEN <<NewEvent(f, "post_decision", link[f].issue)>> ELSE <<>>
SourceEvents(f, st) ==
  IF f \notin Sourced THEN <<>>
  ELSE <<NewEvent(f, IF st = "Decided" THEN "source_ignore" ELSE "source_unignore", NoIssue)>>
\* _enqueue_tracker_update_issue_if_supported.
UpdateEvents(f) == IF Linked(f) THEN <<UpdateEvent(f, link[f].issue)>> ELSE <<>>

\* update_finding with a new status; revert_finding and bulk_update_findings do the
\* same without the updates.
UpdateFinding(f, st, updates) ==
  LET new == DecisionEvents(f, st) \o SourceEvents(f, st) \o updates
  IN  /\ status[f] # "absent" /\ st # status[f] /\ Edited
      /\ status' = [status EXCEPT ![f] = st]
      /\ events' = events \o new
      /\ UNCHANGED <<link, sync, corrected, issues, sessionVars, settingVars, granted, faults>>

\* sync_single_finding_to_tracker.
SyncSingle(f) ==
  /\ configured /\ status[f] # "absent" /\ Edited
  /\ \/ /\ Linked(f) /\ ~Outstanding(f, "update_issue")
        /\ events' = Append(events, UpdateEvent(f, link[f].issue))
        /\ UNCHANGED <<sync, granted>>
     \/ /\ ~Linked(f) /\ status[f] = "Open" /\ f \notin Below
        /\ ~Outstanding(f, "create_issue")
        /\ events' = Append(events, CreateEvent(f))
        /\ sync' = [sync EXCEPT ![f] = "pending_sync"]
        /\ granted' = [granted EXCEPT ![f] = @ + 1]
  /\ UNCHANGED <<status, link, corrected, issues, sessionVars, settingVars, faults>>

\* reset_failed_tracker_events: failed tracker rows are pending again, with no attempts.
Failed == {i \in DOMAIN events : events[i].status = "failed" /\ events[i].type \in TrackerTypes}
ResetRows ==
  /\ events' = [i \in DOMAIN events |->
                  IF i \in Failed
                  THEN [events[i] EXCEPT !.status = "pending", !.attempts = 0]
                  ELSE events[i]]
  /\ sync' = [f \in Findings |->
                IF sync[f] = "sync_failed" /\ \E i \in Failed : events[i].finding = f
                THEN "pending_sync" ELSE sync[f]]

\* POST /sync/retry-failed.
RetryFailed ==
  /\ Failed # {} /\ Edited /\ ResetRows
  /\ UNCHANGED <<status, link, corrected, issues, sessionVars, settingVars, granted, faults>>

\* PUT /settings/linear/credentials: a key and a team also reset what has failed.
SaveTracker ==
  /\ Edited
  /\ \/ configured' = TRUE /\ ResetRows
     \/ configured' = FALSE /\ UNCHANGED <<events, sync>>
  /\ UNCHANGED <<status, link, corrected, issues, sessionVars, mode, granted, faults>>

\* link_linear_issues_to_findings: unlinked findings take the issue they match and
\* have its labels and status updated.
Matched == {f \in Findings \ Below : status[f] # "absent" /\ ~Linked(f) /\ Match(f) # NoIssue}
LinkMatched ==
  LET g == InOrder(Matched)
  IN  /\ link' = [f \in Findings |->
                    IF f \in Matched THEN [issue |-> Match(f), uuid |-> TRUE] ELSE link[f]]
      /\ sync' = [f \in Findings |-> IF f \in Matched THEN "synced" ELSE sync[f]]
      /\ events' = events \o [i \in DOMAIN g |-> UpdateEvent(g[i], Match(g[i]))]
\* POST /sync/link-linear, in either push mode.
LinkExisting ==
  /\ configured /\ Matched # {} /\ LinkMatched /\ Edited
  /\ UNCHANGED <<status, corrected, issues, sessionVars, settingVars, granted, faults>>

\* backfill_unsynced_findings: the query takes the oldest unsynced rows, and only
\* what it returns is compared with the push threshold.
Unsynced == {f \in Findings : /\ status[f] = "Open" /\ ~Linked(f)
                              /\ ~Outstanding(f, "create_issue")}
Page(rows) ==
  {f \in rows : Cardinality({g \in rows : CreatedAt[g] <= CreatedAt[f]}) <= BackfillLimit}
ToCreate(rows) == Page(rows) \ Below
EnqueueCreates(S) ==
  /\ events' = events \o Creates(S)
  /\ sync' = [f \in Findings |-> IF f \in S THEN "pending_sync" ELSE sync[f]]
  /\ granted' = [f \in Findings |-> IF f \in S THEN granted[f] + 1 ELSE granted[f]]
\* POST /sync/backfill; in groups mode it first links what it can.
AdminBackfill ==
  /\ configured /\ ToCreate(Unsynced) # {} /\ Edited
  /\ mode = "groups" => Matched = {}
  /\ EnqueueCreates(ToCreate(Unsynced))
  /\ UNCHANGED <<status, link, corrected, issues, sessionVars, settingVars, faults>>

(***************************************************************************)
(* process_sync_queue: _run_sync_worker, one stage of it per step.         *)
(***************************************************************************)

\* unlink_deleted_linear_issues; a configured tracker takes it past the return.
StartTask ==
  /\ task = "idle"
  /\ \/ /\ ~configured /\ task' = "batches"
        /\ phase' = [s \in Sessions |-> IF s \in Workers THEN "ready" ELSE phase[s]]
        /\ UNCHANGED <<status, link, sync>>
     \/ LET gone == {f \in Findings : link[f].uuid /\ ~Exists(link[f].issue)}
        IN  /\ configured /\ UnlinkScanRuns /\ task' = "link"
            /\ link' = [f \in Findings |-> IF f \in gone THEN NoLink ELSE link[f]]
            /\ status' = [f \in Findings |-> IF f \in gone THEN "Open" ELSE status[f]]
            /\ sync' = [f \in Findings |-> IF f \in gone THEN "pending_sync" ELSE sync[f]]
            /\ UNCHANGED phase
  /\ UNCHANGED <<corrected, picked, events, issues, settingVars, granted, faults, edits>>

\* In groups mode the task links before it corrects, and again before it backfills.
TaskLink ==
  /\ task = "link" /\ task' = "corrections"
  /\ IF configured /\ mode = "groups" THEN LinkMatched ELSE UNCHANGED <<link, sync, events>>
  /\ UNCHANGED <<status, corrected, issues, phase, picked, settingVars, granted, faults, edits>>

\* backfill_tracker_corrections: linked findings that no update_issue was ever
\* delivered for.  A failed row does not count, so a link to an issue that is gone
\* gets a new row whenever the last one has failed: MaxFailed bounds them.
Uncorrected == {f \in Findings : /\ Linked(f) /\ f \notin corrected
                                 /\ ~Outstanding(f, "update_issue")}
TaskCorrections ==
  LET g == InOrder(Uncorrected)
  IN  /\ task = "corrections" /\ task' = "backfill"
      /\ events' = IF configured /\ Cardinality(Failed) < MaxFailed
                   THEN events \o [i \in DOMAIN g |-> UpdateEvent(g[i], link[g[i]].issue)]
                   ELSE events
      /\ UNCHANGED <<findingVars, issues, phase, picked, settingVars, granted, faults, edits>>

\* The backfill reads what is unsynced and enqueues it later, in the same
\* transaction: another backfill in between is not seen.
TaskBackfill ==
  /\ task = "backfill" /\ task' = "enqueue"
  /\ picked' = IF configured
               THEN ToCreate(Unsynced \ (IF mode = "groups" THEN Matched ELSE {})) ELSE {}
  /\ IF configured /\ mode = "groups" THEN LinkMatched ELSE UNCHANGED <<link, sync, events>>
  /\ UNCHANGED <<status, corrected, issues, phase, settingVars, granted, faults, edits>>

TaskEnqueue ==
  /\ task = "enqueue" /\ task' = "batches" /\ picked' = {}
  /\ EnqueueCreates(picked)
  /\ phase' = [s \in Sessions |-> IF s \in Workers THEN "ready" ELSE phase[s]]
  /\ UNCHANGED <<status, link, corrected, issues, settingVars, faults, edits>>

EndTask ==
  /\ task = "batches" /\ \A s \in Workers : phase[s] = "idle"
  /\ task' = "idle"
  /\ UNCHANGED <<findingVars, events, issues, phase, picked, settingVars, granted, faults, edits>>

(***************************************************************************)
(* process_pending_sync_events: one delivery session.                      *)
(***************************************************************************)

Mine(s) == {i \in DOMAIN events : events[i].lock = s}
Todo(s) == {i \in Mine(s) : events[i].out.kind = "todo"}
Next1(s) == First(Todo(s))


\* Claimable rows: due, and not locked by another session.
Due == {i \in DOMAIN events : /\ events[i].status \in {"pending", "processing"}
                              /\ ~events[i].waiting /\ events[i].lock = NoSession}

\* The select with skip_locked, whose limit of rows is more than the queue of the
\* model holds; tracker rows are passed over when no tracker is set.
Claim(s) ==
  /\ \/ s \in Workers /\ phase[s] = "ready" /\ UNCHANGED edits
     \/ s \in Admins /\ phase[s] = "idle" /\ Due # {} /\ Edited
  /\ events' = [i \in DOMAIN events |->
       IF i \notin Due THEN events[i]
       ELSE [events[i] EXCEPT !.lock = s,
               !.out.kind = IF ~configured /\ events[i].type \in TrackerTypes
                            THEN "skip" ELSE "todo"]]
  /\ phase' = [phase EXCEPT ![s] = "work"]
  /\ UNCHANGED <<findingVars, issues, task, picked, settingVars, granted, faults>>

\* The rows the loop takes next: two or more consecutive creates, or updates, go
\* to the tracker in one call.
Batched == {"create_issue", "update_issue"}
HeadRun(s) ==
  LET i   == Next1(s)
      run == {j \in Todo(s) : \A k \in Todo(s) : k <= j => events[k].type = events[i].type}
  IN  IF events[i].type \in Batched THEN run ELSE {i}

\* find_existing_issue_*: in groups mode a create is first looked up.
Look(s) ==
  LET run   == HeadRun(s)
      hit(f) == IF mode = "groups" THEN Match(f) ELSE NoIssue
      out(f) == IF hit(f) = NoIssue THEN [kind |-> "create", issue |-> NoIssue]
                ELSE [kind |-> "linked", issue |-> hit(f)]
  IN  /\ phase[s] = "work" /\ Todo(s) # {} /\ events[Next1(s)].type = "create_issue"
      /\ events' = [i \in DOMAIN events |->
           IF i \in run THEN [events[i] EXCEPT !.batch = Cardinality(run) > 1,
                                               !.out = out(events[i].finding)]
           ELSE events[i]]
      /\ phase' = [phase EXCEPT ![s] = "found"]
      /\ UNCHANGED <<findingVars, issues, task, picked, settingVars, granted, faults, edits>>

\* create_issues_batch sends at most BatchSize of the rows that need an issue; the
\* rest of the batch keeps the status processing.
Wants(s) == {i \in Mine(s) : events[i].out.kind = "create"}
Sent(s)  == LET wants == Wants(s) IN {i \in wants : Place(wants, i) <= BatchSize}
Answered(s, kind) ==
  [i \in DOMAIN events |->
     IF i \in Sent(s)
     THEN [events[i] EXCEPT !.out = [kind |-> kind, issue |->
             IF kind = "created" THEN Len(issues) + Place(Sent(s), i) ELSE NoIssue]]
     ELSE IF i \in Wants(s) THEN [events[i] EXCEPT !.out.kind = "left"]
     ELSE events[i]]

\* create_issue: the issues the tracker makes for the rows sent.
NewIssues(s) ==
  [n \in 1..Cardinality(Sent(s)) |->
     [for |-> events[Nth(Sent(s), n)].finding, deleted |-> FALSE]]

\* The call works, or fails, or works and its answer is lost.
Fault == faults < MaxFaults /\ faults' = faults + 1
Create(s) ==
  /\ phase[s] = "found" /\ phase' = [phase EXCEPT ![s] = "work"]
  /\ \/ /\ Len(issues) + Cardinality(Sent(s)) <= MaxIssues
        /\ issues' = issues \o NewIssues(s) /\ events' = Answered(s, "created")
        /\ UNCHANGED <<granted, faults>>
     \/ /\ Sent(s) # {} /\ Fault
        /\ events' = Answered(s, "error") /\ UNCHANGED <<issues, granted>>
     \/ /\ Sent(s) # {} /\ Fault /\ Len(issues) + Cardinality(Sent(s)) <= MaxIssues
        /\ issues' = issues \o NewIssues(s) /\ events' = Answered(s, "error")
        /\ granted' = [f \in Findings |->
             granted[f] + Cardinality({i \in Sent(s) : events[i].finding = f})]
  /\ UNCHANGED <<findingVars, task, picked, settingVars, edits>>

\* update_issue and post_comment of an issue that is gone fail.
Void(S) == {i \in S : events[i].type \in TrackerTypes /\ ~Exists(events[i].issue)}

\* update_issue, update_issues_batch, post_comment, ignore_issue, unignore_issue:
\* the call may fail, as may one update of a batch, and one about a deleted issue does.
Deliver(s) ==
  LET run == HeadRun(s)
      void == Void(run)
  IN  /\ phase[s] = "work" /\ Todo(s) # {} /\ events[Next1(s)].type # "create_issue"
      /\ \E bad \in {void, run} \cup {void \cup {i} : i \in run} :
           /\ \/ bad = void /\ UNCHANGED faults
              \/ bad # void /\ Fault
           /\ events' = [i \in DOMAIN events |->
                IF i \in run
                THEN [events[i] EXCEPT !.batch = Cardinality(run) > 1,
                        !.out.kind = IF i \in bad THEN "error" ELSE "done"]
                ELSE events[i]]
      /\ UNCHANGED <<findingVars, issues, phase, task, picked, settingVars, granted, edits>>

\* What the commit makes of a row.  A batch counts a create twice and never gives
\* up; a row alone is failed after MaxAttempts.
Tried(e, n) == IF e.attempts + n < MaxAttempts THEN e.attempts + n ELSE MaxAttempts
GivesUp(e)  == e.out.kind = "error" /\ ~e.batch /\ e.attempts + 1 >= MaxAttempts
Settled(e)  ==
  LET free == [e EXCEPT !.lock = NoSession, !.out = NoOutcome, !.batch = FALSE]
  IN  CASE e.out.kind = "skip"  -> free
        [] e.out.kind = "left"  -> [free EXCEPT !.status = "processing", !.attempts = Tried(e, 1)]
        [] e.out.kind = "error" ->
             [free EXCEPT !.status = IF GivesUp(e) THEN "failed" ELSE "pending",
                          !.waiting = ~GivesUp(e),
                          !.attempts = Tried(e, IF e.batch /\ e.type = "create_issue" THEN 2 ELSE 1)]
        [] OTHER -> free

\* Mutant: a batch does not complete the rows whose issue it has made.
FinishedButBatch(e) ==
  \/ e.out.kind \in {"linked", "done"}
  \/ e.out.kind = "created" /\ ~e.batch

Finished(e) == e.out.kind \in {"linked", "created", "done"}

\* Mutant: a session's results are applied to whatever rows it holds.
WroteAny(s, f) == {i \in Mine(s) : /\ events[i].type = "create_issue"
                                   /\ Finished(events[i]) \/ GivesUp(events[i])}

\* The rows with which a session writes a finding's link or sync status; the last
\* one of them stands.
Wrote(s, f) == {i \in Mine(s) : /\ events[i].finding = f /\ events[i].type = "create_issue"
                                /\ Finished(events[i]) \/ GivesUp(events[i])}

\* The rows a commit leaves, and the updates asked for by creates that found an issue.
Kept(s)  == {i \in DOMAIN events : events[i].lock = s => ~Finished(events[i])}
Found(s) == {i \in Mine(s) : events[i].out.kind = "linked"}
KeptRows(s) ==
  LET kept == Kept(s)
  IN  [n \in 1..Cardinality(kept) |->
         LET e == events[Nth(kept, n)] IN IF e.lock = s THEN Settled(e) ELSE e]
FoundRows(s) ==
  LET found == Found(s)
  IN  [n \in 1..Cardinality(found) |->
         LET e == events[Nth(found, n)] IN UpdateEvent(e.finding, e.out.issue)]

Commit(s) ==
  LET links == [f \in Findings |-> {i \in Wrote(s, f) : Finished(events[i])}]
  IN  /\ phase[s] = "work" /\ Todo(s) = {}
      /\ events' = KeptRows(s) \o FoundRows(s)
      /\ link' = [f \in Findings |->
           IF links[f] = {} THEN link[f]
           ELSE LET e == events[Last(links[f])]
                IN  [issue |-> e.out.issue, uuid |-> e.out.kind = "created"]]
      /\ sync' = [f \in Findings |->
           IF Wrote(s, f) = {} THEN sync[f]
           ELSE IF Finished(events[Last(Wrote(s, f))]) THEN "synced" ELSE "sync_failed"]
      /\ corrected' = corrected \cup {events[i].finding : i \in
           {j \in Mine(s) : \/ events[j].out.kind = "created"
                            \/ events[j].type = "update_issue" /\ Finished(events[j])}}
      /\ phase' = [phase EXCEPT ![s] = "idle"]
      /\ UNCHANGED <<status, issues, task, picked, settingVars, granted, faults, edits>>

\* The session dies, or a lookup or a label query of a batch raises: its writes are
\* rolled back and its rows unlocked, with the issues it has made left behind.
Abort(s) ==
  /\ phase[s] \in {"work", "found"} /\ Fault
  /\ events' = [i \in DOMAIN events |->
       IF events[i].lock = s
       THEN [events[i] EXCEPT !.lock = NoSession, !.out = NoOutcome, !.batch = FALSE]
       ELSE events[i]]
  /\ granted' = [f \in Findings |-> granted[f] +
       Cardinality({i \in Mine(s) : events[i].finding = f /\ events[i].out.kind = "created"})]
  /\ phase' = [phase EXCEPT ![s] = "idle"]
  /\ UNCHANGED <<findingVars, issues, task, picked, settingVars, edits>>

\* Time passes: next_retry_at of the rows that have failed is reached.
BackoffElapses ==
  /\ \E i \in DOMAIN events : events[i].waiting
  /\ events' = [i \in DOMAIN events |-> [events[i] EXCEPT !.waiting = FALSE]]
  /\ UNCHANGED <<findingVars, issues, sessionVars, settingVars, granted, faults, edits>>

\* A user of the tracker deletes an issue.
DeleteIssue(i) ==
  /\ ~issues[i].deleted /\ Fault
  /\ issues' = [issues EXCEPT ![i].deleted = TRUE]
  /\ UNCHANGED <<findingVars, events, sessionVars, settingVars, granted, edits>>

TaskStep    == StartTask \/ TaskLink \/ TaskCorrections \/ TaskBackfill \/ TaskEnqueue \/ EndTask
Deliveries(s) == Claim(s) \/ Look(s) \/ Create(s) \/ Deliver(s) \/ Commit(s)

Next ==
  \/ \E f \in Findings : \/ NewFinding(f) \/ SyncSingle(f)
                         \/ \E st \in {"Open", "Decided"}, updates \in {UpdateEvents(f), <<>>} :
                              UpdateFinding(f, st, updates)
  \/ SaveTracker \/ RetryFailed \/ LinkExisting \/ AdminBackfill
  \/ TaskStep
  \/ \E s \in Sessions : Deliveries(s) \/ Abort(s)
  \/ BackoffElapses
  \/ \E i \in DOMAIN issues : DeleteIssue(i)

Spec == Init /\ [][Next]_vars

\* Beat starts the task every two minutes and its batches run to their end; time
\* passes.  Nothing is assumed of admins, reviewers or the tracker.
FairSpec ==
  /\ Spec /\ WF_vars(TaskStep) /\ WF_vars(BackoffElapses)
  /\ \A s \in Sessions : WF_vars(phase[s] # "idle" /\ Deliveries(s))

(***************************************************************************)
(* Properties.                                                             *)
(***************************************************************************)

\* The issues made for a finding, and its create rows that may still make one.
IssuesFor(f) == {i \in DOMAIN issues : issues[i].for = f}
CreatesFor(f) == {i \in DOMAIN events : /\ events[i].finding = f /\ events[i].type = "create_issue"
                                        /\ events[i].out.kind # "created"}

\* Every create_issue row makes at most one issue: the issues made for a finding and
\* its create rows that have not taken effect never exceed the rows enqueued for it
\* and the deliveries whose answer or commit was lost.  Breaks when two sessions
\* hold one row, or a batch assigns its results to the wrong rows.
IssuePerCreate ==
  \A f \in Findings : Cardinality(IssuesFor(f)) + Cardinality(CreatesFor(f)) <= granted[f]

\* Issue i was made for the finding, or for one it shares a key with.
OwnIssue(f, i) ==
  LET g == issues[i].for IN f = g \/ \E n \in DOMAIN KeysOf[f] : SharedKey(f, g, n)

\* A finding is linked to an issue made for it or for a finding it shares a key
\* with, and to none but those, whatever the order in which batches commit.
LinksOwnIssue ==
  \A f \in Findings : Linked(f) => link[f].issue \in DOMAIN issues /\ OwnIssue(f, link[f].issue)

\* A finding shown as synced has a link: unlinking, failing and retrying keep
\* sync_status and external_links together.
SyncedMeansLinked == \A f \in Findings : sync[f] = "synced" => Linked(f)

\* What the queue leaves behind is of one piece: links and statuses agree.
QueueSound == TypeOK /\ LinksOwnIssue /\ SyncedMeansLinked

\* Older findings below the threshold fill the page of every backfill.
Starved(f) ==
  Cardinality({g \in Unsynced \cap Below : CreatedAt[g] <= CreatedAt[f]}) >= BackfillLimit


(***************************************************************************)
(* What the repository says and the code does not do.                      *)
(***************************************************************************)

\* Comments and docstrings: Beat processes the queue every two minutes, and pages
\* drain across ticks, so that with a tracker an open finding gets its issue.
TicksDrainQueue ==
  (<>[]configured) =>
    \A f \in Findings \ Below : (status[f] = "Open") ~> (Linked(f) \/ status[f] # "Open")
=============================================================================
