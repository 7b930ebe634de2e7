----------------------------- MODULE AikidoSync -----------------------------
(***************************************************************************)
(* What comes in from Aikido: the full sync a Celery worker runs (assets,  *)
(* issues, dashboard, backfill) and the webhooks that arrive meanwhile.    *)
(*                                                                         *)
(* A sync fetches every issue once and then ingests the copies, for        *)
(* minutes, in transactions of INGEST_COMMIT_EVERY findings: what it has   *)
(* flushed is locked and unseen until the batch commits, and the ORM       *)
(* writes only the columns that differ from the row as it was read.        *)
(* Nothing keeps two syncs of one source apart: POST /sync asks nobody,    *)
(* and the broker redelivers a task that was not acknowledged in time.     *)
(***************************************************************************)
EXTENDS Naturals, Sequences, FiniteSets

CONSTANTS
  Issues,
  Export,          \* the issues in the order /issues/export lists them
  Listed,          \* issues whose image Aikido's list of containers names
  Runs,            \* executions of run_aikido_full_sync
  NoFinding,
  FirstStates,     \* what the issues may be at the start
  Changing,        \* states an issue may change to
  CommitEvery,     \* INGEST_COMMIT_EVERY
  MaxPosts,        \* bound on POST /sync
  MaxIssueChanges, \* bound on changes at Aikido
  MaxFaults        \* bound on failures, crashes, losses and repetitions

\* An issue at Aikido: ignoring one may also stamp closed_at.
IssueStates == {"open", "ignored", "ignoredClosed", "closed"}

Finding == [status : {"Open", "Reopened", "Resolved", "Suppressed"}, closedAt : BOOLEAN, digest : BOOLEAN]

ASSUME AikidoAssumption ==
  /\ NoFinding \notin Finding
  /\ IsFiniteSet(Issues)
  /\ Export \in Seq(Issues) /\ \A i \in Issues : \E n \in DOMAIN Export : Export[n] = i
  /\ Listed \subseteq Issues /\ FirstStates \subseteq [Issues -> IssueStates]
  /\ Changing \subseteq IssueStates
  /\ CommitEvery \in Nat \ {0} /\ MaxPosts \in Nat /\ MaxIssueChanges \in Nat /\ MaxFaults \in Nat

VARIABLES
  issue,     \* state of an issue at Aikido
  hooks,     \* webhook deliveries on their way
  handling,  \* deliveries a request has claimed and read for
  claimed,   \* committed idempotency keys
  finding,   \* the committed finding of an issue
  assets,    \* issues whose image has an asset row
  row,       \* the status row of the source
  run,       \* the syncs
  posts, issueChanges, faults

syncVars == <<issue, hooks, handling, claimed, finding, assets, row, run, posts, issueChanges, faults>>

Row     == [status : {"idle", "running", "success", "error"}, fresh : BOOLEAN]
Pc      == {"off", "queued", "fetch", "read", "write", "commit",
            "dashboard", "backfill", "failed"}
Hook    == [issue : Issues, as : IssueStates, ts : 1..MaxIssueChanges]

----------------------------------------------------------------------------
\* The status of a finding that an issue asks for: to_vat_finding looks at
\* ignored before closed, because an ignored issue may carry closed_at.
VatStatus(s) == IF s \in {"ignored", "ignoredClosed"} THEN "Suppressed"
                ELSE IF s = "closed" THEN "Resolved" ELSE "Open"

\* The same mapping a second time, for the dashboard.
AikidoStatusToVat(s) == CASE s \in {"ignored", "ignoredClosed"} -> "Suppressed"
                          [] s = "closed" -> "Resolved"
                          [] OTHER -> "Open"

HasClosedAt(s) == s \in {"closed", "ignoredClosed"}

\* ingest_finding: a new row takes the source's status; on a row that exists a
\* closed or ignored issue wins, and an open one only undoes Resolved.
Created(s) == [status |-> VatStatus(s), closedAt |-> HasClosedAt(s), digest |-> FALSE]

Merged(f, s) ==
  IF VatStatus(s) # "Open"
  THEN [f EXCEPT !.status = VatStatus(s), !.closedAt = @ \/ HasClosedAt(s)]
  ELSE IF f.status = "Resolved" THEN [f EXCEPT !.status = "Reopened", !.closedAt = FALSE]
  ELSE f

Ingested(f, s) == IF f = NoFinding THEN Created(s) ELSE Merged(f, s)

\* issue.closed: only the status is written, and no finding is made.
Closed(f) == IF f = NoFinding THEN NoFinding ELSE [f EXCEPT !.status = "Resolved"]

\* Mutant: the row is written whole, with what was read.
WrittenWhole(f, seen, new) == new

\* An UPDATE of the ORM: the columns whose value differs from the one read.
Written(f, seen, new) ==
  [c \in DOMAIN f |-> IF new[c] = seen[c] THEN f[c] ELSE new[c]]

Stored(f, seen, new) ==
  IF new = NoFinding THEN f ELSE IF seen = NoFinding THEN new ELSE Written(f, seen, new)

----------------------------------------------------------------------------
Locked(i) == \E r \in Runs : \E w \in run[r].writes : w.issue = i

\* A write of i that was not made for the state s spoils what a run may promise.
Disturb(i, s) ==
  [r \in Runs |-> IF run[r].snap[i] = s THEN run[r]
                  ELSE [run[r] EXCEPT !.clean = @ \ {i}]]

\* The run a new task takes: executions of one task are alike.
Free == CHOOSE r \in Runs : run[r].pc = "off"
AnyFree == \E r \in Runs : run[r].pc = "off"

Off(r)       == [run[r] EXCEPT !.pc = "off", !.writes = {}]
Progress     == [status |-> "running", fresh |-> TRUE]
Terminal(st) == [status |-> st, fresh |-> TRUE]

\* Mutant: an old running row is shown as it is.
ShownRaw == row.status

\* What GET /sync-status shows: a running row nobody refreshed is an error.
Shown == IF row.status = "running" /\ ~row.fresh THEN "error" ELSE row.status

NewRun == [pc |-> "off", snap |-> [i \in Issues |-> "open"], pos |-> 1,
           got |-> {}, seen |-> NoFinding, writes |-> {},
           clean |-> {}, retried |-> FALSE]

SyncInit ==
  /\ issue \in FirstStates
  /\ hooks = {} /\ handling = {} /\ claimed = {}
  /\ finding = [i \in Issues |-> NoFinding]
  /\ assets = {}
  /\ row = [status |-> "idle", fresh |-> TRUE]
  /\ run = [r \in Runs |-> NewRun]
  /\ posts = 0 /\ issueChanges = 0 /\ faults = 0

MayFail == faults < MaxFaults
Fault   == MayFail /\ faults' = faults + 1

----------------------------------------------------------------------------
\* External: an issue changes at Aikido, which dispatches a webhook.
Change(i, s) ==
  /\ issueChanges < MaxIssueChanges /\ s # issue[i]
  /\ issueChanges' = issueChanges + 1
  /\ issue' = [issue EXCEPT ![i] = s]
  /\ hooks' = hooks \cup {[issue |-> i, as |-> s, ts |-> issueChanges']}
  /\ run' = [r \in Runs |-> [run[r] EXCEPT !.clean = @ \ {i}]]
  /\ UNCHANGED <<handling, claimed, finding, assets,
                 row, posts, faults>>

\* A delivery is refused (signature, secret, older than 30 s) or never arrives.
Lose(h) ==
  /\ h \in hooks /\ Fault
  /\ hooks' = hooks \ {h}
  /\ UNCHANGED <<issue, handling, claimed, finding, assets, row, run, posts, issueChanges>>

\* The request claims the key, which blocks a repeated delivery until it ends,
\* and reads the finding.
Receive(h) ==
  /\ h \in hooks
  /\ \/ hooks' = hooks \ {h} /\ UNCHANGED faults
     \/ Fault /\ UNCHANGED hooks
  /\ ~\E g \in handling : g.hook = h
  /\ IF h \in claimed
     THEN UNCHANGED handling
     ELSE handling' = handling \cup
            {[hook |-> h, seen |-> finding[h.issue]]}
  /\ UNCHANGED <<issue, claimed, finding, assets,
                 row, run, posts, issueChanges>>

\* It waits for the row lock of a sync's batch and commits: claim and finding
\* together.  A finding made meanwhile makes the insert fail, and
\* the claim goes with it.
Handle(g) ==
  LET i == g.hook.issue
      s == g.hook.as
      new == IF s = "closed" THEN Closed(g.seen) ELSE Ingested(g.seen, s)
      clash == g.seen = NoFinding /\ new # NoFinding /\ finding[i] # NoFinding
  IN /\ g \in handling /\ ~Locked(i)
     /\ handling' = handling \ {g}
     /\ IF clash
        THEN UNCHANGED <<claimed, finding, run>>
        ELSE /\ claimed' = claimed \cup {g.hook}
             /\ finding' = [finding EXCEPT ![i] = Stored(@, g.seen, new)]
             /\ run' = Disturb(i, s)
     /\ UNCHANGED <<issue, hooks, assets, row, posts, issueChanges, faults>>

----------------------------------------------------------------------------
\* POST /sync writes "running" and queues the task, whatever else runs.
PostSync ==
  /\ AnyFree /\ posts < MaxPosts
  /\ posts' = posts + 1
  /\ row' = Progress
  /\ run' = [run EXCEPT ![Free] = [NewRun EXCEPT !.pc = "queued"]]
  /\ UNCHANGED <<issue, hooks, handling, claimed, finding, assets, issueChanges, faults>>

\* acks_late: the broker hands a task out again that is not acknowledged in time.
Redeliver ==
  /\ AnyFree /\ Fault
  /\ \E q \in Runs : run[q].pc \notin {"off", "queued"}
  /\ run' = [run EXCEPT ![Free] = [NewRun EXCEPT !.pc = "queued", !.retried = TRUE]]
  /\ UNCHANGED <<issue, hooks, handling, claimed, finding, assets, row, posts, issueChanges>>

\* Every stage first writes its progress to the status row.  Repositories and
\* containers come first: a page that fails ends the list, a list that fails is
\* empty, and assets that cannot be committed are logged; the sync goes on.
ListAssets(r) ==
  /\ run[r].pc = "queued"
  /\ \E got \in SUBSET Listed, made \in SUBSET Listed :
       /\ IF got = Listed /\ made = Listed THEN UNCHANGED faults ELSE Fault /\ made \in {{}, got}
       /\ assets' = assets \cup made
       /\ run' = [run EXCEPT ![r].pc = "fetch", ![r].got = got]
  /\ row' = Progress
  /\ UNCHANGED <<issue, hooks, handling, claimed, finding, posts, issueChanges>>

FetchIssues(r) ==
  /\ run[r].pc = "fetch"
  /\ \/ /\ run' = [run EXCEPT ![r].pc = IF Len(Export) = 0 THEN "dashboard" ELSE "read",
                              ![r].snap = issue, ![r].clean = Issues, ![r].pos = 1]
        /\ row' = Progress /\ UNCHANGED faults
     \/ Fault /\ run' = [run EXCEPT ![r].pc = "failed"] /\ UNCHANGED row
  /\ UNCHANGED <<issue, hooks, handling, claimed, finding, assets, posts, issueChanges>>

\* The row as this session sees it: its own write is not read again, because
\* the export lists an issue once.
ReadFinding(r) ==
  LET i == Export[run[r].pos]
  IN /\ run[r].pc = "read"
     /\ run' = [run EXCEPT ![r].pc = "write", ![r].seen = finding[i]]
     /\ UNCHANGED <<issue, hooks, handling, claimed, finding, assets, row, posts, issueChanges, faults>>

\* A batch ends with every CommitEvery-th issue and with the last.
AfterIssue(p) == IF p % CommitEvery = 0 \/ p = Len(Export) THEN "commit" ELSE "read"

\* The flush takes the row lock.  A payload that fails, or an insert that finds
\* the row there, rolls its savepoint back.
WriteFinding(r) ==
  LET p == run[r].pos
      i == Export[p]
      s == run[r].snap[i]
      new == Ingested(run[r].seen, s)
      clash == run[r].seen = NoFinding /\ finding[i] # NoFinding
      next == [run[r] EXCEPT !.pc = AfterIssue(p), !.pos = @ + 1, !.seen = NoFinding]
  IN /\ run[r].pc = "write" /\ ~Locked(i)
     /\ \/ /\ ~clash
           /\ run' = [run EXCEPT ![r] =
                [next EXCEPT !.writes = @ \cup {[issue |-> i, seen |-> run[r].seen, new |-> new]}]]
           /\ UNCHANGED faults
        \/ /\ clash
           /\ run' = [run EXCEPT ![r] = [next EXCEPT !.clean = @ \ {i}]]
           /\ UNCHANGED faults
        \/ /\ Fault
           /\ run' = [run EXCEPT ![r] = [next EXCEPT !.clean = @ \ {i}]]
     /\ UNCHANGED <<issue, hooks, handling, claimed, finding, assets, row, posts, issueChanges>>

WriteOf(r, i) == CHOOSE w \in run[r].writes : w.issue = i
Wrote(r)      == {w.issue : w \in run[r].writes}

Committed(r) == [run[r] EXCEPT !.writes = {},
                   !.pc = IF run[r].pos > Len(Export) THEN "dashboard" ELSE "read"]

CommitBatch(r) ==
  /\ run[r].pc = "commit"
  /\ finding' = [i \in Issues |-> IF i \in Wrote(r)
                   THEN Stored(finding[i], WriteOf(r, i).seen, WriteOf(r, i).new)
                   ELSE finding[i]]
  /\ assets' = assets \cup Wrote(r)
  /\ run' = [q \in Runs |->
       IF q = r
       THEN Committed(r)
       ELSE [run[q] EXCEPT !.clean = @ \ {i \in Wrote(r) : run[r].snap[i] # run[q].snap[i]}]]
  /\ row' = Progress
  /\ UNCHANGED <<issue, hooks, handling, claimed, posts, issueChanges, faults>>

\* Dashboard: the SBOM of a container that this run was given gives its findings
\* a digest when they have none, each container in a transaction of its own, and
\* any of them may fail; a call that fails elsewhere ends the sync.
Digests(done) ==
  [i \in Issues |-> IF i \in done /\ finding[i] # NoFinding
                    THEN [finding[i] EXCEPT !.digest = TRUE] ELSE finding[i]]

SyncDashboard(r) ==
  /\ run[r].pc = "dashboard" /\ \A i \in run[r].got : ~Locked(i)
  /\ \/ \E done \in SUBSET run[r].got :
          /\ IF done = run[r].got THEN UNCHANGED faults ELSE Fault
          /\ finding' = Digests(done)
          /\ run' = [run EXCEPT ![r].pc = "backfill", ![r].clean = @ \ (run[r].got \ done)]
          /\ row' = Progress
     \/ /\ Fault /\ run' = [run EXCEPT ![r].pc = "failed"]
        /\ UNCHANGED <<finding, row>>
  /\ UNCHANGED <<issue, hooks, handling, claimed, assets, posts, issueChanges>>

\* Backfill and the end.  first_detected_at and closed_at are looked up by the
\* fingerprint of CVE and component, but an Aikido finding is stored under that
\* of its issue id: the stage finds none, and the ingest has set both already.
\* A success keeps what the run promises; an error promises nothing.
Settle(r) ==
  /\ run[r].pc \in {"backfill", "failed"}
  /\ row' = Terminal(IF run[r].pc = "backfill" THEN "success" ELSE "error")
  /\ run' = [run EXCEPT ![r] = [Off(r) EXCEPT
               !.clean = IF run[r].pc = "backfill" THEN @ ELSE {}]]
  /\ UNCHANGED <<issue, hooks, handling, claimed, finding, assets, posts, issueChanges, faults>>

\* An exception that leaves the sync, a lost database say: the error is shown
\* and the task is retried once, 300 s later.
Raise(r) ==
  /\ run[r].pc \notin {"off", "queued"} /\ Fault
  /\ row' = Terminal("error")
  /\ run' = [run EXCEPT ![r] = [NewRun EXCEPT !.retried = TRUE,
               !.pc = IF run[r].retried THEN "off" ELSE "queued"]]
  /\ UNCHANGED <<issue, hooks, handling, claimed, finding, assets, posts, issueChanges>>

\* The worker dies: the task is handed out again, or lost with its process.
Crash(r) ==
  /\ run[r].pc \notin {"off", "queued"} /\ Fault
  /\ \E pc \in {"off", "queued"} :
       run' = [run EXCEPT ![r] = [NewRun EXCEPT !.retried = run[r].retried, !.pc = pc]]
  /\ UNCHANGED <<issue, hooks, handling, claimed, finding, assets, row, posts, issueChanges>>

\* aikido_sync_stale_after_seconds pass without a write of the status row.
RowAges ==
  /\ row.status = "running" /\ row.fresh
  /\ row' = [row EXCEPT !.fresh = FALSE]
  /\ UNCHANGED <<issue, hooks, handling, claimed, finding, assets, run, posts, issueChanges, faults>>

Step(r) == \/ ListAssets(r) \/ FetchIssues(r) \/ ReadFinding(r) \/ WriteFinding(r)
           \/ CommitBatch(r) \/ SyncDashboard(r) \/ Settle(r)

SyncNext ==
  \/ \E i \in Issues, s \in Changing : Change(i, s)
  \/ \E h \in hooks : Lose(h) \/ Receive(h)
  \/ \E g \in handling : Handle(g)
  \/ PostSync \/ Redeliver
  \/ \E r \in Runs : Step(r) \/ Raise(r) \/ Crash(r)
  \/ RowAges

SyncSpec == SyncInit /\ [][SyncNext]_syncVars

\* Celery works the queue, requests end, and time passes.
FairSyncSpec ==
  /\ SyncSpec
  /\ \A r \in Runs : WF_syncVars(Step(r))
  /\ WF_syncVars(\E g \in handling : Handle(g))
  /\ WF_syncVars(RowAges)

----------------------------------------------------------------------------
SyncTypes ==
  /\ issue \in [Issues -> IssueStates] /\ hooks \subseteq Hook /\ claimed \subseteq Hook
  /\ \A g \in handling : g.hook \in Hook /\ g.seen \in Finding \cup {NoFinding}
  /\ finding \in [Issues -> Finding \cup {NoFinding}]
  /\ assets \subseteq Issues /\ row \in Row
  /\ \A r \in Runs : /\ run[r].pc \in Pc /\ run[r].clean \subseteq Issues
                     /\ run[r].got \subseteq Listed
                     /\ run[r].writes # {} => run[r].pc \in {"read", "write", "commit"}

\* A sync that ended in success has left every issue that nobody touched since
\* it fetched them, and that it did not have to skip, with a finding and an
\* asset that say what Aikido and the dashboard say, whatever crashed, was
\* retried, overlapped with it or came in by webhook before; with a digest, when
\* its container is among those the run was given.  A run whose list of
\* containers failed ends in success and promises no digest at all.
Agrees(i, s, got) ==
  /\ finding[i] # NoFinding /\ i \in assets
  /\ VatStatus(s) = "Open" => finding[i].status # "Resolved"
  /\ AikidoStatusToVat(s) # "Open" => finding[i].status = AikidoStatusToVat(s)
  /\ HasClosedAt(s) => finding[i].closedAt
  /\ i \in got => finding[i].digest

SyncAgrees ==
  \A r \in Runs : run[r].pc = "off" => \A i \in run[r].clean : Agrees(i, issue[i], run[r].got)

\* A completed sync leaves VAT and Aikido in agreement.
SyncSound == SyncTypes /\ SyncAgrees

\* Once nobody starts a sync any more, the status page does not show one as
\* running for ever, even if its worker died.
StatusSettles == <>[](Shown # "running")

=============================================================================
