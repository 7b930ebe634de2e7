---------------------------- MODULE BatchIngest ----------------------------
(***************************************************************************)
(* POST /api/ingest: scanners post reports on one image, and the handler   *)
(* works through the findings of a report in one database session.  The    *)
(* session is committed by what it calls on the way (the asset record, each *)
(* finding, the SBOM or the OpenSCAP evidence, the tag clean-up) and never *)
(* by the handler, so what is written after the last of these commits is   *)
(* gone when the session closes.  A statement the database refuses leaves  *)
(* the session unusable, and nothing in the handler rolls it back.  The    *)
(* scanner repeats a post that ends in a 5xx or does not get through, and  *)
(* gives it up when the connection is cut while it waits for the answer.   *)
(***************************************************************************)
EXTENDS Naturals, Sequences, FiniteSets, SequencesExt

CONSTANTS
  Senders,    \* scanners, each with one report to post
  Findings,   \* findings, by fingerprint
  Groups,     \* sets of scanners that may post at the same time
  Report,     \* Report[s]: the findings the parser makes of the report of s
  Poison,     \* findings with a value the database refuses
  Unmapped,   \* findings without an asset, in a strict-mode post
  Unparsable, \* senders whose body the parser refuses
  Attached,   \* senders whose report holds an SBOM or OpenSCAP evidence
  BadAttached,\* those of them whose import the database refuses
  ForcesTag,  \* senders that name the asset and its tag in the headers
  Attempts,   \* attempts of _urlopen_json_with_retry
  MaxFaults   \* bound on crashes and lost answers

ASSUME BatchIngestAssumption ==
  /\ Report \in [Senders -> Seq(Findings)] /\ Groups \subseteq SUBSET Senders
  /\ Poison \cup Unmapped \subseteq Findings /\ Poison \cap Unmapped = {}
  /\ Unparsable \cup Attached \cup ForcesTag \subseteq Senders
  /\ BadAttached \subseteq Attached
  /\ Attempts \in Nat \ {0} /\ MaxFaults \in Nat

VARIABLES
  rollup,   \* ingest_rollup_window_seconds > 0
  asset,    \* the Asset row exists
  stored,   \* Finding rows
  trail,    \* trail[s]: committed audit events of s, as <<what, finding>>
  job,      \* job[s]: the handler at work for s
  tries,    \* posts of s so far, while it has no answer
  answer,   \* what s knows: "none", "ok", "rejected" (4xx), "gave up" (attempts used up)
            \*   or "cut" (no answer); "absent" if it has no report to post
  faults

client == <<tries, answer>>
vars == <<rollup, asset, stored, trail, job, client, faults>>

Outcomes == {"new", "merged", "failed"}
Events   == Outcomes \X Findings

\* A post at work: where the handler is, at which finding, whether the look-up found it,
\* whether the session is broken, the events in the transaction and in the window.
Job == [at : {"idle", "resolve", "asset", "store", "attach", "close"}, i : Nat \ {0},
        known : BOOLEAN, broken : BOOLEAN, buf : SUBSET Events, window : SUBSET Events]

\* No post of the sender is being handled.
Idle == [at |-> "idle", i |-> 1, known |-> FALSE, broken |-> FALSE, buf |-> {}, window |-> {}]

Opened == [Idle EXCEPT !.at = "resolve"]

TypeOK ==
  /\ rollup \in BOOLEAN /\ asset \in BOOLEAN
  /\ stored \subseteq Findings \ (Poison \cup Unmapped)
  /\ trail \in [Senders -> SUBSET Events]
  /\ job \in [Senders -> Job]
  /\ \A s \in Senders :
       /\ job[s].i \in 1 .. Len(Report[s]) + 1
       /\ job[s].broken => job[s].buf = {}
       /\ ~rollup => job[s].window = {}
  /\ tries \in [Senders -> 0 .. Attempts]
  /\ answer \in [Senders -> {"absent", "none", "ok", "rejected", "gave up", "cut"}]
  /\ faults \in 0 .. MaxFaults

Init ==
  /\ rollup \in BOOLEAN
  /\ asset = FALSE /\ stored = {}
  /\ trail = [s \in Senders |-> {}]
  /\ job = [s \in Senders |-> Idle]
  /\ tries = [s \in Senders |-> 0]
  /\ \E g \in Groups : answer = [s \in Senders |-> IF s \in g THEN "none" ELSE "absent"]
  /\ faults = 0

----------------------------------------------------------------------------
(* What the handler writes to the audit ledger.  With roll-ups on, an event *)
(* is only counted in the open window, which is emitted as one event when  *)
(* it is due; an emission needs the session.                               *)

Noted(j, e, due) ==
  IF ~rollup THEN [j EXCEPT !.buf = @ \cup {e}]
  ELSE IF due THEN [j EXCEPT !.buf = @ \cup j.window, !.window = {e}]
  ELSE [j EXCEPT !.window = @ \cup {e}]

Raises(j, due) == j.broken /\ (~rollup \/ (due /\ j.window # {}))

\* A window is due, or not: time is not modelled.
Due == IF rollup THEN BOOLEAN ELSE {FALSE}

\* The statement fails: the transaction and what it wrote are lost.
Broken(j) == [j EXCEPT !.broken = TRUE, !.buf = {}]

Advance(s, j) ==
  [j EXCEPT !.i = @ + 1, !.known = FALSE,
            !.at = IF j.i = Len(Report[s]) THEN "attach" ELSE "resolve"]

\* A commit of the session by s in the state j.
Committed(s, j) == trail' = [trail EXCEPT ![s] = @ \cup j.buf]

\* What the scanner knows of its post, which is over.
Answers(s, a) ==
  /\ job' = [job EXCEPT ![s] = Idle]
  /\ answer' = [answer EXCEPT ![s] = a]
  /\ tries' = [tries EXCEPT ![s] = IF a = "none" THEN @ ELSE 0]

\* Mutant: a 500 is not tried again.
GivesUp(s) == Answers(s, "gave up")

\* A 5xx: s posts again, as long as it has attempts left.
Repeats(s) == Answers(s, IF tries[s] = Attempts THEN "gave up" ELSE "none")

\* No answer of the handler: a proxy answers 502 or 504 in its place, or the exception of
\* the cut connection, neither HTTPError nor URLError, passes the retry loop.
Unanswered(s) == Repeats(s) \/ Answers(s, "cut")

\* Mutant: the failure is not noted while the session is broken.
FailsQuietly(s, j) ==
  /\ job' = [job EXCEPT ![s] =
       Advance(s, IF j.broken THEN j ELSE Noted(j, <<"failed", Report[s][j.i]>>, FALSE))]
  /\ UNCHANGED client

\* The except branch of the loop: count the finding as failed and go on, unless noting
\* that needs the broken session.
Fails(s, j) ==
  \E due \in Due :
    IF Raises(j, due)
    THEN Repeats(s)
    ELSE /\ job' = [job EXCEPT ![s] = Advance(s, Noted(j, <<"failed", Report[s][j.i]>>, due))]
         /\ UNCHANGED client

\* The mapping is recorded, which may emit a window that is due, and ingest_finding looks
\* the fingerprint up.  The event of the mapping itself is committed or lost with those
\* before it and is left out.
Looks(s, j) ==
  \E due \in Due :
    job' = [job EXCEPT ![s] =
              [j EXCEPT !.buf = IF due THEN @ \cup j.window ELSE @,
                        !.window = IF due THEN {} ELSE @,
                        !.at = "store", !.known = Report[s][j.i] \in stored]]

----------------------------------------------------------------------------
(* The handler.                                                            *)

Post(s) ==
  /\ job[s].at = "idle" /\ answer[s] = "none"
  /\ IF s \in Unparsable
     THEN Answers(s, "rejected")
     ELSE /\ job' = [job EXCEPT ![s] = Opened]
          /\ tries' = [tries EXCEPT ![s] = @ + 1]
          /\ UNCHANGED answer
  /\ UNCHANGED <<rollup, asset, stored, trail, faults>>

\* What follows once the Asset row is there: the finding, or the end of an empty report.
Proceeds(s, j) ==
  IF Report[s] = <<>> THEN job' = [job EXCEPT ![s] = [j EXCEPT !.at = "attach"]]
  ELSE Looks(s, j)

\* resolve_asset_for_payload, or the stub asset of an empty report, and the look-up of the
\* Asset row.
Resolve(s) ==
  LET j == job[s] IN
  /\ j.at = "resolve"
  /\ IF Report[s] # <<>> /\ (j.broken \/ Report[s][j.i] \in Unmapped)
     THEN Fails(s, j)
     ELSE /\ IF asset THEN Proceeds(s, j) ELSE job' = [job EXCEPT ![s].at = "asset"]
          /\ UNCHANGED client
  /\ UNCHANGED <<rollup, asset, stored, trail, faults>>

\* _ensure_asset_record inserts the row and commits; another post may have inserted it
\* since the look-up, which ends the post of an empty report.
EnsureAsset(s) ==
  LET j == job[s] IN
  /\ j.at = "asset"
  /\ \/ /\ ~asset
        /\ asset' = TRUE
        /\ Committed(s, j)
        /\ Proceeds(s, [j EXCEPT !.buf = {}])
        /\ UNCHANGED client
     \/ /\ asset
        /\ IF Report[s] = <<>> THEN Repeats(s) ELSE Fails(s, Broken(j))
        /\ UNCHANGED <<asset, trail>>
  /\ UNCHANGED <<rollup, stored, faults>>

\* Mutant: the unique index does not catch the race.
StoreBlind(s) ==
  LET j == job[s] f == Report[s][j.i] IN
  /\ j.at = "store"
  /\ IF f \in Poison
     THEN Fails(s, Broken(j)) /\ UNCHANGED <<stored, trail>>
     ELSE /\ stored' = stored \cup {f}
          /\ Committed(s, j)
          /\ \E due \in Due :
               job' = [job EXCEPT ![s] =
                         Advance(s, Noted([j EXCEPT !.buf = {}],
                                          <<IF j.known THEN "merged" ELSE "new", f>>, due))]
          /\ UNCHANGED client
  /\ UNCHANGED <<rollup, asset, faults>>

\* ingest_finding: the flush that writes the finding is refused when its values are, or
\* when another post has inserted the fingerprint since the look-up; otherwise one commit
\* writes the finding and the events before it.
Store(s) ==
  LET j == job[s] f == Report[s][j.i] IN
  /\ j.at = "store"
  /\ IF f \in Poison \/ (~j.known /\ f \in stored)
     THEN Fails(s, Broken(j)) /\ UNCHANGED <<stored, trail>>
     ELSE /\ stored' = stored \cup {f}
          /\ Committed(s, j)
          /\ \E due \in Due :
               job' = [job EXCEPT ![s] =
                         Advance(s, Noted([j EXCEPT !.buf = {}],
                                          <<IF j.known THEN "merged" ELSE "new", f>>, due))]
          /\ UNCHANGED client
  /\ UNCHANGED <<rollup, asset, faults>>

\* import_sbom, store_openscap_scan_result: either commits, or its error is logged.
Imports(s, j) == s \in Attached \ BadAttached /\ ~j.broken

Attach(s) ==
  LET j == job[s] IN
  /\ j.at = "attach"
  /\ IF Imports(s, j)
     THEN /\ Committed(s, j)
          /\ job' = [job EXCEPT ![s] = [j EXCEPT !.buf = {}, !.at = "close"]]
     ELSE /\ job' = [job EXCEPT ![s] =
                       [IF s \in Attached THEN Broken(j) ELSE j EXCEPT !.at = "close"]]
          /\ UNCHANGED trail
  /\ UNCHANGED <<rollup, asset, stored, client, faults>>

\* normalize_existing_source_asset_tags of a named asset; an empty report has returned.
Cleans(s) == s \in ForcesTag /\ Report[s] # <<>>

\* rollup.flush_final, the tag clean-up (which commits when it changed a row), the
\* answer, and the end of the session.
Close(s) ==
  LET j == job[s]
      last == [j EXCEPT !.buf = @ \cup j.window, !.window = {}]
  IN
  /\ j.at = "close"
  /\ IF j.broken /\ (j.window # {} \/ Cleans(s))
     THEN Repeats(s) /\ UNCHANGED <<trail, faults>>
     ELSE /\ \/ Cleans(s) /\ Committed(s, last)
             \/ UNCHANGED trail
          /\ \/ Answers(s, "ok") /\ UNCHANGED faults
             \/ /\ faults < MaxFaults /\ faults' = faults + 1
                /\ Unanswered(s)
  /\ UNCHANGED <<rollup, asset, stored>>

\* The backend stops, or the connection is cut and the handler cancelled.
Crash(s) ==
  /\ job[s].at # "idle"
  /\ faults < MaxFaults /\ faults' = faults + 1
  /\ Unanswered(s)
  /\ UNCHANGED <<rollup, asset, stored, trail>>

Work(s) == Post(s) \/ Resolve(s) \/ EnsureAsset(s) \/ Store(s) \/ Attach(s) \/ Close(s)

\* Every scanner has its answer.
Settled == \A s \in Senders : answer[s] # "none"

Done == Settled /\ UNCHANGED vars

Next == (\E s \in Senders : Work(s) \/ Crash(s)) \/ Done

\* The server goes on with the posts it has, in any order, and a scanner's retry loop goes
\* on by itself.
Spec == Init /\ [][Next]_vars /\ WF_vars(\E s \in Senders : Work(s))

----------------------------------------------------------------------------
(* Properties.                                                             *)

Asked(s) == Range(Report[s])

\* A scanner is told that its report was ingested only when every finding of it that has
\* an asset is in the database, whoever stored it and however often it was posted
\* (_ingest_from_parser goes on after an exception, with a session that may be broken).
OkMeansStored == \A s \in Senders : answer[s] = "ok" => Asked(s) \ Unmapped \subseteq stored

\* The committed trail tells no lies: a finding it says was created or merged is in the
\* database, and only one post of one scanner created it (the event follows the commit of
\* the finding; a race on the fingerprint is decided by the unique index).
TrailSound ==
  \A s, t \in Senders : \A f \in Findings :
    /\ ({<<"new", f>>, <<"merged", f>>} \cap trail[s] # {} => f \in stored)
    /\ (<<"new", f>> \in trail[s] \cap trail[t] => s = t)

\* Without roll-ups, a report that ends with an SBOM import leaves the outcome of each of
\* its findings in the trail: the import's commit is the one that keeps the last event.
SealedMeansAudited ==
  \A s \in Attached \ BadAttached :
    answer[s] = "ok" /\ ~rollup =>
      \A f \in Asked(s) : \E o \in Outcomes : <<o, f>> \in trail[s]

\* The committed trail neither lies nor, where a commit follows it, has gaps.
IngestSound == TypeOK /\ TrailSound /\ SealedMeansAudited

\* What the PRD promises of each ingest: a report that was ingested leaves the outcome of
\* each of its findings in the committed trail.
DecisionsAudited ==
  \A s \in Senders :
    answer[s] = "ok" => \A f \in Asked(s) : \E o \in Outcomes : <<o, f>> \in trail[s]

\* Reports the database takes.
Clean(s) == s \notin Unparsable \cup BadAttached /\ Asked(s) \cap Poison = {}

\* A report the database takes is ingested in the end, although posts of other scanners
\* race it for the same rows and break its session and the backend stops behind its proxy:
\* each repetition gets further than the race that broke the last one, and a scanner that
\* was not cut off from the answer never runs out of attempts.
CleanReportIngested ==
  \A s \in Senders : Clean(s) => <>(answer[s] \in {"ok", "cut", "absent"})

============================================================================
