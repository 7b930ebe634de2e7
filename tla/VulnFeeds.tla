----------------------------- MODULE VulnFeeds -----------------------------
(***************************************************************************)
(* Vulnerability feeds: a refresh fetches advisories of every source,      *)
(* stores them, matches them with the packages of the stored SBOMs and     *)
(* turns the matches into findings, all in one transaction.                *)
(*                                                                         *)
(* A refresh is a Celery task, queued by Beat or by POST /refresh, or an   *)
(* API request that runs it itself.  Both guard themselves with one        *)
(* session-level advisory lock of the database, and only POST /refresh     *)
(* looks at the status row.  OSV is asked about a window of packages that  *)
(* a stored cursor moves over the SBOM; the other sources send everything. *)
(***************************************************************************)
EXTENDS Naturals, Sequences, FiniteSets

CONSTANTS
  Order,         \* SBOM packages as the query orders them
  Targeted,      \* packages _sbom_osv_target can name to OSV
  Aligned,       \* packages whose ecosystem is that of the distribution feeds
  Meeting,       \* keys whose advisory names the package as the SBOM does, without
                 \* another version: no Maven artifact, no fix version of Alpine
  TooOld,        \* packages whose advisory is older than the recency window
  FirstSbom, FirstAffected,
  MaxQueries,    \* vuln_feed_osv_max_queries
  MaxRecords,    \* vuln_feed_max_records_per_source
  ResolveBatch,  \* vuln_feed_materialize_package_batch_size
  IncludeLow,    \* vuln_feed_match_include_low_confidence
  Execs,         \* executions of a refresh
  Pool,          \* connections of the API's pool
  NoConn,
  MaxPosts, MaxInline, MaxChanges, MaxFaults  \* bounds

Packages   == {Order[n] : n \in DOMAIN Order}
Strategies == {"exact", "loose"}
Sources    == {"osv", "feed"}

ASSUME FeedsAssumption ==
  /\ Order \in Seq(Packages) /\ \A m, n \in DOMAIN Order : Order[m] = Order[n] => m = n
  /\ Targeted \subseteq Packages /\ Aligned \subseteq Packages /\ TooOld \subseteq Packages
  /\ Meeting \subseteq Packages \X Strategies
  /\ FirstSbom \subseteq Packages /\ FirstAffected \subseteq Packages
  /\ MaxQueries \in Nat \ {0} /\ MaxRecords \in Nat \ {0} /\ ResolveBatch \in Nat \ {0}
  /\ IncludeLow \in BOOLEAN /\ NoConn \notin Pool \cup Execs /\ Pool \cap Execs = {}
  /\ \A n \in {MaxPosts, MaxInline, MaxChanges, MaxFaults} : n \in Nat

VARIABLES
  sbom,      \* packages of the stored SBOMs
  affected,  \* packages the sources know an advisory for
  records,   \* VulnFeedRecord rows
  cursor,    \* osv_cursor
  finding,   \* status of the finding of a package and a strategy
  row,       \* vuln_feed_refresh_status
  lock,      \* the advisory lock: the connection that holds it, how often
  exec,      \* the refreshes
  posting,   \* POST /refresh requests that have read an inactive status row
  settled,   \* nothing a refresh reads or writes changed since one completed
  posts, inlines, changes, faults

vars == <<sbom, affected, records, cursor, finding, row, lock, exec, posting, settled,
          posts, inlines, changes, faults>>

Keys     == Packages \X Strategies
Statuses == {"none", "Open", "Reopened", "Resolved", "Mitigated", "Suppressed"}
Record   == [source : Sources, pkg : Packages]
Row      == [status : {"idle", "queued", "running", "completed", "failed"}, fresh : BOOLEAN]
Pc       == {"off", "queued", "osv", "feed", "match", "commit", "release"}

Fault     == faults < MaxFaults /\ faults' = faults + 1
Bounded   == changes < MaxChanges /\ changes' = changes + 1
MarkRow(s) == row' = [status |-> s, fresh |-> TRUE]
Active    == row.status \in {"queued", "running"} /\ row.fresh

AnyFree == \E e \in Execs : exec[e].pc = "off"
Free    == CHOOSE e \in Execs : exec[e].pc = "off"

\* conn is the connection of the transaction; recs, cursor and writes are what
\* it has written; clean until something it has matched changes.
NewExec == [pc |-> "off", conn |-> NoConn, recs |-> {}, cursor |-> 0,
            writes |-> [k \in {} |-> "none"], clean |-> TRUE, tries |-> 0]
Queued  == [NewExec EXCEPT !.pc = "queued"]

Init ==
  /\ sbom = FirstSbom /\ affected = FirstAffected
  /\ records = {} /\ cursor = 0
  /\ finding = [k \in Keys |-> "none"]
  /\ row = [status |-> "idle", fresh |-> TRUE]
  /\ lock = [conn |-> NoConn, depth |-> 0]
  /\ exec = [e \in Execs |-> NewExec]
  /\ posting = 0 /\ settled = FALSE
  /\ posts = 0 /\ inlines = 0 /\ changes = 0 /\ faults = 0

----------------------------------------------------------------------------
(* Pure parts: the OSV window, curation, matching.                         *)

\* The packages in query order, their number, and those of the window at cursor
\* c, which wraps and names a package once.
Rows            == SelectSeq(Order, LAMBDA p : p \in sbom)
TotalCandidates == Cardinality(sbom)
WindowSize      == IF MaxQueries < TotalCandidates THEN MaxQueries ELSE TotalCandidates
Window(c)       == {Rows[((c + n) % TotalCandidates) + 1] : n \in 0..(WindowSize - 1)}
SafeCursor(c)   == IF TotalCandidates = 0 THEN 0 ELSE c % TotalCandidates

\* Mutant: the cursor never moves.
NextCursorFixed(c) == SafeCursor(c)

\* A window no package of which OSV knows is not stepped over: the cursor stays.
NextCursor(c) ==
  IF TotalCandidates = 0 THEN 0
  ELSE IF Window(SafeCursor(c)) \cap Targeted = {} THEN SafeCursor(c)
  ELSE (SafeCursor(c) + WindowSize) % TotalCandidates

\* _apply_feed_curation: recent advisories, the most severe first (Order stands
\* for the rank), at most MaxRecords.
Rank(p) == CHOOSE n \in DOMAIN Order : Order[n] = p
Curated(ps) ==
  LET recent == ps \ TooOld
  IN {p \in recent : Cardinality({q \in recent : Rank(q) < Rank(p)}) < MaxRecords}

\* _upsert_records: a record is added or written again; none is removed.
Upserts(source, ps) == [source : {source}, pkg : ps]

\* _match_strategy: names must be equal and versions must not differ.  An OSV
\* record carries the version asked for; one of the other sources that has none
\* matches with the ecosystem or, with low confidence, without.
Matches(k, recs) ==
  /\ k \in Meeting
  /\ \/ k[2] = "exact" /\ \E r \in recs : r.source = "osv" /\ r.pkg = k[1]
     \/ k[2] = "loose" /\ \E r \in recs : /\ r.source = "feed" /\ r.pkg = k[1]
                                          /\ k[1] \in Aligned \/ IncludeLow

Matched(recs, pkgs) == {k \in Keys : k[1] \in pkgs /\ Matches(k, recs)}

IsOpen(s) == s \in {"Open", "Reopened"}

\* Mutant: a resolved finding that matches again stays resolved.
RefreshedKeeping(s) == IF s = "none" THEN "Open" ELSE s

\* What a match does to a finding.
Refreshed(s) == IF s = "none" THEN "Open"
                ELSE IF s \in {"Resolved", "Mitigated"} THEN "Reopened" ELSE s

----------------------------------------------------------------------------
(* The lock and the connections.                                           *)

Busy == {exec[e].conn : e \in Execs} \ {NoConn}
Idle == Pool \ Busy

\* Mutant: the lock is not looked at.
MayLockAlways(c) == TRUE

\* pg_try_advisory_lock: free, or this connection's already.
MayLock(c) == lock.conn \in {NoConn, c}
Locked(c)  == [conn |-> c, depth |-> lock.depth + 1]

\* pg_advisory_unlock on connection c: without the lock it only warns.
Unlocked(c) ==
  IF lock.conn # c THEN lock
  ELSE IF lock.depth = 1 THEN [conn |-> NoConn, depth |-> 0]
  ELSE [lock EXCEPT !.depth = @ - 1]
\* A connection that is closed loses its locks.
Dropped(c) == IF lock.conn = c THEN [conn |-> NoConn, depth |-> 0] ELSE lock

IsTask(e) == exec[e].conn = e
Begun(e, c) == [exec[e] EXCEPT !.pc = "osv", !.conn = c, !.cursor = cursor]

----------------------------------------------------------------------------
(* Starting a refresh.                                                     *)

\* Beat, every 6 hours.
BeatTick ==
  /\ AnyFree /\ \A e \in Execs : exec[e].pc # "queued"
  /\ exec' = [exec EXCEPT ![Free] = Queued]
  /\ UNCHANGED <<sbom, affected, records, cursor, finding, row, lock, posting, settled,
                 posts, inlines, changes, faults>>

\* POST /refresh reads the row, and writes it in a later statement: requests
\* may both find it inactive.
PostRead ==
  /\ posts < MaxPosts /\ posts' = posts + 1
  /\ posting' = IF Active THEN posting ELSE posting + 1
  /\ UNCHANGED <<sbom, affected, records, cursor, finding, row, lock, exec, settled,
                 inlines, changes, faults>>

\* "queued" is committed, then the task is sent; sending may fail.
PostWrite ==
  /\ posting > 0 /\ posting' = posting - 1
  /\ \/ /\ AnyFree /\ exec' = [exec EXCEPT ![Free] = Queued]
        /\ MarkRow("queued") /\ UNCHANGED faults
     \/ Fault /\ MarkRow("failed") /\ UNCHANGED exec
  /\ UNCHANGED <<sbom, affected, records, cursor, finding, lock, settled,
                 posts, inlines, changes>>

\* The task opens an engine of its own, and with it a connection; it commits
\* "running" before it works, or leaves at once.  A task that expired in the
\* queue is dropped unseen.
StartTask(e) ==
  /\ exec[e].pc = "queued"
  /\ \/ /\ MayLock(e)
        /\ lock' = Locked(e) /\ exec' = [exec EXCEPT ![e] = Begun(e, e)]
        /\ MarkRow("running") /\ UNCHANGED faults
     \/ /\ ~MayLock(e)
        /\ exec' = [exec EXCEPT ![e] = NewExec] /\ UNCHANGED <<row, lock, faults>>
     \/ Fault /\ exec' = [exec EXCEPT ![e] = NewExec] /\ UNCHANGED <<row, lock>>
  /\ UNCHANGED <<sbom, affected, records, cursor, finding, posting, settled,
                 posts, inlines, changes>>

\* POST /refresh?use_celery=false takes the lock on the pooled connection its
\* session happens to hold; "running" stays in its transaction.
StartInline(c) ==
  /\ inlines < MaxInline /\ inlines' = inlines + 1
  /\ AnyFree /\ c \in Idle
  /\ IF MayLock(c)
     THEN lock' = Locked(c) /\ exec' = [exec EXCEPT ![Free] = Begun(Free, c)]
     ELSE UNCHANGED <<lock, exec>>
  /\ UNCHANGED <<sbom, affected, records, cursor, finding, row, posting, settled,
                 posts, changes, faults>>

----------------------------------------------------------------------------
(* The steps of a refresh.                                                 *)

\* A source that cannot be fetched is recorded as failed, keeps its cursor,
\* and the refresh goes on.
SourceFails(e, next) == Fault /\ exec' = [exec EXCEPT ![e].pc = next]

FetchOsv(e) ==
  LET asked == IF sbom = {} THEN {} ELSE Window(SafeCursor(exec[e].cursor)) \cap Targeted
  IN /\ exec[e].pc = "osv"
     /\ \/ /\ exec' = [exec EXCEPT ![e].pc = "feed",
                 ![e].recs = @ \cup Upserts("osv", Curated(asked \cap affected)),
                 ![e].cursor = NextCursor(@)]
           /\ UNCHANGED faults
        \/ asked # {} /\ SourceFails(e, "feed")
     /\ UNCHANGED <<sbom, affected, records, cursor, finding, row, lock, posting, settled,
                    posts, inlines, changes>>

FetchFeed(e) ==
  /\ exec[e].pc = "feed"
  /\ \/ /\ exec' = [exec EXCEPT ![e].pc = "match",
              ![e].recs = @ \cup Upserts("feed", Curated(affected))]
        /\ UNCHANGED faults
     \/ SourceFails(e, "match")
  /\ UNCHANGED <<sbom, affected, records, cursor, finding, row, lock, posting, settled,
                 posts, inlines, changes>>

\* materialize_feed_matches_to_findings.  Without SBOM packages it returns at
\* once.  A stale row is taken out of the session right after its change, and
\* the session is flushed at every ResolveBatch-th: only those are written, in
\* whatever order the database returns the rows.
Materialize(e) ==
  LET match == Matched(records \cup exec[e].recs, sbom)
      stale == {k \in Keys \ match : IsOpen(finding[k])}
  IN /\ exec[e].pc = "match"
     /\ \/ /\ sbom = {}
           /\ exec' = [exec EXCEPT ![e].pc = "commit", ![e].clean = FALSE]
        \/ /\ sbom # {}
           /\ \E kept \in SUBSET stale :
                /\ Cardinality(kept) = Cardinality(stale) \div ResolveBatch
                /\ exec' = [exec EXCEPT ![e].pc = "commit", ![e].clean = TRUE,
                     ![e].writes = [k \in match \cup kept |->
                        IF k \in match THEN Refreshed(finding[k]) ELSE "Resolved"]]
     /\ UNCHANGED <<sbom, affected, records, cursor, finding, row, lock, posting, settled,
                    posts, inlines, changes, faults>>

\* One commit for everything; the connection goes back to its pool with the
\* lock still held.
Commit(e) ==
  /\ exec[e].pc = "commit"
  /\ records' = records \cup exec[e].recs /\ cursor' = exec[e].cursor
  /\ finding' = [k \in Keys |-> IF k \in DOMAIN exec[e].writes THEN exec[e].writes[k]
                                ELSE finding[k]]
  /\ MarkRow("completed")
  /\ settled' = exec[e].clean
  /\ exec' = [exec EXCEPT ![e] = [NewExec EXCEPT !.pc = "release",
                !.conn = IF IsTask(e) THEN e ELSE NoConn]]
  /\ UNCHANGED <<sbom, affected, lock, posting, posts, inlines, changes, faults>>

\* The next statement of the session takes a connection again: a task's engine
\* has only the one, the API's pool may hand out any idle one.
Release(e) ==
  /\ exec[e].pc = "release"
  /\ \/ IsTask(e) /\ lock' = Dropped(e)
     \/ ~IsTask(e) /\ \E c \in Idle : lock' = Unlocked(c)
  /\ exec' = [exec EXCEPT ![e] = IF exec[e].tries > 0 THEN [Queued EXCEPT !.tries = exec[e].tries]
                                 ELSE NewExec]
  /\ UNCHANGED <<sbom, affected, records, cursor, finding, row, posting, settled,
                 posts, inlines, changes, faults>>

\* An error of the database: everything is rolled back and "failed" committed.
\* Celery tries a task again, twice.
Fail(e) ==
  /\ exec[e].pc \in {"osv", "feed", "match", "commit"} /\ Fault
  /\ MarkRow("failed")
  /\ exec' = [exec EXCEPT ![e] = [NewExec EXCEPT !.pc = "release",
                !.conn = IF IsTask(e) THEN e ELSE NoConn,
                !.tries = IF IsTask(e) /\ exec[e].tries < 2 THEN exec[e].tries + 1 ELSE 0]]
  /\ UNCHANGED <<sbom, affected, records, cursor, finding, lock, posting, settled,
                 posts, inlines, changes>>

\* The process dies, and its connections with it.
Crash(e) ==
  /\ exec[e].pc \notin {"off", "queued"} /\ Fault
  /\ IF IsTask(e)
     THEN /\ lock' = Dropped(e)
          /\ exec' = [exec EXCEPT ![e] = NewExec]
     ELSE /\ lock' = IF lock.conn \in Pool THEN [conn |-> NoConn, depth |-> 0] ELSE lock
          /\ exec' = [d \in Execs |-> IF exec[d].pc \in {"off", "queued"} \/ IsTask(d)
                                      THEN exec[d] ELSE NewExec]
  /\ UNCHANGED <<sbom, affected, records, cursor, finding, row, posting, settled,
                 posts, inlines, changes>>

----------------------------------------------------------------------------
(* What happens beside it.                                                 *)

\* vuln_feed_refresh_stale_after_seconds pass.
RowAges ==
  /\ Active /\ row' = [row EXCEPT !.fresh = FALSE]
  /\ UNCHANGED <<sbom, affected, records, cursor, finding, lock, exec, posting, settled,
                 posts, inlines, changes, faults>>

\* A refresh that has matched already misses the change.
Unclean == exec' = [e \in Execs |-> [exec[e] EXCEPT !.clean = @ /\ exec[e].pc # "commit"]]

\* import_sbom adds packages; one that is gone from the image stays.
ImportSbom(p) ==
  /\ Bounded /\ p \notin sbom
  /\ sbom' = sbom \cup {p}
  /\ settled' = FALSE /\ Unclean
  /\ UNCHANGED <<affected, records, cursor, finding, row, lock, posting, posts, inlines, faults>>

\* Deleting an asset removes its packages and its findings; a row a refresh
\* has written makes it wait.
DeleteAsset(p) ==
  /\ Bounded /\ p \in sbom
  /\ \A e \in Execs, s \in Strategies :
       <<p, s>> \in DOMAIN exec[e].writes => finding[<<p, s>>] = "none"
  /\ sbom' = sbom \ {p}
  /\ finding' = [k \in Keys |-> IF k[1] = p THEN "none" ELSE finding[k]]
  /\ settled' = FALSE /\ Unclean
  /\ UNCHANGED <<affected, records, cursor, row, lock, posting, posts, inlines, faults>>

\* The sources publish or withdraw an advisory.
Publish(p) ==
  /\ Bounded
  /\ affected' = IF p \in affected THEN affected \ {p} ELSE affected \cup {p}
  /\ UNCHANGED <<sbom, records, cursor, finding, row, lock, exec, posting, settled,
                 posts, inlines, faults>>

\* A reviewer decides; the row lock of a refresh makes the request wait.
Review(k, s) ==
  /\ Bounded /\ IsOpen(finding[k])
  /\ \A e \in Execs : k \notin DOMAIN exec[e].writes
  /\ finding' = [finding EXCEPT ![k] = s]
  /\ settled' = FALSE /\ Unclean
  /\ UNCHANGED <<sbom, affected, records, cursor, row, lock, posting, posts, inlines, faults>>

\* vuln_feed_records_retention_days pass for a record no refresh fetches any
\* more, and the nightly task deletes it, unless a refresh has it written.
Prune(r) ==
  /\ r \in records /\ UNCHANGED changes
  /\ r.pkg \notin affected \/ (r.source = "osv" /\ r.pkg \notin sbom)
  /\ \A e \in Execs : r \notin exec[e].recs
  /\ records' = records \ {r}
  /\ settled' = FALSE /\ Unclean
  /\ UNCHANGED <<sbom, affected, cursor, finding, row, lock, posting, posts, inlines, faults>>

Step(e) == \/ StartTask(e) \/ FetchOsv(e) \/ FetchFeed(e) \/ Materialize(e)
           \/ Commit(e) \/ Release(e)

Next ==
  \/ BeatTick \/ PostRead \/ PostWrite \/ RowAges
  \/ \E c \in Pool : StartInline(c)
  \/ \E e \in Execs : Step(e) \/ Fail(e) \/ Crash(e)
  \/ \E p \in Packages : ImportSbom(p) \/ DeleteAsset(p) \/ Publish(p)
  \/ \E k \in Keys, s \in {"Mitigated", "Suppressed"} : Review(k, s)
  \/ \E r \in records : Prune(r)

Spec == Init /\ [][Next]_vars

\* Beat ticks, workers work, requests end.
FairSpec ==
  /\ Spec
  /\ WF_vars(BeatTick)
  /\ \A e \in Execs : WF_vars(Step(e))

----------------------------------------------------------------------------
TypeOK ==
  /\ sbom \subseteq Packages /\ affected \subseteq Packages /\ records \subseteq Record
  /\ cursor \in 0..Len(Order) /\ finding \in [Keys -> Statuses] /\ row \in Row
  /\ lock.conn \in Pool \cup Execs \cup {NoConn} /\ (lock.conn = NoConn <=> lock.depth = 0)
  /\ \A e \in Execs : /\ exec[e].pc \in Pc /\ exec[e].recs \subseteq Record
                      /\ DOMAIN exec[e].writes \subseteq Keys
                      /\ exec[e].conn \in Pool \cup {e, NoConn}
  /\ posting \in 0..MaxPosts /\ settled \in BOOLEAN

\* try_acquire_vuln_feed_refresh_lock keeps refreshes apart, however they were
\* started: whatever the pool does with the connection that has the lock, no
\* two of them work at once.
OneRefresh ==
  Cardinality({e \in Execs : exec[e].pc \in {"osv", "feed", "match", "commit"}}) <= 1

\* Refreshes exclude one another, on whatever connection the lock is.
RefreshSound == TypeOK /\ OneRefresh

\* When a refresh has completed and nothing it read has changed since, whatever
\* the SBOMs and the records match has a finding that is open, or set aside by a
\* reviewer: also one that was resolved or mitigated before.
MatchesOpen ==
  settled => \A k \in Matched(records, sbom) : finding[k] \notin {"none", "Resolved", "Mitigated"}

\* An advisory that matching can use: a distribution's, or OSV's on the version.
ByFeed(p)  == <<p, "loose">> \in Meeting /\ (p \in Aligned \/ IncludeLow)
ByOsv(p)   == <<p, "exact">> \in Meeting /\ p \in Targeted
Known(p)   == p \in sbom \cap Curated(affected)

Surfaced(p) == \E s \in Strategies : finding[<<p, s>>] \notin {"none", "Resolved"}

\* The lock has stayed behind on a pooled connection nobody works on.
Leaked == lock.conn \in Pool \ Busy

\* The cursor stands before a window that has nothing to ask OSV about.
Stuck == sbom # {} /\ Window(SafeCursor(cursor)) \cap Targeted = {}

\* New advisories are found without a new scan: a package of a stored SBOM that
\* the sources know a usable advisory for does not stay without a finding, however
\* long the SBOM, unless the lock of a refresh was left on a pooled connection or
\* OSV's cursor does not move any more.
ExposedSurfaces ==
  \A p \in Packages : []<>(Leaked \/ Surfaced(p)
                            \/ ~(Known(p) /\ (ByFeed(p) \/ (ByOsv(p) /\ ~Stuck))))

----------------------------------------------------------------------------
(* What the documentation and the tests say.                               *)

\* docs/event-driven-scanning-design.md:35: "New CVEs against existing images
\* are found without re-pulling the image."  NextCursor does not leave a window
\* that has nothing to ask about.
NewCVEsFound ==
  \A p \in Packages : []<>(Leaked \/ Surfaced(p) \/ ~(Known(p) /\ ByOsv(p)))

\* tests/test_vuln_feeds_service.py:373: a finding whose record is gone is
\* "Resolved" by the next refresh.
StaleResolved ==
  settled => \A k \in Keys \ Matched(records, sbom) : ~IsOpen(finding[k])
=============================================================================
