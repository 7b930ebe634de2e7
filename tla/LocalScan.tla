----------------------------- MODULE LocalScan -----------------------------
(***************************************************************************)
(* vat-scan's one-shot commands: scan of directories, scan-archive, and    *)
(* image.  A scan runs one scanner after another over a directory and the  *)
(* container images found in it.  A scan of a single directory sends each  *)
(* report as soon as it is there and all of them again at the end; of      *)
(* several, and of archives, each one's reports are sent when its scan is  *)
(* over.  A scanner may give nothing, end the scan with an error the       *)
(* command expects (RuntimeError), or raise one that nothing catches.      *)
(***************************************************************************)
EXTENDS Naturals, Sequences, FiniteSets, SequencesExt

CONSTANTS
  Asked,      \* stages that --scan-types and the content of the paths call for
  Images,     \* container images a directory may hold
  MaxPaths,   \* directories, or archives, on the command line
  Keyless,    \* sources whose ingest key may be missing from the cache
  Batch,      \* _TRIVY_RESULT_BATCH
  MaxFaults   \* bound on scanners and calls to VAT that fail

Root == "root"     \* what a report says of the directory itself

\* What VatScan assumes of the constants.
LocalScanAssumption ==
  /\ IsFiniteSet(Images) /\ Root \notin Images
  /\ MaxPaths \in Nat \ {0} /\ Batch \in Nat \ {0} /\ MaxFaults \in Nat

\* The order of run_scan; collecting the images is a stage without a report.
Stages == <<"trivy", "collect", "images", "openscap", "openscap_oval", "cyclonedx",
            "grype", "npm_audit", "pip_audit", "semgrep", "gitleaks">>
Parsers == Range(Stages) \ {"collect", "images"}
Parts   == {Root} \cup Images

VARIABLES
  cmd,      \* the command, how many paths it has, and where reports go:
  paths,    \*   VAT, nowhere with --dry-run, or nowhere as VAT is not configured
  target,
  keyless,  \* sources without a key
  pc, path, stage,
  found,    \* container_sources
  reports,  \* reports of the path: the parts of each parser's
  queue,    \* parsers whose reports are still to be sent
  post,     \* the report being sent: parser, parts left, and where to go on
  tries,    \* attempts of the image command
  dirs,     \* temporary trees: the extracted archive, the unwrapped bundles
  gated,    \* paths whose findings exceed --fail-on
  gating_exit,
  exit,     \* "none" while it runs; "done", "error", or "raised" for a traceback
  owed,     \* parts of reports that were produced and that VAT does not have
  refused,  \* a call to VAT failed
  faults

options == <<cmd, paths, target, keyless>>
scan == <<stage, found, reports>>
vars == <<options, pc, path, scan, queue, post, tries, dirs, gated, gating_exit, exit, owed,
          refused, faults>>

Fault == faults < MaxFaults /\ faults' = faults + 1

NoReports == [p \in Parsers |-> {}]
NoPost    == [parser |-> "none", left |-> {}, then |-> "none"]
Incremental == cmd = "scan" /\ paths = 1 /\ target = "vat"

Init ==
  /\ cmd \in {"scan", "archive", "image"} /\ paths \in 1..MaxPaths /\ target \in {"vat", "dry", "unset"}
  /\ cmd = "image" => paths = 1
  /\ keyless \in SUBSET Keyless
  /\ pc = "next" /\ path = 0 /\ stage = 1 /\ found = {} /\ reports = NoReports
  /\ queue = {} /\ post = NoPost /\ tries = 0 /\ dirs = {}
  /\ gated = {} /\ gating_exit = 0
  /\ exit = "none" /\ owed = {} /\ refused = FALSE /\ faults = 0

\* Every end of scan-archive goes through its finally: remove_extracted.
Exit(how) == exit' = how /\ pc' = "end" /\ dirs' = dirs \ {"tree"}

----------------------------------------------------------------------------
(* Scanners: what each may come to.                                        *)

Gives(S)  == [parts |-> S, end |-> "on"]
Fails(how) == [parts |-> {}, end |-> how]

\* A missing trivy and a timeout are expected errors; no output file counts as
\* a report without results, half a file is not caught.
TrivyFs == {Gives({}), Gives({Root}), Fails("error"), Fails("raised")}

\* An image without a report is left out; a timeout is not caught.
TrivyImages == {Gives(S) : S \in SUBSET found} \cup (IF found = {} THEN {} ELSE {Fails("raised")})

\* Timeouts, missing tools and bad archives are all caught.
OpenScap == {Gives(S) : S \in SUBSET found}

\* The same, and the rest is skipped at the first image that is not RHEL's.
OpenScapOval == {Gives(S) : S \in SUBSET found}

\* SBOM documents of the directory and of the images, with no component in any
\* of them: the scan fails, after the documents are published.
Cyclonedx ==
  {Gives(S) : S \in SUBSET (found \cup {Root})}
    \cup {[parts |-> S, end |-> "error"] : S \in SUBSET (found \cup {Root})}

\* None of these catches a timeout; gitleaks and grype nor output that is no JSON.
Audit   == {Gives({}), Gives({Root}), Fails("raised")}    \* npm audit, pip-audit, semgrep
Secrets == {Gives({}), Gives({Root}), Fails("raised")}    \* gitleaks, grype

\* A stage that is not asked for gives nothing.
Runner(s) ==
  CASE s \notin Asked   -> {Gives({})}
    [] s = "trivy"     -> TrivyFs
    [] s = "images"    -> TrivyImages
    [] s = "openscap"  -> OpenScap
    [] s = "openscap_oval" -> OpenScapOval
    [] s = "cyclonedx" -> Cyclonedx
    [] s \in {"grype", "gitleaks"} -> Secrets
    [] OTHER           -> Audit

\* Results of images are added to Trivy's report.
ParserOf(s) == IF s = "images" THEN "trivy" ELSE s

----------------------------------------------------------------------------
(* A path: extraction, scan, gating.                                       *)

\* The scan command wants VAT configured before it scans, the others after.
Unconfigured == cmd = "scan" /\ target = "unset"

StartPath ==
  /\ pc = "next" /\ cmd # "image"
  /\ path' = path + 1 /\ stage' = 1 /\ found' = {} /\ reports' = NoReports
  /\ \/ /\ Unconfigured /\ Exit("error") /\ UNCHANGED faults
     \/ /\ ~Unconfigured /\ pc' = "scan"
        /\ dirs' = dirs \cup (IF cmd = "archive" THEN {"tree"} ELSE {})
        /\ UNCHANGED <<exit, faults>>
     \/ /\ cmd = "archive" /\ Fault   \* extract_archive, ValueError or not
        /\ \E how \in {"error", "raised"} : Exit(how)
  /\ UNCHANGED <<options, queue, post, tries, gated, gating_exit, owed, refused>>

\* collect_container_sources; bundles that do not unpack are skipped.
Collect ==
  /\ pc = "scan" /\ stage <= Len(Stages) /\ Stages[stage] = "collect"
  /\ stage' = stage + 1
  /\ \E S \in SUBSET Images :
       /\ found' = S
       /\ \E wraps \in IF S = {} THEN {FALSE} ELSE BOOLEAN :
            dirs' = dirs \cup (IF wraps THEN {"wraps"} ELSE {})
  /\ UNCHANGED <<options, pc, path, reports, queue, post, tries, gated, gating_exit, exit, owed,
                 refused, faults>>

Produced(p, S) == {<<path, p, x>> : x \in S}

\* RuntimeError: a scan of one directory sends what it has as "failed".
Failing(reps) ==
  IF Incremental /\ \E p \in Parsers : reps[p] # {}
  THEN /\ pc' = "failing" /\ queue' = {p \in Parsers : reps[p] # {}} /\ UNCHANGED <<exit, dirs>>
  ELSE Exit("error") /\ UNCHANGED queue

\* on_report
Publishes(o) == o.parts # {} /\ Incremental

\* One scanner, and _publish_report when it has something.
RunStage ==
  /\ pc = "scan" /\ stage <= Len(Stages) /\ Stages[stage] # "collect"
  /\ stage' = stage + 1
  /\ \E o \in Runner(Stages[stage]) :
       LET p == ParserOf(Stages[stage])
           report == [reports EXCEPT ![p] = @ \cup o.parts]
       IN /\ IF o.end = "on" THEN UNCHANGED faults ELSE Fault
          /\ reports' = report
          /\ owed' = owed \cup (IF target = "vat" THEN Produced(p, o.parts) ELSE {})
          /\ \/ /\ Publishes(o)
                /\ pc' = "post" /\ post' = [parser |-> p, left |-> report[p], then |-> o.end]
                /\ UNCHANGED <<queue, dirs, exit>>
             \/ /\ ~Publishes(o)
                /\ CASE o.end = "on"    -> UNCHANGED <<pc, queue, dirs, exit>>
                     [] o.end = "error" -> Failing(report)
                     [] OTHER           -> Exit("raised") /\ UNCHANGED queue
                /\ UNCHANGED post
  /\ UNCHANGED <<options, path, found, tries, gated, gating_exit, refused>>

\* extract_gating_findings knows nothing of OpenSCAP's reports and of SBOMs.
Exceeding ==
  {FALSE} \cup {TRUE : p \in {q \in Parsers \ {"openscap", "openscap_oval", "cyclonedx"} :
                               reports[q] # {}}}

\* gating_exit keeps the first failure.
Verdict(bad) == IF bad THEN 1 ELSE gating_exit

\* The unwrapped bundles are removed after the last scanner; then the findings
\* are held against --fail-on.
Gate ==
  /\ pc = "scan" /\ stage > Len(Stages)
  /\ \E bad \in Exceeding :
       /\ gating_exit' = Verdict(bad)
       /\ gated' = IF bad THEN gated \cup {path} ELSE gated
  /\ \/ target # "unset" /\ pc' = "push" /\ dirs' = dirs \ {"wraps"} /\ UNCHANGED exit
     \/ target = "unset" /\ exit' = "error" /\ pc' = "end" /\ dirs' = {}
  /\ queue' = IF target = "vat" THEN {p \in Parsers : reports[p] # {}} ELSE {}
  /\ UNCHANGED <<options, path, scan, post, tries, owed, refused, faults>>

----------------------------------------------------------------------------
(* Sending the reports.                                                    *)

\* _push_report: Trivy's results in batches, the lists item by item, the rest
\* in one piece.
Piece(p, S) ==
  IF p \in {"openscap", "openscap_oval", "cyclonedx"} THEN {CHOOSE x \in S : TRUE}
  ELSE IF p = "trivy" /\ Cardinality(S) > Batch
       THEN CHOOSE T \in SUBSET S : Cardinality(T) = Batch
       ELSE S

\* Mutant: only the first report is sent.
RestDropped(p) == {}

\* for p, report in all_reports.items()
Rest(p) == queue \ {p}

SendNext ==
  /\ pc \in {"push", "failing"} /\ queue # {}
  /\ LET p == CHOOSE q \in queue : TRUE
     IN /\ queue' = Rest(p)
        /\ \/ /\ p \notin keyless /\ pc' = "post"
              /\ post' = [parser |-> p, left |-> reports[p], then |-> pc]
              /\ UNCHANGED <<exit, dirs>>
           \/ /\ p \in keyless /\ UNCHANGED post
              /\ IF cmd = "archive" \/ pc = "failing"
                 THEN UNCHANGED <<pc, exit, dirs>>      \* not sent, and not told
                 ELSE Exit("error")
  /\ UNCHANGED <<options, path, scan, tries, gated, gating_exit, owed, refused, faults>>

\* Where a report that was sent, or the loop of "failed" ones, goes on.
Resume(then) ==
  CASE then = "on"                   -> pc' = "scan" /\ UNCHANGED <<queue, exit, dirs>>
    [] then \in {"push", "failing"}  -> pc' = then /\ UNCHANGED <<queue, exit, dirs>>
    [] OTHER                         -> Failing(reports)

Delivered ==
  /\ pc = "post" /\ post.parser \notin keyless
  /\ LET b == Piece(post.parser, post.left)
     IN /\ owed' = owed \ Produced(post.parser, b)
        /\ IF post.left = b THEN Resume(post.then) /\ post' = NoPost
           ELSE post' = [post EXCEPT !.left = @ \ b] /\ UNCHANGED <<pc, queue, exit, dirs>>
  /\ UNCHANGED <<options, path, scan, tries, gated, gating_exit, refused, faults>>

\* VATClientError: the last of ingest's retries fails, or there is no key.  In
\* the loop of "failed" reports it is ignored.  A connection that is cut while
\* ingest waits for the answer raises what nobody catches.
Refused ==
  /\ pc = "post" /\ post' = NoPost /\ refused' = TRUE
  /\ IF post.parser \in keyless THEN UNCHANGED faults ELSE Fault
  /\ \/ IF post.then = "failing" THEN pc' = "failing" /\ UNCHANGED <<exit, dirs>> ELSE Exit("error")
     \/ post.parser \notin keyless /\ Exit("raised")
  /\ UNCHANGED <<options, path, scan, queue, tries, gated, gating_exit, owed>>

\* The path is done: the archive's tree goes, and the next path is up.
EndPath ==
  /\ pc = "push" /\ queue = {}
  /\ IF path < paths THEN pc' = "next" /\ dirs' = dirs \ {"tree"} /\ UNCHANGED exit
                     ELSE Exit("done")
  /\ UNCHANGED <<options, path, scan, queue, post, tries, gated, gating_exit, owed, refused, faults>>

\* The loop of "failed" reports is over.
EndFailing ==
  /\ pc = "failing" /\ queue = {}
  /\ Exit("error")
  /\ UNCHANGED <<options, path, scan, queue, post, tries, gated, gating_exit, owed, refused, faults>>

----------------------------------------------------------------------------
(* The image command.                                                      *)

ImageScan ==
  /\ pc = "next" /\ cmd = "image"
  /\ \E o \in {Gives({Root}), Fails("error"), Fails("raised")} :
       /\ IF o.end = "on" THEN UNCHANGED faults ELSE Fault
       /\ owed' = IF target = "vat" THEN Produced("trivy", o.parts) ELSE {}
       /\ \/ o.end # "on" /\ Exit(o.end)
          \/ o.end = "on" /\ target = "dry" /\ Exit("done")
          \/ o.end = "on" /\ target = "unset" /\ Exit("error")
          \/ o.end = "on" /\ target = "vat" /\ "trivy" \in keyless /\ Exit("error")
          \/ /\ o.end = "on" /\ target = "vat" /\ "trivy" \notin keyless
             /\ pc' = "upload" /\ UNCHANGED <<exit, dirs>>
  /\ UNCHANGED <<options, path, scan, queue, post, tries, gated, gating_exit, refused>>

ImageSent ==
  /\ pc = "upload" /\ owed' = {} /\ Exit("done")
  /\ UNCHANGED <<options, path, scan, queue, post, tries, gated, gating_exit, refused, faults>>

ImageRefused ==
  /\ pc = "upload" /\ Fault /\ tries' = tries + 1
  /\ \/ tries' = 3 /\ Exit("error") /\ refused' = TRUE
     \/ tries' < 3 /\ UNCHANGED <<pc, exit, dirs, refused>>
     \/ Exit("raised") /\ refused' = TRUE       \* a cut connection
  /\ UNCHANGED <<options, path, scan, queue, post, gated, gating_exit, owed>>

Ended == pc = "end" /\ UNCHANGED vars

Next ==
  \/ StartPath \/ Collect \/ RunStage \/ Gate
  \/ SendNext \/ Delivered \/ Refused \/ EndPath \/ EndFailing
  \/ ImageScan \/ ImageSent \/ ImageRefused \/ Ended

Spec == Init /\ [][Next]_vars

----------------------------------------------------------------------------
\* What follows when a report has been sent: the next scanner, or the error its
\* scanner ended with; the next report, of a path or of a failed scan.
Post == [parser : Parsers, left : SUBSET Parts, then : {"on", "error", "push", "failing"}]

TypeOK ==
  /\ cmd \in {"scan", "archive", "image"} /\ paths \in 1..MaxPaths
  /\ target \in {"vat", "dry", "unset"} /\ keyless \subseteq Keyless
  /\ pc \in {"next", "scan", "push", "failing", "post", "upload", "end"}
  /\ (pc = "end") = (exit # "none") /\ exit \in {"none", "done", "error", "raised"}
  /\ path \in 0..paths /\ stage \in 1..(Len(Stages) + 1) /\ tries \in 0..3
  /\ found \subseteq Images /\ reports \in [Parsers -> SUBSET Parts] /\ queue \subseteq Parsers
  /\ owed \subseteq (0..MaxPaths) \X Parsers \X Parts
  /\ dirs \subseteq {"tree", "wraps"} /\ gated \subseteq 1..MaxPaths /\ gating_exit \in {0, 1}
  /\ (pc = "post") = (post # NoPost) /\ post \in Post \cup {NoPost}
  /\ refused \in BOOLEAN /\ faults \in 0..MaxFaults

\* A command that ends of itself has given VAT every part of every report of
\* every path, batches and lists included, whatever gating says of them; the
\* excuse is a source without a key, which scan-archive passes over in silence.
DoneMeansSent ==
  exit = "done" => \A o \in owed : cmd = "archive" /\ o[2] \in keyless

\* What a scan that fails half-way has produced is not lost with it: the paths
\* before have all been sent, and of a single directory every finished
\* scanner's report has, unless VAT refused one.
WorkKept ==
  exit \in {"error", "raised"} =>
     \A o \in owed : \/ cmd = "archive" /\ o[2] \in keyless
                     \/ o[1] = path /\ (Incremental => refused)

\* No end of scan-archive leaves the tree it extracted, and none that is not
\* a failure leaves an unwrapped bundle.
TempRemoved == exit # "none" => "tree" \notin dirs /\ (exit = "done" => dirs = {})

\* A pipeline that gates on the exit code never sees 0 when some path's
\* findings exceed --fail-on, whichever path that was.
GateHolds == exit = "done" => (gating_exit = 0 <=> gated = {})
=============================================================================
