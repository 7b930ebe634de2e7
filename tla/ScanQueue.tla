----------------------------- MODULE ScanQueue -----------------------------
(***************************************************************************)
(* Event-driven scanning.  The operator watches pods, remembers in memory  *)
(* which images it has seen (Tracker) and creates one ScanRequest for each *)
(* new one; workers claim the requests, pull and scan the image and send   *)
(* the reports to VAT; a backstop lists all pods now and then, and deletes *)
(* requests that are finished.                                             *)
(*                                                                         *)
(* A request is named after its dedup key, the digest, or the reference    *)
(* while the image is not pulled yet.  Kubernetes refuses a status update  *)
(* made from an older version of the object: that is the claim.            *)
(***************************************************************************)
EXTENDS Naturals, FiniteSets

CONSTANTS
  Pods,          \* pod UIDs: created once, deleted once
  Refs, Digests, \* image references and contents
  NoDigest, NoRequest,
  Workers,
  FirstRegistry, \* where the references point at first
  MaxAttempts,   \* VAT_SCAN_QUEUE_MAX_ATTEMPTS
  MaxFaults      \* bound on failures, losses, crashes, restarts and moved tags

Keys == Refs \cup Digests

ASSUME ScanQueueAssumption ==
  /\ IsFiniteSet(Pods) /\ Refs # {} /\ Refs \cap Digests = {}
  /\ NoDigest \notin Keys /\ FirstRegistry \in [Refs -> Digests]
  /\ MaxAttempts \in Nat \ {0} /\ MaxFaults \in Nat

VARIABLES
  registry,  \* the content a reference names now
  pod,       \* the pods: phase, reference, content, whether its digest shows
  pending,   \* pods with a change the informer has not delivered
  known,     \* Tracker.known: keys taken as scanned
  refs,      \* Tracker.refs: live pods counted for a key
  podKeys,   \* Tracker.podKeys
  listed,    \* what the backstop has listed and not yet observed
  request,   \* the ScanRequests
  worker,    \* the scan-queue passes
  vat,       \* digests VAT has data for
  scanned,   \* contents that were scanned and ingested completely
  lost,      \* contents the queue has dropped, and why
  faults

vars == <<registry, pod, pending, known, refs, podKeys, listed, request, worker, vat,
          scanned, lost, faults>>

operator == <<known, refs, podKeys, listed>>

Pod     == [phase : {"none", "live", "gone"}, ref : Refs, image : Digests, shown : BOOLEAN]
Request == [phase : {"pending", "scanning", "done", "failed"}, attempts : 0..MaxAttempts,
            ready : BOOLEAN, ref : Refs, digest : Digests \cup {NoDigest}]
Listing == [pod : Pods, ref : Refs, digest : Digests \cup {NoDigest}]
Pass    == [pc : {"idle", "pass", "scan"}, items : SUBSET Keys, name : Keys \cup {NoRequest}]
Why     == {"create", "stuck", "exhausted", "moved"}

ASSUME RequestAssumption == NoRequest \notin Request \cup Keys

Fault == faults < MaxFaults /\ faults' = faults + 1

NewPod    == [phase |-> "none", ref |-> CHOOSE r \in Refs : TRUE,
              image |-> CHOOSE d \in Digests : TRUE, shown |-> FALSE]
NewWorker == [pc |-> "idle", items |-> {}, name |-> NoRequest]

Live == {p \in Pods : pod[p].phase = "live"}

Init ==
  /\ registry = FirstRegistry
  /\ pod = [p \in Pods |-> NewPod] /\ pending = {}
  /\ known = {} /\ refs = [k \in Keys |-> 0] /\ podKeys = [p \in Pods |-> {}] /\ listed = {}
  /\ request = [k \in Keys |-> NoRequest]
  /\ worker = [w \in Workers |-> NewWorker]
  /\ vat = {} /\ scanned = {} /\ lost = {} /\ faults = 0

----------------------------------------------------------------------------
(* The cluster, external: pods come and go, tags move.                     *)

CreatePod(r) ==
  /\ \E p \in Pods : pod[p].phase = "none"
  /\ LET p == CHOOSE q \in Pods : pod[q].phase = "none"
     IN /\ pod' = [pod EXCEPT ![p] = [phase |-> "live", ref |-> r, image |-> registry[r], shown |-> FALSE]]
        /\ pending' = pending \cup {p}
  /\ UNCHANGED <<registry, operator, request, worker, vat, scanned, lost, faults>>

\* The kubelet has pulled the image: its digest shows in the status.
ShowDigest(p) ==
  /\ pod[p].phase = "live" /\ ~pod[p].shown
  /\ pod' = [pod EXCEPT ![p].shown = TRUE]
  /\ pending' = pending \cup {p}
  /\ UNCHANGED <<registry, operator, request, worker, vat, scanned, lost, faults>>

DeletePod(p) ==
  /\ pod[p].phase = "live"
  /\ pod' = [pod EXCEPT ![p].phase = "gone"]
  /\ pending' = pending \cup {p}
  /\ UNCHANGED <<registry, operator, request, worker, vat, scanned, lost, faults>>

MoveTag(r, d) ==
  /\ d # registry[r] /\ Fault
  /\ registry' = [registry EXCEPT ![r] = d]
  /\ lost' = lost \cup {[image |-> i, why |-> "moved"] : i \in {registry[r], d}}
  /\ UNCHANGED <<pod, pending, operator, request, worker, vat, scanned>>

----------------------------------------------------------------------------
(* The Tracker.                                                            *)

Item(p) == [pod |-> p, ref |-> pod[p].ref,
            digest |-> IF pod[p].shown THEN pod[p].image ELSE NoDigest]
KeysFor(it) == {it.ref} \cup ({it.digest} \ {NoDigest})
NameOf(it)  == IF it.digest = NoDigest THEN it.ref ELSE it.digest
IsFresh(it) == KeysFor(it) \cap known = {}

\* refs counts a pod once for a key; a key it no longer has is released.
Counted(it) ==
  [k \in Keys |-> CASE k \in KeysFor(it) \ podKeys[it.pod] -> refs[k] + 1
                    [] k \in podKeys[it.pod] \ KeysFor(it) -> refs[k] - 1
                    [] OTHER -> refs[k]]

\* release: a key whose count falls to zero is forgotten.
Forgotten(keys) == {k \in keys : refs[k] <= 1}

Observe(it) ==
  /\ refs' = Counted(it)
  /\ known' = (known \cup KeysFor(it)) \ Forgotten(podKeys[it.pod] \ KeysFor(it))
  /\ podKeys' = [podKeys EXCEPT ![it.pod] = KeysFor(it)]

\* Mutant: a claim made from a stale list is not refused.
OutdatedKept(k) == worker

\* Status updates and deletions make what others have listed stale: a claim of
\* it is refused with 409, the worker goes on to the next item, and without one
\* its pass ends.  Nothing else comes of it, so it is dropped at once.
Outdated(k) ==
  [w \in Workers |-> CASE worker[w].pc = "pass" /\ worker[w].items = {k} -> NewWorker
                       [] OTHER -> [worker[w] EXCEPT !.items = @ \ {k}]]

NewRequest(it) == [phase |-> "pending", attempts |-> 0, ready |-> TRUE,
                   ref |-> it.ref, digest |-> it.digest]

ContentOf(it) == IF it.digest = NoDigest THEN registry[it.ref] ELSE it.digest

Drop(image, why) == lost' = lost \cup {[image |-> image, why |-> why]}

\* The key is taken as seen before the request is created, and a failure is
\* only logged.  A request of that name that exists is a dedup hit.
ObserveAndCreate(it) ==
  /\ Observe(it)
  /\ \/ /\ IsFresh(it) /\ request[NameOf(it)] = NoRequest
        /\ request' = [request EXCEPT ![NameOf(it)] = NewRequest(it)]
        /\ UNCHANGED <<lost, faults>>
     \/ /\ IsFresh(it) /\ Fault
        /\ Drop(ContentOf(it), "create")
        /\ UNCHANGED request
     \/ /\ ~(IsFresh(it) /\ request[NameOf(it)] = NoRequest)
        /\ UNCHANGED <<request, lost, faults>>

Deliver(p) ==
  /\ p \in pending /\ pod[p].phase = "live"
  /\ pending' = pending \ {p}
  /\ ObserveAndCreate(Item(p))
  /\ UNCHANGED <<registry, pod, listed, worker, vat, scanned>>

Released(p) == [k \in Keys |-> IF k \in podKeys[p] THEN refs[k] - 1 ELSE refs[k]]

\* forget: the keys of a deleted pod are released.
DeliverDelete(p) ==
  /\ p \in pending /\ pod[p].phase = "gone"
  /\ pending' = pending \ {p}
  /\ refs' = Released(p)
  /\ known' = known \ Forgotten(podKeys[p])
  /\ podKeys' = [podKeys EXCEPT ![p] = {}]
  /\ UNCHANGED <<registry, pod, listed, request, worker, vat, scanned, lost, faults>>

\* An event is lost in a watch gap; a deletion is recovered on relist.
LoseEvent(p) ==
  /\ p \in pending /\ pod[p].phase = "live" /\ Fault
  /\ pending' = pending \ {p}
  /\ UNCHANGED <<registry, pod, operator, request, worker, vat, scanned, lost>>

\* The operator is restarted.  Its memory is warmed with the digests VAT knows,
\* or with none if the call fails, and the informer delivers every pod anew.
Restart ==
  /\ Fault
  /\ known' \in {vat, {}}
  /\ refs' = [k \in Keys |-> 0] /\ podKeys' = [p \in Pods |-> {}] /\ listed' = {}
  /\ pending' = Live
  /\ UNCHANGED <<registry, pod, request, worker, vat, scanned, lost>>

----------------------------------------------------------------------------
(* The backstop, and the informer's resync, which is the same to the       *)
(* tracker: a list is taken and its pods observed one by one.              *)

ListPods ==
  /\ listed = {} /\ Live # {}
  /\ listed' = {Item(p) : p \in Live}
  /\ UNCHANGED <<registry, pod, pending, known, refs, podKeys, request, worker, vat,
                 scanned, lost, faults>>

ObserveListed ==
  /\ listed # {}
  /\ LET it == CHOOSE i \in listed : TRUE
     IN listed' = listed \ {it} /\ ObserveAndCreate(it)
  /\ UNCHANGED <<registry, pod, pending, worker, vat, scanned>>

\* GC: finished, and older than the TTL.
DeleteRequest(k) ==
  /\ request[k] # NoRequest /\ request[k].phase \in {"done", "failed"}
  /\ request' = [request EXCEPT ![k] = NoRequest]
  /\ worker' = Outdated(k)
  /\ UNCHANGED <<registry, pod, pending, operator, vat, scanned, lost, faults>>

----------------------------------------------------------------------------
(* The worker: one pass of cmd_scan_queue after another.                   *)

\* Mutant: a request is tried once.
DueOnce(k) == request[k] # NoRequest /\ request[k].phase = "pending" /\ request[k].attempts = 0

Due(k) == request[k] # NoRequest /\ request[k].phase = "pending" /\ request[k].ready

\* Workers are alike: the one that starts a pass is any idle one.
FirstIdle == IF \E w \in Workers : worker[w].pc = "idle"
             THEN CHOOSE w \in Workers : worker[w].pc = "idle" ELSE CHOOSE w \in Workers : TRUE

ListRequests(w) ==
  /\ w = FirstIdle /\ worker[w].pc = "idle" /\ \E k \in Keys : Due(k)
  /\ LET items == {k \in Keys : Due(k)}
     IN worker' = [worker EXCEPT ![w] = [NewWorker EXCEPT !.pc = "pass", !.items = items]]
  /\ UNCHANGED <<registry, pod, pending, operator, request, vat, scanned, lost, faults>>

\* On to the next item; without one the pass ends.
GoOn(items) ==
  IF items = {} THEN NewWorker
  ELSE [NewWorker EXCEPT !.pc = "pass", !.items = items]

ImageOf(k) == ContentOf([ref |-> request[k].ref, digest |-> request[k].digest])

\* The claim.  After one that fails the pass goes on to the next item, also when
\* only its answer was lost: the request is left claimed then.
Claim(w) ==
  LET k == CHOOSE i \in worker[w].items : TRUE
      left == worker[w].items \ {k}
      next == [worker EXCEPT ![w] = GoOn(left)]
  IN /\ worker[w].pc = "pass"
     /\ \/ /\ request[k] # NoRequest
           /\ request' = [request EXCEPT ![k].phase = "scanning"]
           /\ worker' = [Outdated(k) EXCEPT ![w] =
                [worker[w] EXCEPT !.pc = "scan", !.items = left, !.name = k]]
           /\ UNCHANGED <<lost, faults>>
        \/ Fault /\ worker' = next /\ UNCHANGED <<request, lost>>
        \/ /\ request[k] # NoRequest /\ Fault
           /\ request' = [request EXCEPT ![k].phase = "scanning"]
           /\ worker' = [Outdated(k) EXCEPT ![w] = GoOn(left)]
           /\ Drop(ImageOf(k), "stuck")
     /\ UNCHANGED <<registry, pod, pending, operator, vat, scanned>>

\* After a failure: once more after a backoff, or never again.
Retried(k) ==
  LET tries == request[k].attempts + 1
  IN [request[k] EXCEPT !.attempts = tries, !.ready = FALSE,
        !.phase = IF tries >= MaxAttempts THEN "failed" ELSE "pending"]

\* Pull by digest, or by reference while there is none, scan three times and
\* ingest three reports, then write the status.  When one of the six fails VAT
\* may know the digest all the same.  When the status cannot be written the
\* request stays "scanning", and nobody takes it up again.
Scan(w) ==
  LET k == worker[w].name
      told == {request[k].digest} \ {NoDigest}
  IN /\ worker[w].pc = "scan"
     /\ worker' = [worker EXCEPT ![w] = GoOn(worker[w].items)]
     /\ \/ /\ vat' = vat \cup told /\ scanned' = scanned \cup {ImageOf(k)}
           /\ request' = [request EXCEPT ![k].phase = "done"]
           /\ UNCHANGED <<lost, faults>>
        \/ /\ Fault /\ vat' \in {vat, vat \cup told} /\ UNCHANGED scanned
           /\ request' = [request EXCEPT ![k] = Retried(k)]
           /\ IF request'[k].phase = "failed" THEN Drop(ImageOf(k), "exhausted") ELSE UNCHANGED lost
        \/ /\ Fault /\ vat' = vat \cup told /\ scanned' = scanned \cup {ImageOf(k)}
           /\ Drop(ImageOf(k), "stuck") /\ UNCHANGED request
     /\ UNCHANGED <<registry, pod, pending, operator>>

\* The worker dies: its claim stays.
Crash(w) ==
  /\ worker[w].pc = "scan" /\ Fault
  /\ worker' = [worker EXCEPT ![w] = NewWorker]
  /\ Drop(ImageOf(worker[w].name), "stuck")
  /\ UNCHANGED <<registry, pod, pending, operator, request, vat, scanned>>

\* _backoff_ready: the time since finishedAt suffices.
BackOff(k) ==
  /\ request[k] # NoRequest /\ request[k].phase = "pending" /\ ~request[k].ready
  /\ request' = [request EXCEPT ![k].ready = TRUE]
  /\ UNCHANGED <<registry, pod, pending, operator, worker, vat, scanned, lost, faults>>

Work(w) == ListRequests(w) \/ Claim(w) \/ Scan(w)

Operate == \/ \E p \in Pods : Deliver(p) \/ DeliverDelete(p)
           \/ ListPods
           \/ ObserveListed

Next ==
  \/ \E p \in Pods : \/ ShowDigest(p) \/ DeletePod(p) \/ LoseEvent(p)
  \/ \E r \in Refs : CreatePod(r)
  \/ \E r \in Refs, d \in Digests : MoveTag(r, d)
  \/ Operate \/ Restart
  \/ \E k \in Keys : DeleteRequest(k) \/ BackOff(k)
  \/ \E w \in Workers : Work(w) \/ Crash(w)

Spec == Init /\ [][Next]_vars

\* The informer, the backstop and the workers go on; backoffs end.
FairSpec ==
  /\ Spec
  /\ WF_vars(\E p \in Pods : Deliver(p) \/ DeliverDelete(p))
  /\ WF_vars(ListPods \/ ObserveListed)
  /\ WF_vars(\E w \in Workers : Work(w))
  /\ WF_vars(\E k \in Keys : BackOff(k))

----------------------------------------------------------------------------
TypeOK ==
  /\ registry \in [Refs -> Digests] /\ pod \in [Pods -> Pod] /\ pending \subseteq Pods
  /\ known \subseteq Keys /\ refs \in [Keys -> 0..Cardinality(Pods)]
  /\ podKeys \in [Pods -> SUBSET Keys] /\ listed \subseteq Listing
  /\ request \in [Keys -> Request \cup {NoRequest}] /\ worker \in [Workers -> Pass]
  /\ vat \subseteq Digests /\ scanned \subseteq Digests /\ lost \subseteq [image : Digests, why : Why]
  /\ faults \in 0..MaxFaults

\* Replicas do not make the tracker forget an image, and resyncs do not make it
\* remember one too long: refs counts the pods that have a key, and a key that
\* pods have is known.
CountsPods ==
  \A k \in Keys : LET users == {p \in Pods : k \in podKeys[p]}
                  IN refs[k] = Cardinality(users) /\ (users # {} => k \in known)

\* The optimistic claim: no two workers scan for one request, and what a worker
\* scans for is there and claimed, whatever the garbage collector deletes.
OneClaim ==
  \A w \in Workers : worker[w].pc = "scan" =>
    /\ request[worker[w].name] # NoRequest /\ request[worker[w].name].phase = "scanning"
    /\ \A v \in Workers \ {w} : worker[v].name # worker[w].name

\* The tracker's counts and the workers' claims hold together.
ScanQueueSound == TypeOK /\ CountsPods /\ OneClaim

Lost(why) == {l.image : l \in {m \in lost : m.why \in why}}

\* The image of a pod that stays is scanned, or VAT has data for it, whatever
\* events, calls or operators were lost: unless its request could not be
\* created, was left claimed by a worker that died or never heard that its claim
\* was taken, used up its attempts, or its tag was moved.
LiveImageScanned ==
  \A p \in Pods : []<>(\/ pod[p].phase # "live"
                       \/ pod[p].image \in scanned \cup vat \cup Lost(Why))

\* The same without excuse for a tag that was moved to a new content, once the
\* pod's status shows the digest: the new digest makes a new scan.
MovedTagScanned ==
  \A p \in Pods : []<>(\/ pod[p].phase # "live" \/ ~pod[p].shown
                       \/ pod[p].image \in scanned \cup vat \cup Lost(Why \ {"moved"}))
=============================================================================
