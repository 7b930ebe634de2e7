-------------------------- MODULE ScanQueueProofs --------------------------
(***************************************************************************)
(* Proofs about the scan queue, for any number of pods, images, workers,   *)
(* attempts and faults.                                                    *)
(***************************************************************************)
EXTENDS ScanQueue, TLAPS, FiniteSetTheorems

----------------------------------------------------------------------------
(* The inductive invariant.                                                *)

\* The pods that are counted for a key.
Users(k) == {p \in Pods : k \in podKeys[p]}

\* A request that may still be scanned has an attempt left.
AttemptsInv ==
  \A k \in Keys : request[k] # NoRequest /\ request[k].phase \in {"pending", "scanning"}
    => request[k].attempts < MaxAttempts

\* What a pass has listed and not come to is there and pending still: whatever makes it
\* something else makes the list stale.
ListInv ==
  \A w \in Workers :
    /\ \A k \in worker[w].items : request[k] # NoRequest /\ request[k].phase = "pending"
    /\ worker[w].pc = "idle" => worker[w].items = {}
    /\ worker[w].pc = "pass" => worker[w].items # {}

\* A worker holds a name while it scans, at no other time.
NameInv == \A w \in Workers : worker[w].pc # "scan" <=> worker[w].name = NoRequest

IInv == TypeOK /\ CountsPods /\ AttemptsInv /\ ListInv /\ NameInv /\ OneClaim

----------------------------------------------------------------------------
(* Facts about the types.                                                  *)

\* What the types say of a request that exists.
LEMMA RequestType ==
  ASSUME TypeOK, NEW k \in Keys, request[k] # NoRequest
  PROVE  /\ request[k] \in Request
         /\ request[k].phase \in {"pending", "scanning", "done", "failed"}
         /\ request[k].attempts \in 0..MaxAttempts /\ request[k].ready \in BOOLEAN
         /\ request[k].ref \in Refs /\ request[k].digest \in Digests \cup {NoDigest}
<1>1. request[k] \in Request
  BY DEF TypeOK
<1> QED
  BY <1>1 DEF Request

\* A worker between passes is typed.
LEMMA NewWorkerType == NewWorker \in Pass
BY DEF NewWorker, Pass

\* What a list names is a key, and so is what a request is named after.
LEMMA ListingKeys ==
  ASSUME NEW it \in Listing
  PROVE  /\ KeysFor(it) \subseteq Keys /\ NameOf(it) \in Keys
         /\ it.pod \in Pods /\ it.ref \in Refs /\ it.digest \in Digests \cup {NoDigest}
         /\ NewRequest(it) \in Request /\ NewRequest(it).phase = "pending"
         /\ NewRequest(it).attempts = 0
BY ScanQueueAssumption DEF Listing, KeysFor, NameOf, Keys, NewRequest, Request

\* What a listing holds of a pod is typed.
LEMMA ItemListing ==
  ASSUME TypeOK, NEW p \in Pods
  PROVE  Item(p) \in Listing
<1>1. pod[p] \in Pod
  BY DEF TypeOK
<1> QED
  BY <1>1 DEF Item, Listing, Pod

\* An image reference leads to a digest, its own or that of its tag.
LEMMA ContentDigest ==
  ASSUME TypeOK, NEW r \in Refs, NEW d \in Digests \cup {NoDigest}, NEW it,
         it.ref = r, it.digest = d
  PROVE  ContentOf(it) \in Digests
BY DEF TypeOK, ContentOf

\* A request is for some image.
LEMMA ImageDigest ==
  ASSUME TypeOK, NEW k \in Keys, request[k] # NoRequest
  PROVE  ImageOf(k) \in Digests
<1>1. request[k].ref \in Refs /\ request[k].digest \in Digests \cup {NoDigest}
  BY RequestType
<1> QED
  BY <1>1, ContentDigest DEF ImageOf

\* Drop adds to what was dropped.
LEMMA DropType ==
  ASSUME TypeOK, NEW image \in Digests, NEW why \in Why, Drop(image, why)
  PROVE  lost' \subseteq [image : Digests, why : Why]
BY DEF TypeOK, Drop

\* A counted fault is within the bound.
LEMMA FaultType ==
  ASSUME TypeOK, Fault
  PROVE  faults' \in 0..MaxFaults
BY ScanQueueAssumption DEF TypeOK, Fault

----------------------------------------------------------------------------
(* The tracker.                                                            *)

\* The pods that use a key are finitely many, at most all of them.
LEMMA UsersFinite ==
  ASSUME TypeOK, NEW k \in Keys
  PROVE  /\ IsFiniteSet(Users(k)) /\ Cardinality(Users(k)) \in Nat
         /\ Cardinality(Users(k)) <= Cardinality(Pods) /\ Cardinality(Pods) \in Nat
<1>1. Users(k) \subseteq Pods
  BY DEF Users
<1> QED
  BY <1>1, FS_Subset, FS_CardinalityType, ScanQueueAssumption

\* Adding a pod to the users of a key, or taking one away, moves the count by one.
LEMMA UsersAdd ==
  ASSUME TypeOK, NEW k \in Keys, NEW p \in Pods
  PROVE  /\ p \notin Users(k) => Cardinality(Users(k) \cup {p}) = Cardinality(Users(k)) + 1
         /\ p \in Users(k) => Cardinality(Users(k) \ {p}) = Cardinality(Users(k)) - 1
         /\ p \in Users(k) /\ Cardinality(Users(k)) <= 1 => Users(k) \ {p} = {}
<1>1. IsFiniteSet(Users(k)) /\ Cardinality(Users(k)) \in Nat
  BY UsersFinite
<1>2. /\ Cardinality(Users(k) \cup {p}) =
           IF p \in Users(k) THEN Cardinality(Users(k)) ELSE Cardinality(Users(k)) + 1
  BY <1>1, FS_AddElement
<1>3. /\ IsFiniteSet(Users(k) \ {p})
      /\ Cardinality(Users(k) \ {p}) =
           IF p \in Users(k) THEN Cardinality(Users(k)) - 1 ELSE Cardinality(Users(k))
  BY <1>1, FS_RemoveElement
<1>4. ASSUME p \in Users(k), Cardinality(Users(k)) <= 1 PROVE Users(k) \ {p} = {}
  <2>1. Cardinality(Users(k)) # 0
    BY <1>1, <1>4, FS_EmptySet
  <2>2. Cardinality(Users(k) \ {p}) = 0
    BY <1>1, <1>3, <1>4, <2>1
  <2> QED
    BY <1>3, <2>2, FS_EmptySet
<1> QED
  BY <1>2, <1>3, <1>4

\* The counts, stated with Users, and the types that follow from them.
LEMMA CountsUsers ==
  CountsPods <=> \A k \in Keys :
                   /\ refs[k] = Cardinality(Users(k))
                   /\ Users(k) # {} => k \in known
BY DEF CountsPods, Users

\* One pod's keys change from what they were to what they are now: release and retain, in
\* Observe and, with no key left, in DeliverDelete.
LEMMA TrackerStep ==
  ASSUME TypeOK, CountsPods, NEW p \in Pods, NEW new \in SUBSET Keys,
         refs' = [k \in Keys |-> CASE k \in new \ podKeys[p] -> refs[k] + 1
                                  [] k \in podKeys[p] \ new -> refs[k] - 1
                                  [] OTHER -> refs[k]],
         known' = (known \cup new) \ Forgotten(podKeys[p] \ new),
         podKeys' = [podKeys EXCEPT ![p] = new]
  PROVE  /\ refs' \in [Keys -> 0..Cardinality(Pods)] /\ known' \subseteq Keys
         /\ podKeys' \in [Pods -> SUBSET Keys] /\ CountsPods'
<1>1. podKeys \in [Pods -> SUBSET Keys] /\ known \subseteq Keys
  BY DEF TypeOK
<1>2. podKeys' \in [Pods -> SUBSET Keys] /\ known' \subseteq Keys
  BY <1>1
<1>3. ASSUME NEW k \in Keys
      PROVE  /\ refs'[k] = Cardinality(Users(k)') /\ (Users(k)' # {} => k \in known')
             /\ refs'[k] \in 0..Cardinality(Pods)
  <2>0. /\ refs[k] = Cardinality(Users(k)) /\ (Users(k) # {} => k \in known)
        /\ refs[k] \in Nat
    BY CountsUsers, UsersFinite
  <2>1. Users(k)' \subseteq Pods
    BY DEF Users
  <2>2. IsFiniteSet(Users(k)') /\ Cardinality(Users(k)') \in 0..Cardinality(Pods)
    BY <2>1, FS_Subset, FS_CardinalityType, ScanQueueAssumption
  <2>3. CASE k \in new \ podKeys[p]
    <3>1. Users(k)' = Users(k) \cup {p} /\ p \notin Users(k)
      BY <1>1, <2>3 DEF Users
    <3>2. k \in known' /\ refs'[k] = refs[k] + 1
      BY <2>3 DEF Forgotten
    <3>3. Cardinality(Users(k)') = Cardinality(Users(k)) + 1
      BY <3>1, UsersAdd
    <3> QED
      BY <2>0, <2>2, <3>2, <3>3
  <2>4. CASE k \in podKeys[p] \ new
    <3>1. Users(k)' = Users(k) \ {p} /\ p \in Users(k)
      BY <1>1, <2>4 DEF Users
    <3>2. refs'[k] = refs[k] - 1
      BY <2>4
    <3>3. Users(k)' # {} => k \in known'
      <4>1. CASE refs[k] <= 1
        <5>1. p \in Users(k) /\ Cardinality(Users(k)) <= 1
          BY <2>0, <3>1, <4>1
        <5>2. Users(k) \ {p} = {}
          BY <5>1, UsersAdd
        <5> QED
          BY <3>1, <5>2
      <4>2. CASE ~(refs[k] <= 1)
        BY <2>0, <3>1, <4>2 DEF Forgotten
      <4> QED
        BY <4>1, <4>2
    <3> QED
      BY <2>0, <2>2, <3>1, <3>2, <3>3, UsersAdd
  <2>5. CASE ~(k \in new \ podKeys[p]) /\ ~(k \in podKeys[p] \ new)
    <3>1. Users(k)' = Users(k)
      BY <1>1, <2>5 DEF Users
    <3>2. refs'[k] = refs[k] /\ (k \in known => k \in known')
      BY <2>5 DEF Forgotten
    <3> QED
      BY <2>0, <2>2, <3>1, <3>2
  <2> QED
    BY <2>3, <2>4, <2>5
<1>4. refs' \in [Keys -> 0..Cardinality(Pods)]
  BY <1>3
<1>5. CountsPods'
  BY <1>3 DEF CountsPods, Users
<1> QED
  BY <1>2, <1>4, <1>5

\* Observe keeps the counts, whatever pod it sees and however old the sight of it is.
LEMMA ObserveKeeps ==
  ASSUME TypeOK, CountsPods, NEW it \in Listing, Observe(it)
  PROVE  /\ refs' \in [Keys -> 0..Cardinality(Pods)] /\ known' \subseteq Keys
         /\ podKeys' \in [Pods -> SUBSET Keys] /\ CountsPods'
<1>1. it.pod \in Pods /\ KeysFor(it) \in SUBSET Keys
  BY ListingKeys
<1>2. refs' = [k \in Keys |-> CASE k \in KeysFor(it) \ podKeys[it.pod] -> refs[k] + 1
                                [] k \in podKeys[it.pod] \ KeysFor(it) -> refs[k] - 1
                                [] OTHER -> refs[k]]
  BY DEF Observe, Counted
<1>3. /\ known' = (known \cup KeysFor(it)) \ Forgotten(podKeys[it.pod] \ KeysFor(it))
      /\ podKeys' = [podKeys EXCEPT ![it.pod] = KeysFor(it)]
  BY DEF Observe
<1> HIDE DEF KeysFor
<1> QED
  BY <1>1, <1>2, <1>3, TrackerStep

\* Forgetting a deleted pod lowers the counts of its keys, and of no other.
LEMMA ForgetKeeps ==
  ASSUME TypeOK, CountsPods, NEW p \in Pods, DeliverDelete(p)
  PROVE  /\ refs' \in [Keys -> 0..Cardinality(Pods)] /\ known' \subseteq Keys
         /\ podKeys' \in [Pods -> SUBSET Keys] /\ CountsPods'
<1>1. refs' = [k \in Keys |-> CASE k \in {} \ podKeys[p] -> refs[k] + 1
                                [] k \in podKeys[p] \ {} -> refs[k] - 1
                                [] OTHER -> refs[k]]
  <2>1. ASSUME NEW k \in Keys
        PROVE  (IF k \in podKeys[p] THEN refs[k] - 1 ELSE refs[k]) =
                 CASE k \in {} \ podKeys[p] -> refs[k] + 1
                   [] k \in podKeys[p] \ {} -> refs[k] - 1
                   [] OTHER -> refs[k]
    OBVIOUS
  <2> QED
    BY <2>1 DEF DeliverDelete, Released
<1>2. known' = (known \cup {}) \ Forgotten(podKeys[p] \ {})
  BY DEF DeliverDelete, Forgotten
<1>3. podKeys' = [podKeys EXCEPT ![p] = {}]
  BY DEF DeliverDelete
<1> QED
  BY <1>1, <1>2, <1>3, TrackerStep

\* A request that is created is pending, with all its attempts, under a name that no worker
\* has listed or claimed.
LEMMA CreateKeeps ==
  ASSUME IInv, NEW it \in Listing, ObserveAndCreate(it), UNCHANGED worker
  PROVE  /\ request' \in [Keys -> Request \cup {NoRequest}]
         /\ lost' \subseteq [image : Digests, why : Why] /\ faults' \in 0..MaxFaults
         /\ AttemptsInv' /\ ListInv' /\ NameInv' /\ OneClaim'
<1>0. TypeOK /\ AttemptsInv /\ ListInv /\ NameInv /\ OneClaim
  BY DEF IInv
<1>1. /\ NameOf(it) \in Keys /\ NewRequest(it) \in Request
      /\ NewRequest(it).phase = "pending" /\ NewRequest(it).attempts = 0
  BY ListingKeys
<1>2. CASE /\ request[NameOf(it)] = NoRequest
           /\ request' = [request EXCEPT ![NameOf(it)] = NewRequest(it)]
           /\ UNCHANGED <<lost, faults>>
  <2>1. /\ request'[NameOf(it)] = NewRequest(it)
        /\ \A k \in Keys : k # NameOf(it) => request'[k] = request[k]
    BY <1>0, <1>1, <1>2 DEF TypeOK
  <2>2. request' \in [Keys -> Request \cup {NoRequest}]
    BY <1>0, <1>1, <1>2 DEF TypeOK
  <2>3. AttemptsInv'
    BY <1>0, <1>1, <2>1, ScanQueueAssumption DEF AttemptsInv
  <2>4. ListInv'
    <3>1. \A w \in Workers : worker[w].items \subseteq Keys
      BY <1>0 DEF TypeOK, Pass
    <3> QED
      BY <1>0, <1>2, <2>1, <3>1 DEF ListInv
  <2>5. NameInv'
    BY <1>0 DEF NameInv
  <2>6. OneClaim'
    <3>1. \A w \in Workers : worker[w].pc = "scan" => worker[w].name \in Keys
      BY <1>0 DEF TypeOK, Pass, NameInv
    <3> QED
      BY <1>0, <1>2, <2>1, <3>1 DEF OneClaim
  <2> QED
    BY <1>0, <1>2, <2>2, <2>3, <2>4, <2>5, <2>6 DEF TypeOK
<1>3. CASE UNCHANGED request
  <2>1. AttemptsInv' /\ ListInv' /\ NameInv' /\ OneClaim'
    BY <1>0, <1>3 DEF AttemptsInv, ListInv, NameInv, OneClaim
  <2>2. CASE Fault /\ Drop(ContentOf(it), "create")
    <3>1. ContentOf(it) \in Digests
      BY <1>0, ListingKeys, ContentDigest
    <3>2. lost' \subseteq [image : Digests, why : Why]
      BY <1>0, <2>2, <3>1, DropType DEF Why
    <3> QED
      BY <1>0, <1>3, <2>1, <2>2, <3>2, FaultType DEF TypeOK
  <2>3. CASE UNCHANGED <<lost, faults>>
    BY <1>0, <1>3, <2>1, <2>3 DEF TypeOK
  <2> QED
    BY <1>2, <2>2, <2>3 DEF ObserveAndCreate
<1> QED
  BY <1>2, <1>3 DEF ObserveAndCreate

\* Both together: a delivery, or an observation of what was listed.
LEMMA ObserveStep ==
  ASSUME IInv, NEW it \in Listing, ObserveAndCreate(it),
         UNCHANGED <<registry, pod, worker, vat, scanned>>,
         pending' \subseteq Pods, listed' \subseteq Listing
  PROVE  IInv'
<1>0. TypeOK /\ CountsPods
  BY DEF IInv
<1>1. Observe(it)
  BY DEF ObserveAndCreate
<1>2. /\ refs' \in [Keys -> 0..Cardinality(Pods)] /\ known' \subseteq Keys
      /\ podKeys' \in [Pods -> SUBSET Keys] /\ CountsPods'
  BY <1>0, <1>1, ObserveKeeps
<1>3. /\ request' \in [Keys -> Request \cup {NoRequest}]
      /\ lost' \subseteq [image : Digests, why : Why] /\ faults' \in 0..MaxFaults
      /\ AttemptsInv' /\ ListInv' /\ NameInv' /\ OneClaim'
  BY CreateKeeps
<1>4. TypeOK'
  BY <1>0, <1>2, <1>3 DEF TypeOK
<1> QED
  BY <1>2, <1>3, <1>4 DEF IInv

----------------------------------------------------------------------------
(* The requests and the workers.                                           *)

\* What is stale is taken off every list, and nothing else changes.
LEMMA OutdatedFacts ==
  ASSUME TypeOK, ListInv, NameInv, NEW k \in Keys
  PROVE  /\ Outdated(k) \in [Workers -> Pass]
         /\ \A w \in Workers :
              /\ Outdated(k)[w].items = worker[w].items \ {k}
              /\ Outdated(k)[w].name = worker[w].name
              /\ Outdated(k)[w].pc = "scan" <=> worker[w].pc = "scan"
              /\ Outdated(k)[w].pc = "idle" => Outdated(k)[w].items = {}
              /\ Outdated(k)[w].pc = "pass" => Outdated(k)[w].items # {}
<1>1. ASSUME NEW w \in Workers
      PROVE  /\ Outdated(k)[w] \in Pass
             /\ Outdated(k)[w].items = worker[w].items \ {k}
             /\ Outdated(k)[w].name = worker[w].name
             /\ Outdated(k)[w].pc = "scan" <=> worker[w].pc = "scan"
             /\ Outdated(k)[w].pc = "idle" => Outdated(k)[w].items = {}
             /\ Outdated(k)[w].pc = "pass" => Outdated(k)[w].items # {}
  <2>0. worker[w] \in Pass
    BY DEF TypeOK
  <2>1. CASE worker[w].pc = "pass" /\ worker[w].items = {k}
    <3>1. Outdated(k)[w] = NewWorker
      BY <2>1 DEF Outdated
    <3>2. worker[w].name = NoRequest
      BY <2>1 DEF NameInv
    <3> QED
      BY <2>1, <3>1, <3>2, NewWorkerType DEF NewWorker
  <2>2. CASE ~(worker[w].pc = "pass" /\ worker[w].items = {k})
    <3>1. Outdated(k)[w] = [worker[w] EXCEPT !.items = @ \ {k}]
      BY <2>2 DEF Outdated
    <3>2. /\ Outdated(k)[w] \in Pass
          /\ Outdated(k)[w].items = worker[w].items \ {k}
          /\ Outdated(k)[w].name = worker[w].name /\ Outdated(k)[w].pc = worker[w].pc
      BY <2>0, <3>1 DEF Pass
    <3>3. /\ worker[w].pc = "idle" => worker[w].items = {}
          /\ worker[w].pc = "pass" => worker[w].items # {}
      BY DEF ListInv
    <3> QED
      BY <2>2, <3>2, <3>3
  <2> QED
    BY <2>1, <2>2
<1>2. Outdated(k) \in [Workers -> Pass]
  BY <1>1 DEF Outdated
<1> QED
  BY <1>1, <1>2

\* On to the next item: the worker lets go of its name.
LEMMA GoOnFacts ==
  ASSUME NEW items \in SUBSET Keys
  PROVE  /\ GoOn(items) \in Pass /\ GoOn(items).items = items
         /\ GoOn(items).name = NoRequest /\ GoOn(items).pc # "scan"
         /\ GoOn(items).pc = "idle" => items = {}
         /\ GoOn(items).pc = "pass" => items # {}
BY DEF GoOn, NewWorker, Pass

\* The three claims about workers, one worker at a time.
Sane(w) ==
  /\ \A k \in worker[w].items : request[k] # NoRequest /\ request[k].phase = "pending"
  /\ worker[w].pc = "idle" => worker[w].items = {}
  /\ worker[w].pc = "pass" => worker[w].items # {}
  /\ worker[w].pc # "scan" <=> worker[w].name = NoRequest
  /\ worker[w].pc = "scan" =>
       request[worker[w].name] # NoRequest /\ request[worker[w].name].phase = "scanning"

Apart == \A w, v \in Workers : worker[w].pc = "scan" /\ v # w => worker[v].name # worker[w].name

\* The claims about workers, split into one for each worker and one for each two.
LEMMA SaneWorkers == ListInv /\ NameInv /\ OneClaim <=> Apart /\ \A w \in Workers : Sane(w)
BY DEF ListInv, NameInv, OneClaim, Sane, Apart

\* What the types say of a worker.
LEMMA WorkerType ==
  ASSUME TypeOK, NEW w \in Workers
  PROVE  /\ worker[w] \in Pass /\ worker[w].items \in SUBSET Keys
         /\ worker[w].pc \in {"idle", "pass", "scan"} /\ worker[w].name \in Keys \cup {NoRequest}
BY DEF TypeOK, Pass

\* GC: the garbage collector may delete what is finished, and that is on no list.
LEMMA DeleteRequestKeeps ==
  ASSUME IInv, NEW k \in Keys, DeleteRequest(k)
  PROVE  IInv'
<1>0. TypeOK /\ CountsPods /\ AttemptsInv /\ ListInv /\ NameInv /\ OneClaim
  BY DEF IInv
<1>1. /\ request[k] # NoRequest /\ request[k].phase \in {"done", "failed"}
      /\ request' = [request EXCEPT ![k] = NoRequest] /\ worker' = Outdated(k)
      /\ UNCHANGED <<registry, pod, pending, operator, vat, scanned, lost, faults>>
  BY DEF DeleteRequest
<1>2. request'[k] = NoRequest /\ \A j \in Keys : j # k => request'[j] = request[j]
  BY <1>0, <1>1 DEF TypeOK
<1>3. TypeOK'
  BY <1>0, <1>1, OutdatedFacts DEF TypeOK, operator
<1>4. CountsPods' /\ AttemptsInv'
  BY <1>0, <1>1, <1>2 DEF CountsPods, AttemptsInv, operator
<1>5. ASSUME NEW w \in Workers PROVE Sane(w)'
  <2>1. Sane(w)
    BY <1>0, SaneWorkers
  <2>2. /\ worker'[w].items = worker[w].items \ {k} /\ worker'[w].name = worker[w].name
        /\ worker'[w].pc = "scan" <=> worker[w].pc = "scan"
        /\ worker'[w].pc = "idle" => worker'[w].items = {}
        /\ worker'[w].pc = "pass" => worker'[w].items # {}
    BY <1>0, <1>1, OutdatedFacts
  <2>3. worker[w].items \subseteq Keys /\ worker[w].name \in Keys \cup {NoRequest}
    BY <1>0, WorkerType
  <2>4. worker[w].pc = "scan" => worker[w].name # k /\ worker[w].name \in Keys
    BY <1>1, <2>1, <2>3 DEF Sane
  <2> QED
    BY <1>2, <2>1, <2>2, <2>3, <2>4 DEF Sane
<1>6. Apart'
  <2>1. \A w \in Workers : /\ worker'[w].name = worker[w].name
                           /\ worker'[w].pc = "scan" <=> worker[w].pc = "scan"
    BY <1>0, <1>1, OutdatedFacts
  <2> QED
    BY <1>0, <2>1, SaneWorkers DEF Apart
<1>7. (ListInv /\ NameInv /\ OneClaim)'
  BY <1>5, <1>6 DEF ListInv, NameInv, OneClaim, Sane, Apart
<1> QED
  BY <1>3, <1>4, <1>7 DEF IInv

\* A pass begins with what is due.
LEMMA ListRequestsKeeps ==
  ASSUME IInv, NEW w \in Workers, ListRequests(w)
  PROVE  IInv'
<1> DEFINE items == {k \in Keys : Due(k)}
<1>0. TypeOK /\ CountsPods /\ AttemptsInv /\ ListInv /\ NameInv /\ OneClaim
  BY DEF IInv
<1>1. /\ worker[w].pc = "idle" /\ items # {}
      /\ worker' = [worker EXCEPT ![w] = [NewWorker EXCEPT !.pc = "pass", !.items = items]]
      /\ UNCHANGED <<registry, pod, pending, operator, request, vat, scanned, lost, faults>>
  BY DEF ListRequests
<1>2. /\ worker'[w] = [pc |-> "pass", items |-> items, name |-> NoRequest]
      /\ \A v \in Workers : v # w => worker'[v] = worker[v]
  BY <1>0, <1>1 DEF TypeOK, NewWorker
<1>3. TypeOK'
  <2>1. [pc |-> "pass", items |-> items, name |-> NoRequest] \in Pass
    BY DEF Pass
  <2>2. worker' \in [Workers -> Pass]
    BY <1>0, <1>1, <1>2, <2>1 DEF TypeOK
  <2> QED
    BY <1>0, <1>1, <2>2 DEF TypeOK, operator
<1>4. CountsPods' /\ AttemptsInv'
  BY <1>0, <1>1 DEF CountsPods, AttemptsInv, operator
<1>5. ASSUME NEW v \in Workers PROVE Sane(v)'
  <2>1. Sane(v)
    BY <1>0, SaneWorkers
  <2>2. \A k \in items : request[k] # NoRequest /\ request[k].phase = "pending"
    BY DEF Due
  <2>3. CASE v = w
    <3>1. /\ worker'[v].items = items /\ worker'[v].pc = "pass"
          /\ worker'[v].name = NoRequest
      BY <1>2, <2>3
    <3>2. request' = request /\ items # {}
      BY <1>1
    <3> HIDE DEF items
    <3> QED
      BY <2>2, <3>1, <3>2 DEF Sane
  <2>4. CASE v # w
    BY <1>1, <1>2, <2>1, <2>4 DEF Sane
  <2> QED
    BY <2>3, <2>4
<1>6. Apart'
  <2>1. \A u \in Workers : worker[u].pc = "scan" => worker[u].name # NoRequest
    BY <1>0 DEF NameInv
  <2> QED
    BY <1>0, <1>2, <2>1, SaneWorkers DEF Apart
<1>7. (ListInv /\ NameInv /\ OneClaim)'
  BY <1>5, <1>6 DEF ListInv, NameInv, OneClaim, Sane, Apart
<1> QED
  BY <1>3, <1>4, <1>7 DEF IInv

\* The claim: nobody else has listed the request any more, nobody has its name.
LEMMA ClaimKeeps ==
  ASSUME IInv, NEW w \in Workers, Claim(w)
  PROVE  IInv'
<1> DEFINE k    == CHOOSE i \in worker[w].items : TRUE
           left == worker[w].items \ {k}
           claimed == [worker[w] EXCEPT !.pc = "scan", !.items = left, !.name = k]
<1>0. TypeOK /\ CountsPods /\ AttemptsInv /\ ListInv /\ NameInv /\ OneClaim
  BY DEF IInv
<1>1. /\ worker[w].pc = "pass" /\ worker[w].items # {}
      /\ UNCHANGED <<registry, pod, pending, operator, vat, scanned>>
  BY <1>0 DEF Claim, ListInv
<1>2. k \in worker[w].items /\ left \in SUBSET Keys /\ k \in Keys
  BY <1>0, <1>1, WorkerType
<1>3. request[k] # NoRequest /\ request[k].phase = "pending"
  BY <1>0, <1>2 DEF ListInv
<1>4. \A v \in Workers : worker[v].pc = "scan" => worker[v].name \in Keys /\ worker[v].name # k
  <2>1. ASSUME NEW v \in Workers, worker[v].pc = "scan"
        PROVE  worker[v].name \in Keys /\ worker[v].name # k
    <3>1. worker[v].name \in Keys
      BY <1>0, <2>1, WorkerType DEF NameInv
    <3>2. request[worker[v].name].phase = "scanning"
      BY <1>0, <2>1 DEF OneClaim
    <3> QED
      BY <1>3, <3>1, <3>2
  <2> QED
    BY <2>1
<1>5. \/ \E x \in {claimed, GoOn(left)} :
           /\ request' = [request EXCEPT ![k].phase = "scanning"]
           /\ worker' = [Outdated(k) EXCEPT ![w] = x]
           /\ UNCHANGED <<lost, faults>> \/ (Fault /\ Drop(ImageOf(k), "stuck"))
      \/ Fault /\ worker' = [worker EXCEPT ![w] = GoOn(left)] /\ UNCHANGED <<request, lost>>
  BY DEF Claim
<1> HIDE DEF k, left, claimed
<1>6. ASSUME NEW x \in {claimed, GoOn(left)},
             request' = [request EXCEPT ![k].phase = "scanning"],
             worker' = [Outdated(k) EXCEPT ![w] = x],
             UNCHANGED <<lost, faults>> \/ (Fault /\ Drop(ImageOf(k), "stuck"))
      PROVE  IInv'
  <2>1. /\ request'[k] = [request[k] EXCEPT !.phase = "scanning"]
        /\ \A j \in Keys : j # k => request'[j] = request[j]
    BY <1>0, <1>2, <1>6 DEF TypeOK
  <2>2. /\ request'[k] \in Request /\ request'[k].phase = "scanning"
        /\ request'[k].attempts = request[k].attempts /\ request'[k] # NoRequest
    <3>1. request[k] \in Request
      BY <1>0, <1>2, <1>3, RequestType
    <3> QED
      BY <2>1, <3>1, RequestAssumption DEF Request
  <2>3. /\ worker'[w] = x /\ x \in Pass /\ x.items = left
        /\ x.pc = "scan" => x.name = k
        /\ x.pc # "scan" => x.name = NoRequest
        /\ x.pc = "idle" => left = {}
        /\ x.pc = "pass" => left # {}
    <3>1. worker[w] \in Pass
      BY <1>0, WorkerType
    <3>2. w \in DOMAIN Outdated(k)
      BY DEF Outdated
    <3>3. worker'[w] = x
      BY <1>6, <3>2
    <3>4. CASE x = claimed
      <4>1. x = [pc |-> "scan", items |-> left, name |-> k]
        BY <3>1, <3>4 DEF claimed, Pass
      <4> QED
        BY <1>2, <3>3, <4>1 DEF Pass
    <3>5. CASE x = GoOn(left)
      BY <1>2, <3>3, <3>5, GoOnFacts
    <3> QED
      BY <3>4, <3>5
  <2>4. \A v \in Workers : v # w => worker'[v] = Outdated(k)[v]
    BY <1>6 DEF Outdated
  <2>5. TypeOK'
    <3>1. request' \in [Keys -> Request \cup {NoRequest}]
      BY <1>0, <1>2, <1>6, <2>1, <2>2 DEF TypeOK
    <3>2. worker' \in [Workers -> Pass]
      BY <1>0, <1>2, <1>6, <2>3, <2>4, OutdatedFacts
    <3>3. lost' \subseteq [image : Digests, why : Why] /\ faults' \in 0..MaxFaults
      <4>1. CASE UNCHANGED <<lost, faults>>
        BY <1>0, <4>1 DEF TypeOK
      <4>2. CASE Fault /\ Drop(ImageOf(k), "stuck")
        <5>1. ImageOf(k) \in Digests
          BY <1>0, <1>2, <1>3, ImageDigest
        <5> QED
          BY <1>0, <4>2, <5>1, DropType, FaultType DEF Why
      <4> QED
        BY <1>6, <4>1, <4>2
    <3> QED
      BY <1>0, <1>1, <3>1, <3>2, <3>3 DEF TypeOK, operator
  <2>6. CountsPods'
    BY <1>0, <1>1 DEF CountsPods, operator
  <2>7. AttemptsInv'
    BY <1>0, <1>2, <1>3, <2>1, <2>2 DEF AttemptsInv
  <2>8. ASSUME NEW v \in Workers PROVE Sane(v)'
    <3>0. Sane(v) /\ worker[v].items \subseteq Keys
      BY <1>0, SaneWorkers, WorkerType
    <3>1. CASE v = w
      <4>1. \A j \in left : j \in Keys /\ j # k /\ request[j] # NoRequest /\ request[j].phase = "pending"
        BY <1>0, <1>2 DEF ListInv, left
      <4>2. \A j \in left : request'[j] # NoRequest /\ request'[j].phase = "pending"
        BY <2>1, <4>1
      <4>3. worker'[v] = x
        BY <2>3, <3>1
      <4>4. k # NoRequest
        BY <1>2, RequestAssumption
      <4> QED
        BY <2>2, <2>3, <4>2, <4>3, <4>4 DEF Sane
    <3>2. CASE v # w
      <4>1. /\ worker'[v].items = worker[v].items \ {k} /\ worker'[v].name = worker[v].name
            /\ worker'[v].pc = "scan" <=> worker[v].pc = "scan"
            /\ worker'[v].pc = "idle" => worker'[v].items = {}
            /\ worker'[v].pc = "pass" => worker'[v].items # {}
        BY <1>0, <1>2, <2>4, <3>2, OutdatedFacts
      <4> QED
        BY <1>4, <2>1, <3>0, <4>1 DEF Sane
    <3> QED
      BY <3>1, <3>2
  <2>9. Apart'
    <3>1. \A v \in Workers : v # w => /\ worker'[v].name = worker[v].name
                                      /\ worker'[v].pc = "scan" <=> worker[v].pc = "scan"
      BY <1>0, <1>2, <2>4, OutdatedFacts
    <3>2. \A v \in Workers : v # w => worker'[v].name # k
      BY <1>0, <1>2, <1>4, <3>1, RequestAssumption DEF NameInv
    <3>3. Apart
      BY <1>0, SaneWorkers
    <3>4. worker'[w].pc = "scan" => worker'[w].name = k
      BY <2>3
    <3>5. worker'[w].pc # "scan" => worker'[w].name = NoRequest
      BY <2>3
    <3>6. \A v \in Workers : v # w /\ worker'[v].pc = "scan" => worker'[v].name # NoRequest
      BY <1>4, <3>1, RequestAssumption
    <3> QED
      BY <3>1, <3>2, <3>3, <3>4, <3>5, <3>6 DEF Apart
  <2>10. (ListInv /\ NameInv /\ OneClaim)'
    BY <2>8, <2>9 DEF ListInv, NameInv, OneClaim, Sane, Apart
  <2> QED
    BY <2>5, <2>6, <2>7, <2>10 DEF IInv
<1>7. CASE /\ Fault /\ worker' = [worker EXCEPT ![w] = GoOn(left)]
           /\ UNCHANGED <<request, lost>>
  <2>1. /\ worker'[w] = GoOn(left)
        /\ \A v \in Workers : v # w => worker'[v] = worker[v]
    BY <1>0, <1>7 DEF TypeOK
  <2>2. TypeOK'
    <3>1. worker' \in [Workers -> Pass]
      BY <1>0, <1>2, <1>7, GoOnFacts DEF TypeOK
    <3> QED
      BY <1>0, <1>1, <1>7, <3>1, FaultType DEF TypeOK, operator
  <2>3. CountsPods' /\ AttemptsInv'
    BY <1>0, <1>1, <1>7 DEF CountsPods, AttemptsInv, operator
  <2>4. ASSUME NEW v \in Workers PROVE Sane(v)'
    <3>0. Sane(v) /\ Sane(w)
      BY <1>0, SaneWorkers
    <3>1. CASE v = w
      BY <1>2, <1>7, <2>1, <3>0, <3>1, GoOnFacts DEF Sane, left
    <3>2. CASE v # w
      BY <1>7, <2>1, <3>0, <3>2 DEF Sane
    <3> QED
      BY <3>1, <3>2
  <2>5. Apart'
    <3>1. worker'[w].name = NoRequest /\ worker'[w].pc # "scan"
      BY <1>2, <2>1, GoOnFacts
    <3> QED
      BY <1>0, <1>4, <2>1, <3>1, SaneWorkers, RequestAssumption DEF Apart
  <2>6. (ListInv /\ NameInv /\ OneClaim)'
    BY <2>4, <2>5 DEF ListInv, NameInv, OneClaim, Sane, Apart
  <2> QED
    BY <2>2, <2>3, <2>6 DEF IInv
<1> QED
  BY <1>5, <1>6, <1>7

\* A worker lets go of the request it has scanned: it alone had it.
LEMMA LetGo ==
  ASSUME IInv, NEW w \in Workers, worker[w].pc = "scan", NEW items \in SUBSET worker[w].items,
         worker' = [worker EXCEPT ![w] = GoOn(items)],
         \A j \in Keys : j # worker[w].name => request'[j] = request[j]
  PROVE  worker' \in [Workers -> Pass] /\ ListInv' /\ NameInv' /\ OneClaim'
<1>0. TypeOK /\ ListInv /\ NameInv /\ OneClaim /\ Apart /\ \A v \in Workers : Sane(v)
  BY SaneWorkers DEF IInv
<1>1. items \in SUBSET Keys
  BY <1>0, WorkerType
<1>2. /\ worker'[w] = GoOn(items)
      /\ \A v \in Workers : v # w => worker'[v] = worker[v]
  BY <1>0 DEF TypeOK
<1>3. worker' \in [Workers -> Pass]
  BY <1>0, <1>1, GoOnFacts DEF TypeOK
<1>4. request[worker[w].name].phase = "scanning"
  BY <1>0 DEF OneClaim
<1>5. ASSUME NEW v \in Workers PROVE Sane(v)'
  <2>0. Sane(v) /\ worker[v].items \subseteq Keys /\ worker[v].name \in Keys \cup {NoRequest}
    BY <1>0, WorkerType
  <2>1. \A j \in worker[v].items : request'[j] # NoRequest /\ request'[j].phase = "pending"
    BY <1>4, <2>0 DEF Sane
  <2>2. CASE v = w
    <3>1. /\ worker'[v].items = items /\ worker'[v].name = NoRequest /\ worker'[v].pc # "scan"
          /\ worker'[v].pc = "idle" => items = {}
          /\ worker'[v].pc = "pass" => items # {}
      BY <1>1, <1>2, <2>2, GoOnFacts
    <3> QED
      BY <2>1, <2>2, <3>1 DEF Sane
  <2>3. CASE v # w
    <3>1. worker[v].pc = "scan" => worker[v].name # worker[w].name /\ worker[v].name \in Keys
      BY <1>0, <2>0, <2>3 DEF Apart, Sane
    <3> QED
      BY <1>2, <2>0, <2>1, <2>3, <3>1 DEF Sane
  <2> QED
    BY <2>2, <2>3
<1>6. Apart'
  <2>1. worker'[w].name = NoRequest /\ worker'[w].pc # "scan"
    BY <1>1, <1>2, GoOnFacts
  <2>2. \A v \in Workers : worker[v].pc = "scan" => worker[v].name # NoRequest
    BY <1>0 DEF NameInv
  <2> QED
    BY <1>0, <1>2, <2>1, <2>2 DEF Apart
<1>7. (ListInv /\ NameInv /\ OneClaim)'
  BY <1>5, <1>6 DEF ListInv, NameInv, OneClaim, Sane, Apart
<1> QED
  BY <1>3, <1>7

\* After a failure the request has an attempt left, or has failed.
LEMMA RetriedType ==
  ASSUME TypeOK, AttemptsInv, NEW k \in Keys, request[k] # NoRequest,
         request[k].phase = "scanning"
  PROVE  /\ Retried(k) \in Request /\ Retried(k).phase \in {"pending", "failed"}
         /\ Retried(k).phase = "pending" => Retried(k).attempts < MaxAttempts
<1>1. /\ request[k] \in Request /\ request[k].attempts \in Nat
      /\ request[k].attempts < MaxAttempts /\ MaxAttempts \in Nat
  BY RequestType, ScanQueueAssumption DEF AttemptsInv
<1>2. /\ Retried(k) = [request[k] EXCEPT !.attempts = request[k].attempts + 1, !.ready = FALSE,
           !.phase = IF request[k].attempts + 1 >= MaxAttempts THEN "failed" ELSE "pending"]
  BY DEF Retried
<1>3. request[k].attempts + 1 \in 0..MaxAttempts
  BY <1>1
<1>4. Retried(k) \in Request /\ Retried(k).attempts = request[k].attempts + 1
  BY <1>1, <1>2, <1>3 DEF Request
<1>5. Retried(k).phase = IF request[k].attempts + 1 >= MaxAttempts THEN "failed" ELSE "pending"
  BY <1>1, <1>2 DEF Request
<1> QED
  BY <1>1, <1>4, <1>5

\* The end of a scan writes only the request its worker holds.
LEMMA ScanKeeps ==
  ASSUME IInv, NEW w \in Workers, Scan(w)
  PROVE  IInv'
<1> DEFINE k == worker[w].name
           told == {request[k].digest} \ {NoDigest}
<1>0. TypeOK /\ CountsPods /\ AttemptsInv /\ ListInv /\ NameInv /\ OneClaim
  BY DEF IInv
<1>1. /\ worker[w].pc = "scan" /\ worker' = [worker EXCEPT ![w] = GoOn(worker[w].items)]
      /\ UNCHANGED <<registry, pod, pending, operator>>
  BY DEF Scan
<1>2. /\ k \in Keys /\ request[k] # NoRequest /\ request[k].phase = "scanning"
      /\ request[k] \in Request /\ told \subseteq Digests
  <2>1. k \in Keys /\ request[k] # NoRequest /\ request[k].phase = "scanning"
    BY <1>0, <1>1, WorkerType DEF NameInv, OneClaim
  <2> QED
    BY <1>0, <2>1, RequestType
<1>3. ImageOf(k) \in Digests
  BY <1>0, <1>2, ImageDigest
<1>4. /\ vat' \subseteq Digests /\ scanned' \subseteq Digests
      /\ lost' \subseteq [image : Digests, why : Why] /\ faults' \in 0..MaxFaults
  <2>1. vat' \in {vat, vat \cup told} /\ scanned' \in {scanned, scanned \cup {ImageOf(k)}}
    BY DEF Scan
  <2>2. vat' \subseteq Digests /\ scanned' \subseteq Digests
    BY <1>0, <1>2, <1>3, <2>1 DEF TypeOK
  <2>3. \/ UNCHANGED <<lost, faults>>
        \/ Fault /\ (UNCHANGED lost \/ Drop(ImageOf(k), "exhausted") \/ Drop(ImageOf(k), "stuck"))
    BY DEF Scan
  <2>4. CASE UNCHANGED <<lost, faults>>
    BY <1>0, <2>2, <2>4 DEF TypeOK
  <2>5. CASE Fault /\ (UNCHANGED lost \/ Drop(ImageOf(k), "exhausted") \/ Drop(ImageOf(k), "stuck"))
    <3>1. faults' \in 0..MaxFaults
      BY <1>0, <2>5, FaultType
    <3>2. lost' \subseteq [image : Digests, why : Why]
      <4>1. CASE UNCHANGED lost
        BY <1>0, <4>1 DEF TypeOK
      <4>2. "exhausted" \in Why /\ "stuck" \in Why
        BY DEF Why
      <4> HIDE DEF k
      <4> QED
        BY <1>0, <1>3, <2>5, <4>1, <4>2, DropType
    <3> QED
      BY <2>2, <3>1, <3>2
  <2> QED
    BY <2>3, <2>4, <2>5
<1>5. \/ UNCHANGED request
      \/ \E r \in Request :
           /\ request' = [request EXCEPT ![k] = r]
           /\ r.phase = "pending" => r.attempts < MaxAttempts
           /\ r.phase # "scanning"
  <2>1. \/ request' = [request EXCEPT ![k].phase = "done"]
        \/ request' = [request EXCEPT ![k] = Retried(k)]
        \/ UNCHANGED request
    BY DEF Scan
  <2>2. CASE request' = [request EXCEPT ![k].phase = "done"]
    <3>1. /\ [request[k] EXCEPT !.phase = "done"] \in Request
          /\ [request[k] EXCEPT !.phase = "done"].phase = "done"
      BY <1>2 DEF Request
    <3>2. request' = [request EXCEPT ![k] = [request[k] EXCEPT !.phase = "done"]]
      BY <2>2
    <3> HIDE DEF k
    <3> QED
      BY <3>1, <3>2
  <2>3. CASE request' = [request EXCEPT ![k] = Retried(k)]
    BY <1>0, <1>2, <2>3, RetriedType
  <2> QED
    BY <2>1, <2>2, <2>3
<1>6. request' \in [Keys -> Request \cup {NoRequest}] /\ AttemptsInv'
      /\ \A j \in Keys : j # k => request'[j] = request[j]
  <2>1. CASE UNCHANGED request
    BY <1>0, <2>1 DEF TypeOK, AttemptsInv
  <2>2. ASSUME NEW r \in Request, request' = [request EXCEPT ![k] = r],
               r.phase = "pending" => r.attempts < MaxAttempts, r.phase # "scanning"
        PROVE  /\ request' \in [Keys -> Request \cup {NoRequest}] /\ AttemptsInv'
               /\ \A j \in Keys : j # k => request'[j] = request[j]
    <3>1. request'[k] = r /\ \A j \in Keys : j # k => request'[j] = request[j]
      BY <1>0, <1>2, <2>2 DEF TypeOK
    <3>2. request' \in [Keys -> Request \cup {NoRequest}]
      BY <1>0, <1>2, <2>2 DEF TypeOK
    <3>3. AttemptsInv'
      BY <1>0, <2>2, <3>1 DEF AttemptsInv
    <3> QED
      BY <3>1, <3>2, <3>3
  <2> QED
    BY <1>5, <2>1, <2>2
<1>7. worker' \in [Workers -> Pass] /\ ListInv' /\ NameInv' /\ OneClaim'
  BY <1>1, <1>6, LetGo
<1>8. CountsPods'
  BY <1>0, <1>1 DEF CountsPods, operator
<1>9. TypeOK'
  BY <1>0, <1>1, <1>4, <1>6, <1>7 DEF TypeOK, operator
<1> QED
  BY <1>6, <1>7, <1>8, <1>9 DEF IInv

\* A worker that dies leaves its request claimed: it is nobody's from then on.
LEMMA CrashKeeps ==
  ASSUME IInv, NEW w \in Workers, Crash(w)
  PROVE  IInv'
<1>0. TypeOK /\ CountsPods /\ AttemptsInv /\ ListInv /\ NameInv /\ OneClaim
  BY DEF IInv
<1>1. /\ worker[w].pc = "scan" /\ Fault /\ worker' = [worker EXCEPT ![w] = NewWorker]
      /\ Drop(ImageOf(worker[w].name), "stuck")
      /\ UNCHANGED <<registry, pod, pending, operator, request, vat, scanned>>
  BY DEF Crash
<1>2. worker' = [worker EXCEPT ![w] = GoOn({})] /\ request' = request
  BY <1>1 DEF GoOn
<1>3. worker' \in [Workers -> Pass] /\ ListInv' /\ NameInv' /\ OneClaim'
  BY <1>1, <1>2, LetGo
<1>4. ImageOf(worker[w].name) \in Digests
  BY <1>0, <1>1, WorkerType, ImageDigest DEF NameInv, OneClaim
<1>5. lost' \subseteq [image : Digests, why : Why] /\ faults' \in 0..MaxFaults
  BY <1>0, <1>1, <1>4, DropType, FaultType DEF Why
<1>6. CountsPods' /\ AttemptsInv'
  BY <1>0, <1>1 DEF CountsPods, AttemptsInv, operator
<1>7. TypeOK'
  BY <1>0, <1>1, <1>3, <1>5 DEF TypeOK, operator
<1> QED
  BY <1>3, <1>6, <1>7 DEF IInv

\* A backoff that ends makes a pending request due.
LEMMA BackOffKeeps ==
  ASSUME IInv, NEW k \in Keys, BackOff(k)
  PROVE  IInv'
<1>0. TypeOK /\ CountsPods /\ AttemptsInv /\ ListInv /\ NameInv /\ OneClaim
  BY DEF IInv
<1>1. /\ request[k] # NoRequest /\ request[k].phase = "pending"
      /\ request' = [request EXCEPT ![k].ready = TRUE]
      /\ UNCHANGED <<registry, pod, pending, operator, worker, vat, scanned, lost, faults>>
  BY DEF BackOff
<1>2. /\ request'[k] = [request[k] EXCEPT !.ready = TRUE]
      /\ \A j \in Keys : j # k => request'[j] = request[j]
  BY <1>0, <1>1 DEF TypeOK
<1>3. /\ request'[k] \in Request /\ request'[k] # NoRequest
      /\ request'[k].phase = request[k].phase /\ request'[k].attempts = request[k].attempts
  <2>1. request[k] \in Request
    BY <1>0, <1>1, RequestType
  <2> QED
    BY <1>2, <2>1, RequestAssumption DEF Request
<1>4. TypeOK'
  <2>1. request' \in [Keys -> Request \cup {NoRequest}]
    BY <1>0, <1>1, <1>2, <1>3 DEF TypeOK
  <2> QED
    BY <1>0, <1>1, <2>1 DEF TypeOK, operator
<1>5. CountsPods' /\ AttemptsInv'
  BY <1>0, <1>1, <1>2, <1>3 DEF CountsPods, AttemptsInv, operator
<1>6. \A j \in Keys : /\ request'[j] # NoRequest <=> request[j] # NoRequest
                      /\ request'[j].phase = request[j].phase
  BY <1>1, <1>2, <1>3
<1>7. ListInv' /\ NameInv' /\ OneClaim'
  <2>1. \A w \in Workers : worker[w].items \subseteq Keys
    BY <1>0, WorkerType
  <2>2. \A w \in Workers : worker[w].pc = "scan" => worker[w].name \in Keys
    BY <1>0, WorkerType DEF NameInv
  <2> QED
    BY <1>0, <1>1, <1>6, <2>1, <2>2 DEF ListInv, NameInv, OneClaim
<1> QED
  BY <1>4, <1>5, <1>7 DEF IInv

----------------------------------------------------------------------------
(* The cluster, the informer and the operator.                             *)

\* A pod stays typed when it is shown and when it goes.
LEMMA PodFields ==
  ASSUME TypeOK, NEW p \in Pods
  PROVE  /\ pod[p] \in Pod
         /\ [pod[p] EXCEPT !.shown = TRUE] \in Pod /\ [pod[p] EXCEPT !.phase = "gone"] \in Pod
<1>1. pod[p] \in Pod
  BY DEF TypeOK
<1> QED
  BY <1>1 DEF Pod

ClusterTypeOK ==
  /\ pod \in [Pods -> Pod] /\ pending \subseteq Pods /\ registry \in [Refs -> Digests]
  /\ lost \subseteq [image : Digests, why : Why] /\ faults \in 0..MaxFaults

\* What happens in the cluster reaches the operator only when it is delivered.
LEMMA ClusterKeeps ==
  ASSUME IInv,
         \/ \E p \in Pods : ShowDigest(p) \/ DeletePod(p) \/ LoseEvent(p)
         \/ \E r \in Refs : CreatePod(r)
         \/ \E r \in Refs, d \in Digests : MoveTag(r, d)
  PROVE  IInv'
<1>0. TypeOK /\ CountsPods /\ AttemptsInv /\ ListInv /\ NameInv /\ OneClaim
  BY DEF IInv
<1>1. UNCHANGED <<operator, request, worker, vat, scanned>>
  BY DEF ShowDigest, DeletePod, LoseEvent, CreatePod, MoveTag
<1>2. ClusterTypeOK'
  <2>1. ASSUME NEW p \in Pods, ShowDigest(p) PROVE ClusterTypeOK'
    BY <1>0, <2>1, PodFields DEF ShowDigest, TypeOK, ClusterTypeOK
  <2>2. ASSUME NEW p \in Pods, DeletePod(p) PROVE ClusterTypeOK'
    BY <1>0, <2>2, PodFields DEF DeletePod, TypeOK, ClusterTypeOK
  <2>3. ASSUME NEW p \in Pods, LoseEvent(p) PROVE ClusterTypeOK'
    BY <1>0, <2>3, FaultType DEF LoseEvent, TypeOK, ClusterTypeOK
  <2>4. ASSUME NEW r \in Refs, CreatePod(r) PROVE ClusterTypeOK'
    <3> DEFINE p == CHOOSE q \in Pods : pod[q].phase = "none"
               new == [phase |-> "live", ref |-> r, image |-> registry[r], shown |-> FALSE]
    <3>1. p \in Pods
      BY <2>4 DEF CreatePod
    <3>2. /\ pod' = [pod EXCEPT ![p] = new] /\ pending' = pending \cup {p}
          /\ UNCHANGED <<registry, lost, faults>>
      BY <2>4 DEF CreatePod
    <3>3. new \in Pod
      BY <1>0 DEF TypeOK, Pod
    <3> HIDE DEF p, new
    <3> QED
      BY <1>0, <3>1, <3>2, <3>3 DEF TypeOK, ClusterTypeOK
  <2>5. ASSUME NEW r \in Refs, NEW d \in Digests, MoveTag(r, d) PROVE ClusterTypeOK'
    <3>1. /\ registry' \in [Refs -> Digests] /\ UNCHANGED <<pod, pending>> /\ Fault
          /\ lost' = lost \cup {[image |-> i, why |-> "moved"] : i \in {registry[r], d}}
      BY <1>0, <2>5 DEF MoveTag, TypeOK
    <3>2. lost' \subseteq [image : Digests, why : Why]
      BY <1>0, <3>1 DEF TypeOK, Why
    <3> QED
      BY <1>0, <3>1, <3>2, FaultType DEF TypeOK, ClusterTypeOK
  <2> QED
    BY <2>1, <2>2, <2>3, <2>4, <2>5
<1>3. TypeOK'
  BY <1>0, <1>1, <1>2 DEF TypeOK, ClusterTypeOK, operator
<1>4. CountsPods' /\ AttemptsInv' /\ ListInv' /\ NameInv' /\ OneClaim'
  BY <1>0, <1>1 DEF CountsPods, AttemptsInv, ListInv, NameInv, OneClaim, operator
<1> QED
  BY <1>3, <1>4 DEF IInv

\* The steps of the operator that leave requests and workers alone.
LEMMA OperatorKeeps ==
  ASSUME IInv, ListPods \/ Restart \/ \E p \in Pods : DeliverDelete(p)
  PROVE  IInv'
<1>0. TypeOK /\ CountsPods /\ AttemptsInv /\ ListInv /\ NameInv /\ OneClaim
  BY DEF IInv
<1>1. UNCHANGED <<registry, pod, request, worker, vat, scanned, lost>>
  BY DEF ListPods, Restart, DeliverDelete
<1>2. /\ pending' \subseteq Pods /\ known' \subseteq Keys
      /\ refs' \in [Keys -> 0..Cardinality(Pods)] /\ podKeys' \in [Pods -> SUBSET Keys]
      /\ listed' \subseteq Listing /\ faults' \in 0..MaxFaults /\ CountsPods'
  <2>1. CASE ListPods
    <3>1. listed' \subseteq Listing
      BY <1>0, <2>1, ItemListing DEF ListPods, Live
    <3>2. UNCHANGED <<pending, known, refs, podKeys, faults>>
      BY <2>1 DEF ListPods
    <3> QED
      BY <1>0, <3>1, <3>2 DEF TypeOK, CountsPods
  <2>2. CASE Restart
    <3>1. /\ known' \in {vat, {}} /\ refs' = [k \in Keys |-> 0]
          /\ podKeys' = [p \in Pods |-> {}] /\ listed' = {} /\ pending' = Live /\ Fault
      BY <2>2 DEF Restart
    <3>2. Cardinality(Pods) \in Nat
      BY FS_CardinalityType, ScanQueueAssumption
    <3>3. /\ pending' \subseteq Pods /\ known' \subseteq Keys
          /\ refs' \in [Keys -> 0..Cardinality(Pods)] /\ podKeys' \in [Pods -> SUBSET Keys]
          /\ listed' \subseteq Listing
      BY <1>0, <3>1, <3>2 DEF TypeOK, Keys, Live
    <3>4. \A k \in Keys : {p \in Pods : k \in podKeys'[p]} = {}
      BY <3>1
    <3>5. CountsPods'
      BY <3>1, <3>4, FS_EmptySet DEF CountsPods
    <3> QED
      BY <1>0, <3>1, <3>3, <3>5, FaultType
  <2>3. ASSUME NEW p \in Pods, DeliverDelete(p)
        PROVE  /\ pending' \subseteq Pods /\ known' \subseteq Keys
               /\ refs' \in [Keys -> 0..Cardinality(Pods)] /\ podKeys' \in [Pods -> SUBSET Keys]
               /\ listed' \subseteq Listing /\ faults' \in 0..MaxFaults /\ CountsPods'
    <3>1. pending' \subseteq Pods /\ listed' \subseteq Listing /\ faults' \in 0..MaxFaults
      BY <1>0, <2>3 DEF DeliverDelete, TypeOK
    <3> QED
      BY <1>0, <2>3, <3>1, ForgetKeeps
  <2> QED
    BY <2>1, <2>2, <2>3
<1>3. TypeOK'
  BY <1>0, <1>1, <1>2 DEF TypeOK
<1>4. AttemptsInv' /\ ListInv' /\ NameInv' /\ OneClaim'
  BY <1>0, <1>1 DEF AttemptsInv, ListInv, NameInv, OneClaim
<1> QED
  BY <1>2, <1>3, <1>4 DEF IInv

\* An informer event counts the pod's keys, or forgets them.
LEMMA DeliverKeeps ==
  ASSUME IInv, NEW p \in Pods, Deliver(p)
  PROVE  IInv'
<1>1. /\ ObserveAndCreate(Item(p)) /\ UNCHANGED <<registry, pod, worker, vat, scanned>>
      /\ pending' \subseteq Pods /\ listed' \subseteq Listing
  BY DEF Deliver, IInv, TypeOK
<1>2. Item(p) \in Listing
  BY ItemListing DEF IInv
<1> QED
  BY <1>1, <1>2, ObserveStep

\* A listed pod is counted if the tracker does not know it; its request may be made.
LEMMA ObserveListedKeeps ==
  ASSUME IInv, ObserveListed
  PROVE  IInv'
<1> DEFINE it == CHOOSE i \in listed : TRUE
<1>1. it \in Listing /\ listed' \subseteq Listing
  BY DEF ObserveListed, IInv, TypeOK
<1>2. /\ ObserveAndCreate(it) /\ UNCHANGED <<registry, pod, worker, vat, scanned>>
      /\ pending' \subseteq Pods
  BY DEF ObserveListed, IInv, TypeOK
<1> HIDE DEF it
<1> QED
  BY <1>1, <1>2, ObserveStep

----------------------------------------------------------------------------
(* The theorem.                                                            *)

\* The invariant holds at the start.
LEMMA InitIInv == Init => IInv
<1> SUFFICES ASSUME Init PROVE IInv
  OBVIOUS
<1>0. Cardinality(Pods) \in Nat
  BY FS_CardinalityType, ScanQueueAssumption
<1>1. TypeOK
  <2>1. FirstRegistry \in [Refs -> Digests] /\ Refs # {}
    BY ScanQueueAssumption
  <2>2. (CHOOSE r \in Refs : TRUE) \in Refs /\ (CHOOSE d \in Digests : TRUE) \in Digests
    BY <2>1
  <2>3. NewPod \in Pod
    BY <2>2 DEF NewPod, Pod
  <2> QED
    BY <1>0, <2>1, <2>3, NewWorkerType, ScanQueueAssumption DEF Init, TypeOK
<1>2. CountsPods
  <2>1. \A k \in Keys : {p \in Pods : k \in podKeys[p]} = {}
    BY DEF Init
  <2> QED
    BY <2>1, FS_EmptySet DEF Init, CountsPods
<1>3. AttemptsInv /\ ListInv /\ NameInv /\ OneClaim
  BY DEF Init, AttemptsInv, ListInv, NameInv, OneClaim, NewWorker
<1> QED
  BY <1>1, <1>2, <1>3 DEF IInv

\* Every step keeps the invariant.
LEMMA NextIInv == IInv /\ [Next]_vars => IInv'
<1> SUFFICES ASSUME IInv, [Next]_vars PROVE IInv'
  OBVIOUS
<1>1. CASE UNCHANGED vars
  BY <1>1 DEF vars, IInv, TypeOK, CountsPods, AttemptsInv, ListInv, NameInv, OneClaim
<1>2. CASE Operate \/ Restart
  BY <1>2, DeliverKeeps, ObserveListedKeeps, OperatorKeeps DEF Operate
<1>3. ASSUME NEW k \in Keys, DeleteRequest(k) \/ BackOff(k) PROVE IInv'
  BY <1>3, DeleteRequestKeeps, BackOffKeeps
<1>4. ASSUME NEW w \in Workers, Work(w) \/ Crash(w) PROVE IInv'
  BY <1>4, ListRequestsKeeps, ClaimKeeps, ScanKeeps, CrashKeeps DEF Work
<1> QED
  BY <1>1, <1>2, <1>3, <1>4, ClusterKeeps DEF Next

\* For any number of pods, images and workers: the tracker's counts are those of the pods it
\* has seen, however old what it lists, whatever events are lost and however often the
\* operator restarts (tracker.py: observe, forget), and no request is scanned by two
\* workers or taken away from under the one that scans it (scan_queue.py: the claim that
\* is refused when the request has changed).
THEOREM QueueAlwaysSound == Spec => []ScanQueueSound
<1>1. IInv => ScanQueueSound
  BY DEF IInv, ScanQueueSound
<1> QED
  BY <1>1, InitIInv, NextIInv, PTL DEF Spec
=============================================================================
