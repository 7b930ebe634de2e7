------------------------- MODULE BatchIngestProofs -------------------------
(***************************************************************************)
(* Proofs about the batch ingest, for any scanners, reports and findings,  *)
(* whichever of them the database or the parser refuses, any number of     *)
(* attempts and faults, with and without audit roll-ups.                   *)
(***************************************************************************)
EXTENDS BatchIngest, TLAPS

----------------------------------------------------------------------------
(* The inductive invariant.                                                *)

\* Where the handler is.  It looks up the asset of findings that have one only, and a
\* broken session does not get past the look-up: only a finding breaks it there.
PlaceOK(s, j) ==
  /\ j.at \in {"resolve", "asset", "store"} => Report[s] = <<>> \/ j.i <= Len(Report[s])
  /\ j.at = "store" => Report[s] # <<>>
  /\ j.at \in {"attach", "close"} => j.i = Len(Report[s]) + 1
  /\ j.at \in {"asset", "store"} =>
       ~j.broken /\ (Report[s] # <<>> => Report[s][j.i] \notin Unmapped)
  /\ j.at = "resolve" /\ Report[s] = <<>> => ~j.broken

\* The findings the handler is done with are stored, or have no asset, or the answer
\* cannot be 200 any more: what the broken session has left in the window makes
\* flush_final raise.
StoredOK(s, j, rows) ==
  /\ j.known => j.at = "store" /\ Report[s][j.i] \in rows
  /\ j.broken /\ j.at # "close" => j.window # {}
  /\ j.at # "idle" =>
       \A n \in 1 .. j.i - 1 :
         Report[s][n] \in Unmapped \cup rows \/ (j.broken /\ j.window # {})

\* Without roll-ups, each of them has its event in the transaction or in the trail.
AuditedOK(s, j, events) ==
  ~rollup /\ j.at # "idle" =>
    /\ j.broken => j.at = "close" /\ s \notin Attached \ BadAttached
    /\ ~j.broken =>
         \A n \in 1 .. j.i - 1 : \E o \in Outcomes : <<o, Report[s][n]>> \in j.buf \cup events
    /\ j.at = "close" /\ s \in Attached \ BadAttached => j.buf = {}

JobsInv ==
  \A s \in Senders : /\ PlaceOK(s, job[s])
                     /\ StoredOK(s, job[s], stored)
                     /\ AuditedOK(s, job[s], trail[s])

\* A post that is over, and not answered, has an attempt left.
TriesInv == \A s \in Senders : job[s].at = "idle" /\ answer[s] = "none" => tries[s] < Attempts

\* What a post of s has noted, committed or not.
Told(s) == trail[s] \cup job[s].buf \cup job[s].window

\* TrailSound, with the events that are not committed yet.
EventsInv ==
  \A s \in Senders, f \in Findings :
    /\ <<"new", f>> \in Told(s) => f \in stored
    /\ <<"merged", f>> \in Told(s) => f \in stored
    /\ \A t \in Senders : <<"new", f>> \in Told(s) \cap Told(t) => s = t

IInv == TypeOK /\ JobsInv /\ TriesInv /\ EventsInv /\ OkMeansStored /\ SealedMeansAudited

----------------------------------------------------------------------------
(* Facts about the types.                                                  *)

\* A report is a sequence of findings, and Asked is the set of its members.
LEMMA ReportType ==
  ASSUME NEW s \in Senders
  PROVE  /\ Len(Report[s]) \in Nat
         /\ Report[s] # <<>> => Len(Report[s]) >= 1
         /\ Report[s] = <<>> => Len(Report[s]) = 0
         /\ \A n \in 1 .. Len(Report[s]) : Report[s][n] \in Findings
         /\ Asked(s) = {Report[s][n] : n \in 1 .. Len(Report[s])}
<1>1. Report[s] \in Seq(Findings)
  BY BatchIngestAssumption
<1> QED
  BY <1>1 DEF Asked, Range

\* An outcome of a finding is an event.
LEMMA EventType ==
  ASSUME NEW o \in Outcomes, NEW f \in Findings
  PROVE  <<o, f>> \in Events
BY DEF Events

\* What the types say of a handler's state.
LEMMA JobType ==
  ASSUME TypeOK, NEW s \in Senders
  PROVE  /\ job[s] \in Job
         /\ job[s].at \in {"idle", "resolve", "asset", "store", "attach", "close"}
         /\ job[s].i \in 1 .. Len(Report[s]) + 1 /\ job[s].i \in Nat \ {0}
         /\ job[s].known \in BOOLEAN /\ job[s].broken \in BOOLEAN
         /\ job[s].buf \in SUBSET Events /\ job[s].window \in SUBSET Events
         /\ job[s].broken => job[s].buf = {}
         /\ ~rollup => job[s].window = {}
         /\ trail[s] \in SUBSET Events
<1>1. job[s] \in Job
  BY DEF TypeOK
<1> QED
  BY <1>1 DEF TypeOK, Job

\* What a sender may know of its post.
Known == {"absent", "none", "ok", "rejected", "gave up", "cut"}

\* What the types say of a client and of the answer it has.
LEMMA ClientType ==
  ASSUME TypeOK, NEW s \in Senders
  PROVE  /\ Attempts \in Nat \ {0} /\ tries[s] \in 0 .. Attempts
         /\ answer[s] \in Known
<1>1. tries \in [Senders -> 0 .. Attempts] /\ answer \in [Senders -> Known]
  BY DEF TypeOK, Known
<1> QED
  BY <1>1, BatchIngestAssumption

\* A fault below the bound stays within it.
LEMMA FaultType ==
  ASSUME TypeOK, faults < MaxFaults, faults' = faults + 1
  PROVE  faults' \in 0 .. MaxFaults
<1>1. faults \in 0 .. MaxFaults
  BY DEF TypeOK
<1>2. MaxFaults \in Nat
  BY BatchIngestAssumption
<1> QED
  BY <1>1, <1>2

\* A handler that has not begun holds nothing.
LEMMA IdleType ==
  /\ Idle \in Job /\ Idle.at = "idle" /\ Idle.i = 1 /\ ~Idle.known /\ ~Idle.broken
  /\ Idle.buf = {} /\ Idle.window = {}
BY DEF Idle, Job

\* What the job of a sender may become: the types, and the three parts of JobsInv.
JobOK(s, j, rows, events) ==
  /\ j \in Job /\ j.i \in 1 .. Len(Report[s]) + 1
  /\ j.broken => j.buf = {}
  /\ ~rollup => j.window = {}
  /\ PlaceOK(s, j) /\ StoredOK(s, j, rows) /\ AuditedOK(s, j, events)

\* Nothing is asked of a handler that has not begun.
LEMMA IdleOK ==
  ASSUME NEW s \in Senders, NEW rows, NEW events
  PROVE  JobOK(s, Idle, rows, events)
<1>1. Idle.i \in 1 .. Len(Report[s]) + 1
  BY IdleType, ReportType
<1> QED
  BY <1>1, IdleType DEF JobOK, PlaceOK, StoredOK, AuditedOK

\* What has been stored stays, so other jobs are not disturbed.
LEMMA JobOKGrows ==
  ASSUME NEW s \in Senders, NEW j, NEW rows, NEW more, NEW events,
         JobOK(s, j, rows, events), rows \subseteq more
  PROVE  JobOK(s, j, more, events)
BY DEF JobOK, StoredOK

\* The invariant of one handler.
LEMMA JobHolds ==
  ASSUME IInv, NEW s \in Senders
  PROVE  JobOK(s, job[s], stored, trail[s])
BY JobType DEF IInv, JobsInv, JobOK

----------------------------------------------------------------------------
(* A step of the handler for one sender: what has to be shown of it.       *)

\* The events a step adds: a finding is new to one post only, and in the database.
Truthful(s, told) ==
  \A f \in Findings :
    /\ <<"merged", f>> \in told => f \in stored'
    /\ <<"new", f>> \in told => <<"new", f>> \in Told(s) \/ f \in stored' \ stored

\* The answer to a post.
AnswerOK(s, a, rows, events) ==
  a = "ok" =>
    /\ Asked(s) \ Unmapped \subseteq rows
    /\ s \in Attached \ BadAttached /\ ~rollup =>
         \A f \in Asked(s) : \E o \in Outcomes : <<o, f>> \in events

\* A step of one handler keeps the invariant when its own part is sound: rows are only
\* added, which the other handlers do not mind.
LEMMA HandlerStep ==
  ASSUME IInv, NEW s \in Senders, NEW j \in Job, NEW events \in SUBSET Events,
         NEW a \in Known, NEW n \in 0 .. Attempts,
         rollup' = rollup, asset' \in BOOLEAN, faults' \in 0 .. MaxFaults,
         stored \subseteq stored', stored' \subseteq Findings \ (Poison \cup Unmapped),
         job' = [job EXCEPT ![s] = j],
         trail' = [trail EXCEPT ![s] = events], trail[s] \subseteq events,
         answer' = [answer EXCEPT ![s] = a], tries' = [tries EXCEPT ![s] = n],
         j.at = "idle" /\ a = "none" => n < Attempts,
         JobOK(s, j, stored', events),
         Truthful(s, events \cup j.buf \cup j.window),
         AnswerOK(s, a, stored', events)
  PROVE  IInv'
<1>0. TypeOK /\ JobsInv /\ TriesInv /\ EventsInv /\ OkMeansStored /\ SealedMeansAudited
  BY DEF IInv
<1>1. /\ job'[s] = j /\ trail'[s] = events /\ answer'[s] = a /\ tries'[s] = n
      /\ \A t \in Senders : t # s => /\ job'[t] = job[t] /\ trail'[t] = trail[t]
                                     /\ answer'[t] = answer[t] /\ tries'[t] = tries[t]
  BY <1>0 DEF TypeOK
<1>2. \A t \in Senders : JobOK(t, job'[t], stored', trail'[t])
  <2>1. ASSUME NEW t \in Senders, t # s PROVE JobOK(t, job[t], stored', trail[t])
    BY JobHolds, JobOKGrows
  <2> QED
    BY <1>1, <2>1
<1>3. TypeOK'
  <2>1. /\ job' \in [Senders -> Job] /\ trail' \in [Senders -> SUBSET Events]
        /\ answer' \in [Senders -> Known]
        /\ tries' \in [Senders -> 0 .. Attempts]
    BY <1>0 DEF TypeOK, Known
  <2>2. \A t \in Senders : /\ job'[t].i \in 1 .. Len(Report[t]) + 1
                           /\ job'[t].broken => job'[t].buf = {}
                           /\ ~rollup => job'[t].window = {}
    BY <1>2 DEF JobOK
  <2> QED
    BY <1>0, <2>1, <2>2 DEF TypeOK, Known
<1>4. JobsInv'
  BY <1>2 DEF JobsInv, JobOK, PlaceOK, StoredOK, AuditedOK
<1>5. TriesInv'
  BY <1>0, <1>1 DEF TriesInv
<1>6. EventsInv'
  <2>1. Told(s)' = events \cup j.buf \cup j.window
    BY <1>1 DEF Told
  <2>2. \A t \in Senders : t # s => Told(t)' = Told(t)
    BY <1>1 DEF Told
  <2>3. ASSUME NEW t \in Senders, NEW f \in Findings
        PROVE  /\ <<"new", f>> \in Told(t)' => f \in stored'
               /\ <<"merged", f>> \in Told(t)' => f \in stored'
    <3>1. CASE t = s
      BY <1>0, <2>1, <3>1 DEF EventsInv, Truthful
    <3>2. CASE t # s
      BY <1>0, <2>2, <3>2 DEF EventsInv
    <3> QED
      BY <3>1, <3>2
  <2>4. ASSUME NEW t \in Senders, NEW u \in Senders, NEW f \in Findings,
               <<"new", f>> \in Told(t)', <<"new", f>> \in Told(u)'
        PROVE  t = u
    <3>1. \A v \in Senders : <<"new", f>> \in Told(v)' =>
            <<"new", f>> \in Told(v) \/ (v = s /\ f \in stored' \ stored)
      BY <2>1, <2>2 DEF Truthful
    <3>2. \A v \in Senders : <<"new", f>> \in Told(v) => f \in stored
      BY <1>0 DEF EventsInv
    <3>3. <<"new", f>> \in Told(t) /\ <<"new", f>> \in Told(u) => t = u
      BY <1>0 DEF EventsInv
    <3> QED
      BY <2>4, <3>1, <3>2, <3>3
  <2>5. \A t \in Senders, f \in Findings :
          /\ <<"new", f>> \in Told(t)' => f \in stored'
          /\ <<"merged", f>> \in Told(t)' => f \in stored'
          /\ \A u \in Senders : <<"new", f>> \in Told(t)' \cap Told(u)' => t = u
    BY <2>3, <2>4
  <2> QED
    BY <2>5 DEF EventsInv
<1>7. OkMeansStored'
  BY <1>0, <1>1 DEF OkMeansStored, AnswerOK, Asked
<1>8. SealedMeansAudited'
  <2>1. ASSUME NEW t \in Attached \ BadAttached, answer'[t] = "ok", ~rollup, t \in Senders
        PROVE  \A f \in Asked(t) : \E o \in Outcomes : <<o, f>> \in trail'[t]
    <3>1. CASE t = s
      BY <1>1, <2>1, <3>1 DEF AnswerOK
    <3>2. CASE t # s
      BY <1>0, <1>1, <2>1, <3>2 DEF SealedMeansAudited
    <3> QED
      BY <3>1, <3>2
  <2>2. Attached \subseteq Senders
    BY BatchIngestAssumption
  <2> QED
    BY <2>1, <2>2 DEF SealedMeansAudited, Asked
<1> QED
  BY <1>3, <1>4, <1>5, <1>6, <1>7, <1>8 DEF IInv

\* Events that were truthful stay so when rows are added.
LEMMA TruthfulOld ==
  ASSUME IInv, NEW s \in Senders, NEW told, told \subseteq Told(s), stored \subseteq stored'
  PROVE  Truthful(s, told)
<1>1. EventsInv
  BY DEF IInv
<1> QED
  BY <1>1 DEF EventsInv, Truthful

\* One more truthful event may be told.
LEMMA TruthfulAdd ==
  ASSUME IInv, NEW s \in Senders, NEW o \in Outcomes, NEW f \in Findings, NEW told,
         told \subseteq Told(s) \cup {<<o, f>>}, stored \subseteq stored',
         o = "merged" => f \in stored', o = "new" => f \in stored' \ stored
  PROVE  Truthful(s, told)
<1>1. EventsInv
  BY DEF IInv
<1>2. ASSUME NEW g \in Findings, <<"merged", g>> \in told PROVE g \in stored'
  <2>1. CASE <<"merged", g>> \in Told(s)
    BY <1>1, <2>1 DEF EventsInv
  <2>2. CASE <<"merged", g>> = <<o, f>>
    BY <2>2
  <2> QED
    BY <1>2, <2>1, <2>2
<1>3. ASSUME NEW g \in Findings, <<"new", g>> \in told
      PROVE  <<"new", g>> \in Told(s) \/ g \in stored' \ stored
  <2>1. CASE <<"new", g>> = <<o, f>>
    BY <2>1
  <2> QED
    BY <1>3, <2>1
<1> QED
  BY <1>2, <1>3 DEF Truthful

----------------------------------------------------------------------------
(* The end of a post.                                                      *)

\* An answer that fits what was stored ends the handler soundly.
LEMMA AnswersKeeps ==
  ASSUME IInv, NEW s \in Senders, NEW events \in SUBSET Events,
         NEW a \in Known, a = "none" => tries[s] < Attempts,
         Answers(s, a), AnswerOK(s, a, stored, events),
         trail' = [trail EXCEPT ![s] = events],
         trail[s] \subseteq events, events \subseteq Told(s),
         rollup' = rollup, stored' = stored, asset' \in BOOLEAN, faults' \in 0 .. MaxFaults
  PROVE  IInv'
<1>0. TypeOK
  BY DEF IInv
<1>1. PICK n \in 0 .. Attempts : /\ a = "none" => n = tries[s]
                                /\ tries' = [tries EXCEPT ![s] = n]
  <2>1. CASE a = "none"
    <3>1. tries' = [tries EXCEPT ![s] = tries[s]]
      BY <2>1 DEF Answers
    <3> QED
      BY <1>0, <3>1, ClientType
  <2>2. CASE a # "none"
    <3>1. tries' = [tries EXCEPT ![s] = 0]
      BY <2>2 DEF Answers
    <3>2. 0 \in 0 .. Attempts
      BY BatchIngestAssumption
    <3> QED
      BY <2>2, <3>1, <3>2
  <2> QED
    BY <2>1, <2>2
<1>2. job' = [job EXCEPT ![s] = Idle] /\ answer' = [answer EXCEPT ![s] = a]
  BY DEF Answers
<1>3. JobOK(s, Idle, stored', events)
  BY IdleOK
<1>4. Truthful(s, events \cup Idle.buf \cup Idle.window)
  BY TruthfulOld, IdleType
<1>5. /\ a = "none" => n < Attempts
      /\ stored \subseteq stored' /\ stored' \subseteq Findings \ (Poison \cup Unmapped)
      /\ AnswerOK(s, a, stored', events)
  BY <1>0, <1>1 DEF TypeOK
<1> QED
  BY <1>1, <1>2, <1>3, <1>4, <1>5, IdleType, HandlerStep

\* A 500, or no answer: the scanner has an attempt left, or gives up.
LEMMA UnansweredKeeps ==
  ASSUME IInv, NEW s \in Senders, NEW events \in SUBSET Events, Unanswered(s),
         trail' = [trail EXCEPT ![s] = events],
         trail[s] \subseteq events, events \subseteq Told(s),
         rollup' = rollup, stored' = stored, asset' \in BOOLEAN, faults' \in 0 .. MaxFaults
  PROVE  IInv'
<1>0. tries[s] \in 0 .. Attempts /\ Attempts \in Nat
  BY ClientType DEF IInv
<1>1. PICK a \in Known : /\ Answers(s, a) /\ a # "ok"
                         /\ a = "none" => tries[s] # Attempts
  BY DEF Unanswered, Repeats, Known
<1>2. a = "none" => tries[s] < Attempts
  BY <1>0, <1>1
<1>3. AnswerOK(s, a, stored, events)
  BY <1>1 DEF AnswerOK
<1> QED
  BY <1>1, <1>2, <1>3, AnswersKeeps

\* The same when nothing has been committed on the way.
LEMMA UnansweredAlone ==
  ASSUME IInv, NEW s \in Senders, Unanswered(s), UNCHANGED <<rollup, stored, trail>>,
         asset' \in BOOLEAN, faults' \in 0 .. MaxFaults
  PROVE  IInv'
<1>1. trail' = [trail EXCEPT ![s] = trail[s]] /\ trail[s] \in SUBSET Events
  BY DEF IInv, TypeOK
<1>2. trail[s] \subseteq Told(s)
  BY DEF Told
<1> QED
  BY <1>1, <1>2, UnansweredKeeps

----------------------------------------------------------------------------
(* A step that leaves the post open.                                       *)

\* A handler that goes on working keeps the invariant: no client learns of it.
LEMMA OpenStep ==
  ASSUME IInv, NEW s \in Senders, NEW j \in Job, NEW events \in SUBSET Events,
         job' = [job EXCEPT ![s] = j], j.at # "idle",
         trail' = [trail EXCEPT ![s] = events], trail[s] \subseteq events,
         stored \subseteq stored', stored' \subseteq Findings \ (Poison \cup Unmapped),
         UNCHANGED <<rollup, client, faults>>, asset' \in BOOLEAN,
         JobOK(s, j, stored', events),
         Truthful(s, events \cup j.buf \cup j.window)
  PROVE  IInv'
<1>0. TypeOK /\ OkMeansStored /\ SealedMeansAudited
  BY DEF IInv
<1>1. /\ answer' = [answer EXCEPT ![s] = answer[s]] /\ tries' = [tries EXCEPT ![s] = tries[s]]
      /\ answer[s] \in Known /\ tries[s] \in 0 .. Attempts
  BY <1>0, ClientType DEF TypeOK, client
<1>2. AnswerOK(s, answer[s], stored', events)
  BY <1>0 DEF OkMeansStored, SealedMeansAudited, AnswerOK
<1>3. rollup' = rollup /\ faults' \in 0 .. MaxFaults
  BY <1>0 DEF TypeOK
<1> QED
  BY <1>1, <1>2, <1>3, HandlerStep

\* The event of a finding: in the open window, or in the transaction.
LEMMA NotedFacts ==
  ASSUME NEW j \in Job, NEW e \in Events, NEW due \in Due
  PROVE  /\ Noted(j, e, due) \in Job
         /\ Noted(j, e, due).at = j.at /\ Noted(j, e, due).i = j.i
         /\ Noted(j, e, due).known = j.known /\ Noted(j, e, due).broken = j.broken
         /\ Noted(j, e, due).buf \cup Noted(j, e, due).window = j.buf \cup j.window \cup {e}
         /\ rollup => Noted(j, e, due).window # {}
         /\ ~rollup => Noted(j, e, due).window = j.window /\ Noted(j, e, due).buf = j.buf \cup {e}
         /\ j.broken /\ j.buf = {} /\ ~Raises(j, due) => Noted(j, e, due).buf = {}
<1>0. due \in BOOLEAN /\ (~rollup => ~due)
  BY DEF Due
<1>1. CASE ~rollup
  <2>1. Noted(j, e, due) = [j EXCEPT !.buf = j.buf \cup {e}]
    BY <1>1 DEF Noted
  <2> QED
    BY <1>0, <1>1, <2>1 DEF Job, Raises
<1>2. CASE rollup /\ due
  <2>1. Noted(j, e, due) = [j EXCEPT !.buf = j.buf \cup j.window, !.window = {e}]
    BY <1>2 DEF Noted
  <2>2. j.broken /\ ~Raises(j, due) => j.window = {}
    BY <1>2 DEF Raises
  <2>3. /\ Noted(j, e, due).at = j.at /\ Noted(j, e, due).i = j.i
        /\ Noted(j, e, due).known = j.known /\ Noted(j, e, due).broken = j.broken
        /\ Noted(j, e, due).buf = j.buf \cup j.window /\ Noted(j, e, due).window = {e}
    BY <2>1 DEF Job
  <2>4. Noted(j, e, due) \in Job
    <3>1. j.buf \cup j.window \in SUBSET Events /\ {e} \in SUBSET Events
      BY DEF Job
    <3> QED
      BY <2>1, <3>1 DEF Job
  <2> QED
    BY <1>2, <2>2, <2>3, <2>4
<1>3. CASE rollup /\ ~due
  <2>1. Noted(j, e, due) = [j EXCEPT !.window = j.window \cup {e}]
    BY <1>3 DEF Noted
  <2> QED
    BY <1>3, <2>1 DEF Job, Raises
<1> QED
  BY <1>1, <1>2, <1>3

\* The handler goes on with the next finding, or with the attachments after the last.
LEMMA AdvanceFacts ==
  ASSUME NEW s \in Senders, NEW j \in Job
  PROVE  /\ Advance(s, j) \in Job
         /\ Advance(s, j).at = (IF j.i = Len(Report[s]) THEN "attach" ELSE "resolve")
         /\ Advance(s, j).i = j.i + 1 /\ ~Advance(s, j).known
         /\ Advance(s, j).broken = j.broken
         /\ Advance(s, j).buf = j.buf /\ Advance(s, j).window = j.window
<1>1. /\ j.i + 1 \in Nat \ {0}
      /\ (IF j.i = Len(Report[s]) THEN "attach" ELSE "resolve")
           \in {"idle", "resolve", "asset", "store", "attach", "close"}
  BY DEF Job
<1> QED
  BY <1>1 DEF Advance, Job

\* The finding is dealt with, as e says: it is stored now, or has no asset, or the broken
\* session cannot end well.  The job was j when it was looked at.
LEMMA NextFinding ==
  ASSUME IInv, NEW s \in Senders, NEW j \in Job, NEW o \in Outcomes, NEW due \in Due,
         NEW events \in SUBSET Events,
         j.i \in 1 .. Len(Report[s]), j.broken => j.buf = {}, ~rollup => j.window = {},
         ~Raises(j, due),
         \A n \in 1 .. j.i - 1 :
           Report[s][n] \in Unmapped \cup stored' \/ (j.broken /\ j.window # {}),
         Report[s][j.i] \in Unmapped \cup stored' \/ j.broken,
         ~rollup => \A n \in 1 .. j.i - 1 :
           \E p \in Outcomes : <<p, Report[s][n]>> \in j.buf \cup events
  PROVE  JobOK(s, Advance(s, Noted(j, <<o, Report[s][j.i]>>, due)), stored', events)
<1> DEFINE e == <<o, Report[s][j.i]>>
           m == Noted(j, e, due)
           k == Advance(s, m)
<1>1. e \in Events /\ Len(Report[s]) \in Nat /\ j.i \in Nat /\ Report[s] # <<>>
  BY ReportType, EventType
<1>2. /\ m \in Job /\ m.i = j.i /\ m.broken = j.broken
      /\ m.buf \cup m.window = j.buf \cup j.window \cup {e}
      /\ rollup => m.window # {}
      /\ ~rollup => m.window = {} /\ m.buf = j.buf \cup {e}
      /\ m.broken => m.buf = {}
  BY <1>1, NotedFacts
<1>3. /\ k \in Job /\ k.at = (IF j.i = Len(Report[s]) THEN "attach" ELSE "resolve")
      /\ k.i = j.i + 1 /\ ~k.known /\ k.broken = j.broken
      /\ k.buf = m.buf /\ k.window = m.window
  BY <1>2, AdvanceFacts
<1>4. j.broken => rollup
  BY DEF Raises
<1> HIDE DEF e, m, k
<1>5. PlaceOK(s, k)
  BY <1>1, <1>3 DEF PlaceOK
<1>6. StoredOK(s, k, stored')
  <2>1. ASSUME NEW n \in 1 .. k.i - 1
        PROVE  Report[s][n] \in Unmapped \cup stored' \/ (k.broken /\ k.window # {})
    <3>1. n \in 1 .. j.i - 1 \/ n = j.i
      BY <1>1, <1>3
    <3> QED
      BY <1>2, <1>3, <1>4, <3>1
  <2>2. k.broken => k.window # {}
    BY <1>2, <1>3, <1>4
  <2> QED
    BY <1>3, <2>1, <2>2 DEF StoredOK
<1>7. AuditedOK(s, k, events)
  <2>1. ASSUME ~rollup, NEW n \in 1 .. k.i - 1
        PROVE  \E p \in Outcomes : <<p, Report[s][n]>> \in k.buf \cup events
    <3>1. CASE n = j.i
      BY <1>2, <1>3, <2>1, <3>1 DEF e
    <3>2. CASE n \in 1 .. j.i - 1
      BY <1>2, <1>3, <2>1, <3>2
    <3>3. n \in 1 .. j.i - 1 \/ n = j.i
      BY <1>1, <1>3
    <3> QED
      BY <3>1, <3>2, <3>3
  <2> QED
    BY <1>3, <1>4, <2>1 DEF AuditedOK
<1>8. k \in Job /\ k.i \in 1 .. Len(Report[s]) + 1 /\ (k.broken => k.buf = {}) /\ (~rollup => k.window = {})
  BY <1>1, <1>2, <1>3
<1>9. JobOK(s, k, stored', events)
  BY <1>5, <1>6, <1>7, <1>8 DEF JobOK
<1> QED
  BY <1>9 DEF k, m, e

----------------------------------------------------------------------------
(* The steps of the handler.                                               *)

\* The statement fails: what was not committed is lost, and nothing else.
LEMMA BrokenFacts ==
  ASSUME NEW j \in Job
  PROVE  /\ Broken(j) \in Job /\ Broken(j).broken /\ Broken(j).buf = {}
         /\ Broken(j).at = j.at /\ Broken(j).i = j.i /\ Broken(j).known = j.known
         /\ Broken(j).window = j.window
BY DEF Broken, Job

\* The except branch: the finding has no asset, or the session is broken.
LEMMA FailsKeeps ==
  ASSUME IInv, NEW s \in Senders, NEW j \in Job, Fails(s, j),
         \/ j = job[s] /\ (j.broken \/ Report[s][j.i] \in Unmapped)
         \/ j = Broken(job[s]) /\ ~job[s].broken,
         job[s].at \in {"resolve", "asset", "store"}, Report[s] # <<>>,
         UNCHANGED <<rollup, stored, trail, faults>>, asset' \in BOOLEAN
  PROVE  IInv'
<1>0. TypeOK /\ JobOK(s, job[s], stored, trail[s]) /\ trail[s] \in SUBSET Events
  BY JobHolds, JobType DEF IInv
<1>1. /\ job[s] \in Job /\ job[s].i \in 1 .. Len(Report[s]) + 1 /\ job[s].at # "idle"
      /\ job[s].i <= Len(Report[s]) /\ Len(Report[s]) \in Nat
  BY <1>0, JobType, ReportType DEF JobOK, PlaceOK
<1>2. /\ j.i = job[s].i /\ j.at = job[s].at /\ j.window = job[s].window
      /\ j.buf \subseteq job[s].buf
      /\ j.broken => j.buf = {}
      /\ job[s].broken => j.broken
      /\ ~j.broken => j = job[s]
      /\ j.broken \/ Report[s][j.i] \in Unmapped
  BY <1>0, <1>1, BrokenFacts DEF JobOK
<1>3. PICK due \in Due :
        IF Raises(j, due) THEN Repeats(s)
        ELSE /\ job' = [job EXCEPT ![s] =
                          Advance(s, Noted(j, <<"failed", Report[s][j.i]>>, due))]
             /\ UNCHANGED client
  BY DEF Fails
<1>4. faults' \in 0 .. MaxFaults /\ rollup' = rollup /\ stored' = stored
      /\ trail' = [trail EXCEPT ![s] = trail[s]] /\ UNCHANGED <<rollup, stored, trail>>
  BY <1>0 DEF TypeOK
<1>5. CASE Raises(j, due)
  BY <1>3, <1>4, <1>5, UnansweredAlone DEF Unanswered
<1>6. CASE ~Raises(j, due)
  <2> DEFINE f == Report[s][j.i]
             m == Noted(j, <<"failed", f>>, due)
             k == Advance(s, m)
  <2>1. f \in Findings /\ "failed" \in Outcomes /\ j.i \in 1 .. Len(Report[s])
    BY <1>1, <1>2, ReportType DEF Outcomes
  <2>2. job' = [job EXCEPT ![s] = k] /\ UNCHANGED client
    BY <1>3, <1>6
  <2>3. /\ k \in Job /\ k.at # "idle"
        /\ k.buf \cup k.window = j.buf \cup j.window \cup {<<"failed", f>>}
    <3>1. <<"failed", f>> \in Events
      BY <2>1, EventType
    <3>2. m \in Job /\ m.buf \cup m.window = j.buf \cup j.window \cup {<<"failed", f>>}
      BY <3>1, NotedFacts
    <3> HIDE DEF m
    <3> QED
      BY <3>2, AdvanceFacts
  <2>4. JobOK(s, k, stored', trail[s])
    <3>1. \A n \in 1 .. j.i - 1 :
            Report[s][n] \in Unmapped \cup stored' \/ (j.broken /\ j.window # {})
      BY <1>0, <1>1, <1>2, <1>4 DEF JobOK, StoredOK
    <3>2. ASSUME ~rollup
          PROVE  \A n \in 1 .. j.i - 1 :
                   \E p \in Outcomes : <<p, Report[s][n]>> \in j.buf \cup trail[s]
      <4>1. ~j.broken /\ j = job[s]
        BY <1>2, <1>6, <3>2 DEF Raises
      <4> QED
        BY <1>0, <1>1, <3>2, <4>1 DEF JobOK, AuditedOK
    <3>3. ~rollup => j.window = {}
      BY <1>0, <1>2 DEF JobOK
    <3> QED
      BY <1>0, <1>2, <1>6, <2>1, <3>1, <3>2, <3>3, NextFinding
  <2> HIDE DEF k, m
  <2>5. Truthful(s, trail[s] \cup k.buf \cup k.window)
    <3>1. trail[s] \cup k.buf \cup k.window \subseteq Told(s) \cup {<<"failed", f>>}
      BY <1>2, <2>3 DEF Told
    <3> HIDE DEF f
    <3> QED
      BY <1>4, <2>1, <3>1, TruthfulAdd
  <2>6. /\ stored \subseteq stored' /\ stored' \subseteq Findings \ (Poison \cup Unmapped)
        /\ UNCHANGED <<rollup, client, faults>>
    BY <1>0, <1>4, <2>2 DEF TypeOK
  <2> QED
    BY <1>0, <1>4, <2>2, <2>3, <2>4, <2>5, <2>6, OpenStep
<1> QED
  BY <1>5, <1>6

\* A request begins with an empty session.
LEMMA PostKeeps ==
  ASSUME IInv, NEW s \in Senders, Post(s)
  PROVE  IInv'
<1>0. TypeOK /\ TriesInv
  BY DEF IInv
<1>1. /\ job[s].at = "idle" /\ answer[s] = "none"
      /\ UNCHANGED <<rollup, asset, stored, trail, faults>>
  BY DEF Post
<1>2. /\ asset' \in BOOLEAN /\ faults' \in 0 .. MaxFaults /\ trail[s] \in SUBSET Events
      /\ trail' = [trail EXCEPT ![s] = trail[s]] /\ trail[s] \subseteq Told(s)
      /\ rollup' = rollup /\ stored' = stored
  BY <1>0, <1>1 DEF TypeOK, Told
<1>3. CASE s \in Unparsable
  <2>1. Answers(s, "rejected") /\ "rejected" \in Known
    BY <1>3 DEF Post, Known
  <2>2. AnswerOK(s, "rejected", stored, trail[s])
    BY DEF AnswerOK
  <2> QED
    BY <1>2, <2>1, <2>2, AnswersKeeps
<1>4. CASE s \notin Unparsable
  <2>1. /\ job' = [job EXCEPT ![s] = Opened] /\ tries' = [tries EXCEPT ![s] = tries[s] + 1]
        /\ answer' = [answer EXCEPT ![s] = "none"]
    BY <1>0, <1>1, <1>4 DEF Post, TypeOK
  <2>2. "none" \in Known /\ tries[s] + 1 \in 0 .. Attempts
    <3>1. tries[s] < Attempts
      BY <1>0, <1>1 DEF TriesInv
    <3>2. tries[s] + 1 \in 0 .. Attempts
      BY <1>0, <3>1, ClientType
    <3> QED
      BY <3>2 DEF Known
  <2>3. /\ Opened \in Job /\ Opened.at = "resolve" /\ Opened.i = 1 /\ ~Opened.known
        /\ ~Opened.broken /\ Opened.buf = {} /\ Opened.window = {}
    BY IdleType DEF Opened, Idle, Job
  <2>4. JobOK(s, Opened, stored', trail[s])
    <3>1. /\ Opened.i \in 1 .. Len(Report[s]) + 1
          /\ Report[s] = <<>> \/ Opened.i <= Len(Report[s])
      BY <2>3, ReportType
    <3> QED
      BY <2>3, <3>1 DEF JobOK, PlaceOK, StoredOK, AuditedOK
  <2>5. Truthful(s, trail[s] \cup Opened.buf \cup Opened.window)
    BY <1>2, <2>3, TruthfulOld
  <2>6. AnswerOK(s, "none", stored', trail[s])
    BY DEF AnswerOK
  <2>7. stored \subseteq stored' /\ stored' \subseteq Findings \ (Poison \cup Unmapped)
    BY <1>0, <1>2 DEF TypeOK
  <2>8. ~(Opened.at = "idle" /\ "none" = "none")
    BY <2>3
  <2> QED
    BY <1>2, <2>1, <2>2, <2>3, <2>4, <2>5, <2>6, <2>7, <2>8, HandlerStep
<1> QED
  BY <1>3, <1>4

\* The asset is there: on to the finding, or to the end of an empty report.  What was in the
\* transaction may have been committed with the asset row.
LEMMA ProceedsKeeps ==
  ASSUME IInv, NEW s \in Senders, NEW b \in SUBSET Events, NEW events \in SUBSET Events,
         Proceeds(s, [job[s] EXCEPT !.buf = b]), job[s].at \in {"resolve", "asset"},
         ~job[s].broken, Report[s] # <<>> => Report[s][job[s].i] \notin Unmapped,
         trail' = [trail EXCEPT ![s] = events], trail[s] \subseteq events,
         b \cup events = trail[s] \cup job[s].buf,
         stored' = stored, UNCHANGED <<rollup, client, faults>>, asset' \in BOOLEAN
  PROVE  IInv'
<1> DEFINE j == [job[s] EXCEPT !.buf = b]
<1>0. TypeOK /\ JobOK(s, job[s], stored, trail[s])
  BY JobHolds DEF IInv
<1>1. /\ j \in Job /\ j.at = job[s].at /\ j.i = job[s].i /\ ~j.broken /\ ~j.known
      /\ j.window = job[s].window /\ j.buf = b /\ j.known \in BOOLEAN
      /\ j.i \in Nat \ {0} /\ job[s].window \in SUBSET Events
  <2>1. job[s] \in Job /\ ~job[s].known
    BY <1>0, JobType DEF JobOK, StoredOK
  <2> QED
    BY <2>1 DEF Job
<1>2. Len(Report[s]) \in Nat /\ (Report[s] = <<>> => Len(Report[s]) = 0)
  BY ReportType
<1>3. \E k \in Job :
        /\ job' = [job EXCEPT ![s] = k]
        /\ k.at = (IF Report[s] = <<>> THEN "attach" ELSE "store")
        /\ k.i = job[s].i /\ ~k.broken
        /\ k.known => Report[s] # <<>> /\ Report[s][k.i] \in stored
        /\ b \subseteq k.buf /\ k.buf \cup k.window \subseteq b \cup job[s].window
        /\ ~rollup => k.window = {}
  <2> HIDE DEF j
  <2>0. Proceeds(s, j) /\ (~rollup => job[s].window = {})
    BY <1>0 DEF j, JobOK
  <2>1. CASE Report[s] = <<>>
    <3>1. job' = [job EXCEPT ![s] = [j EXCEPT !.at = "attach"]]
      BY <2>0, <2>1 DEF Proceeds
    <3>2. /\ [j EXCEPT !.at = "attach"] \in Job
          /\ [j EXCEPT !.at = "attach"].at = "attach" /\ [j EXCEPT !.at = "attach"].i = j.i
          /\ ~[j EXCEPT !.at = "attach"].broken /\ ~[j EXCEPT !.at = "attach"].known
          /\ [j EXCEPT !.at = "attach"].buf = b
          /\ [j EXCEPT !.at = "attach"].window = job[s].window
      BY <1>1 DEF Job
    <3> QED
      BY <1>1, <2>0, <2>1, <3>1, <3>2
  <2>2. CASE Report[s] # <<>>
    <3>1. PICK due \in Due :
            job' = [job EXCEPT ![s] =
                      [j EXCEPT !.buf = IF due THEN @ \cup j.window ELSE @,
                                !.window = IF due THEN {} ELSE @,
                                !.at = "store", !.known = Report[s][j.i] \in stored]]
      BY <2>0, <2>2 DEF Proceeds, Looks
    <3>2. PICK known \in BOOLEAN, buf \in SUBSET Events, window \in SUBSET Events :
            /\ job' = [job EXCEPT ![s] = [j EXCEPT !.buf = buf, !.window = window,
                                                   !.at = "store", !.known = known]]
            /\ known => Report[s][j.i] \in stored
            /\ b \subseteq buf /\ buf \cup window \subseteq b \cup job[s].window
            /\ window = {} \/ window = job[s].window
      <4>1. PICK known \in BOOLEAN : known = (Report[s][j.i] \in stored)
        <5>1. CASE Report[s][j.i] \in stored
          <6>1. TRUE = (Report[s][j.i] \in stored)
            BY <5>1
          <6> QED
            BY <6>1
        <5>2. CASE Report[s][j.i] \notin stored
          <6>1. FALSE = (Report[s][j.i] \in stored)
            BY <5>2
          <6> QED
            BY <6>1
        <5> QED
          BY <5>1, <5>2
      <4>2. CASE due
        <5>1. job' = [job EXCEPT ![s] = [j EXCEPT !.buf = b \cup job[s].window, !.window = {},
                                                  !.at = "store", !.known = known]]
          BY <1>1, <3>1, <4>1, <4>2
        <5>2. b \cup job[s].window \in SUBSET Events
          BY <1>1
        <5> QED
          BY <4>1, <5>1, <5>2
      <4>3. CASE ~due
        <5>1. job' = [job EXCEPT ![s] = [j EXCEPT !.buf = b, !.window = job[s].window,
                                                  !.at = "store", !.known = known]]
          BY <1>1, <3>1, <4>1, <4>3
        <5> QED
          BY <1>1, <4>1, <5>1
      <4> QED
        BY <4>2, <4>3
    <3> DEFINE k == [j EXCEPT !.buf = buf, !.window = window, !.at = "store", !.known = known]
    <3>3. /\ k \in Job /\ k.at = "store" /\ k.i = j.i /\ k.broken = j.broken
          /\ k.known = known /\ k.buf = buf /\ k.window = window
      BY <1>1 DEF Job
    <3> QED
      BY <1>1, <2>0, <2>2, <3>2, <3>3
  <2> QED
    BY <2>1, <2>2
<1>4. PICK k \in Job :
        /\ job' = [job EXCEPT ![s] = k]
        /\ k.at = (IF Report[s] = <<>> THEN "attach" ELSE "store")
        /\ k.i = job[s].i /\ ~k.broken
        /\ k.known => Report[s] # <<>> /\ Report[s][k.i] \in stored
        /\ b \subseteq k.buf /\ k.buf \cup k.window \subseteq b \cup job[s].window
        /\ ~rollup => k.window = {}
  BY <1>3
<1>5. PlaceOK(s, k)
  BY <1>0, <1>2, <1>4 DEF JobOK, PlaceOK
<1>6. StoredOK(s, k, stored')
  BY <1>0, <1>4 DEF JobOK, StoredOK
<1>7. AuditedOK(s, k, events)
  <2>1. \A e : e \in job[s].buf \cup trail[s] => e \in k.buf \cup events
    BY <1>4
  <2> QED
    BY <1>0, <1>4, <2>1 DEF JobOK, AuditedOK
<1>8. JobOK(s, k, stored', events)
  BY <1>0, <1>4, <1>5, <1>6, <1>7 DEF JobOK
<1>9. Truthful(s, events \cup k.buf \cup k.window)
  <2>1. events \cup k.buf \cup k.window \subseteq Told(s)
    BY <1>4 DEF Told
  <2> QED
    BY <2>1, TruthfulOld
<1>10. /\ stored \subseteq stored' /\ stored' \subseteq Findings \ (Poison \cup Unmapped)
       /\ k.at # "idle"
  BY <1>0, <1>4 DEF TypeOK
<1> QED
  BY <1>4, <1>8, <1>9, <1>10, OpenStep

\* A finding without an asset is noted as failed; the others go on to their asset.
LEMMA ResolveKeeps ==
  ASSUME IInv, NEW s \in Senders, Resolve(s)
  PROVE  IInv'
<1>0. TypeOK /\ JobOK(s, job[s], stored, trail[s])
  BY JobHolds DEF IInv
<1>1. /\ job[s] \in Job /\ job[s].buf \in SUBSET Events /\ trail[s] \in SUBSET Events
      /\ job[s].at = "resolve" /\ UNCHANGED <<rollup, asset, stored, trail, faults>>
      /\ asset' \in BOOLEAN /\ trail' = [trail EXCEPT ![s] = trail[s]]
  BY <1>0, JobType DEF Resolve, TypeOK
<1>2. CASE Report[s] # <<>> /\ (job[s].broken \/ Report[s][job[s].i] \in Unmapped)
  <2>1. Fails(s, job[s])
    BY <1>2 DEF Resolve
  <2> QED
    BY <1>1, <1>2, <2>1, FailsKeeps
<1>3. CASE ~(Report[s] # <<>> /\ (job[s].broken \/ Report[s][job[s].i] \in Unmapped))
  <2>1. /\ UNCHANGED client /\ ~job[s].broken
        /\ Report[s] # <<>> => Report[s][job[s].i] \notin Unmapped
    BY <1>0, <1>1, <1>3 DEF Resolve, JobOK, PlaceOK
  <2>2. CASE asset
    <3>1. Proceeds(s, job[s]) /\ [job[s] EXCEPT !.buf = job[s].buf] = job[s]
      BY <1>1, <1>3, <2>2 DEF Resolve, Job
    <3>2. Proceeds(s, [job[s] EXCEPT !.buf = job[s].buf])
      BY <3>1
    <3>3. job[s].buf \cup trail[s] = trail[s] \cup job[s].buf
      OBVIOUS
    <3> QED
      BY <1>1, <2>1, <3>2, <3>3, ProceedsKeeps
  <2>3. CASE ~asset
    <3> DEFINE k == [job[s] EXCEPT !.at = "asset"]
    <3>1. job' = [job EXCEPT ![s] = k]
      BY <1>3, <2>3 DEF Resolve
    <3>2. /\ k \in Job /\ k.at = "asset" /\ k.i = job[s].i /\ k.broken = job[s].broken
          /\ k.known = job[s].known /\ k.buf = job[s].buf /\ k.window = job[s].window
      BY <1>1 DEF Job
    <3> HIDE DEF k
    <3>3. JobOK(s, k, stored', trail[s])
      BY <1>0, <1>1, <2>1, <3>2 DEF JobOK, PlaceOK, StoredOK, AuditedOK
    <3>4. Truthful(s, trail[s] \cup k.buf \cup k.window)
      BY <1>1, <3>2, TruthfulOld DEF Told
    <3>5. stored \subseteq stored' /\ stored' \subseteq Findings \ (Poison \cup Unmapped)
      BY <1>0, <1>1 DEF TypeOK
    <3>6. k.at # "idle" /\ UNCHANGED <<rollup, client, faults>>
      BY <1>1, <2>1, <3>2
    <3> QED
      BY <1>1, <3>1, <3>2, <3>3, <3>4, <3>5, <3>6, OpenStep
  <2> QED
    BY <2>2, <2>3
<1> QED
  BY <1>2, <1>3

\* The asset row's commit keeps the events before it; losing a race for the row breaks
\* the session.
LEMMA EnsureAssetKeeps ==
  ASSUME IInv, NEW s \in Senders, EnsureAsset(s)
  PROVE  IInv'
<1>0. TypeOK /\ JobOK(s, job[s], stored, trail[s])
  BY JobHolds DEF IInv
<1>1. /\ job[s] \in Job /\ job[s].buf \in SUBSET Events /\ trail[s] \in SUBSET Events
      /\ job[s].at = "asset" /\ UNCHANGED <<rollup, stored, faults>>
  BY <1>0, JobType DEF EnsureAsset
<1>2. ~job[s].broken /\ (Report[s] # <<>> => Report[s][job[s].i] \notin Unmapped)
  BY <1>0, <1>1 DEF JobOK, PlaceOK
<1>3. CASE /\ ~asset /\ asset' = TRUE /\ Committed(s, job[s])
           /\ Proceeds(s, [job[s] EXCEPT !.buf = {}]) /\ UNCHANGED client
  <2>1. /\ trail' = [trail EXCEPT ![s] = trail[s] \cup job[s].buf]
        /\ trail[s] \cup job[s].buf \in SUBSET Events /\ {} \in SUBSET Events
    BY <1>0, <1>1, <1>3 DEF TypeOK, Committed
  <2>2. asset' \in BOOLEAN
    BY <1>3
  <2>3. /\ {} \cup (trail[s] \cup job[s].buf) = trail[s] \cup job[s].buf
        /\ trail[s] \subseteq trail[s] \cup job[s].buf
    OBVIOUS
  <2> QED
    BY <1>1, <1>2, <1>3, <2>1, <2>2, <2>3, ProceedsKeeps
<1>4. CASE /\ IF Report[s] = <<>> THEN Repeats(s) ELSE Fails(s, Broken(job[s]))
           /\ UNCHANGED <<asset, trail>>
  <2>1. asset' \in BOOLEAN /\ faults' \in 0 .. MaxFaults
    BY <1>0, <1>1, <1>4 DEF TypeOK
  <2>2. CASE Report[s] = <<>>
    BY <1>1, <1>4, <2>1, <2>2, UnansweredAlone DEF Unanswered
  <2>3. CASE Report[s] # <<>>
    BY <1>1, <1>2, <1>4, <2>1, <2>3, BrokenFacts, FailsKeeps
  <2> QED
    BY <2>2, <2>3
<1> QED
  BY <1>3, <1>4 DEF EnsureAsset

\* A finding is stored with the events before it, or its failed flush breaks the session.
LEMMA StoreKeeps ==
  ASSUME IInv, NEW s \in Senders, Store(s)
  PROVE  IInv'
<1> DEFINE f == Report[s][job[s].i]
<1>0. TypeOK /\ JobOK(s, job[s], stored, trail[s])
  BY JobHolds DEF IInv
<1>1. /\ job[s] \in Job /\ job[s].buf \in SUBSET Events /\ trail[s] \in SUBSET Events
      /\ job[s].known \in BOOLEAN /\ job[s].at = "store"
      /\ UNCHANGED <<rollup, asset, faults>> /\ asset' \in BOOLEAN
  BY <1>0, JobType DEF Store, TypeOK
<1>2. /\ Report[s] # <<>> /\ job[s].i \in 1 .. Len(Report[s]) /\ f \in Findings
      /\ ~job[s].broken /\ f \notin Unmapped
  <2>1. /\ Report[s] # <<>> /\ job[s].i <= Len(Report[s]) /\ job[s].i \in 1 .. Len(Report[s]) + 1
        /\ ~job[s].broken /\ f \notin Unmapped
    BY <1>0, <1>1 DEF JobOK, PlaceOK
  <2> QED
    BY <2>1, ReportType
<1>3. CASE f \in Poison \/ (~job[s].known /\ f \in stored)
  <2>1. Fails(s, Broken(job[s])) /\ UNCHANGED <<stored, trail>>
    BY <1>3 DEF Store
  <2> QED
    BY <1>1, <1>2, <2>1, BrokenFacts, FailsKeeps
<1>4. CASE ~(f \in Poison \/ (~job[s].known /\ f \in stored))
  <2> DEFINE j == [job[s] EXCEPT !.buf = {}]
             events == trail[s] \cup job[s].buf
  <2>0. PICK o \in {"merged", "new"} : o = IF job[s].known THEN "merged" ELSE "new"
    OBVIOUS
  <2>1. PICK due \in Due :
          job' = [job EXCEPT ![s] = Advance(s, Noted(j, <<o, f>>, due))]
    BY <1>4, <2>0 DEF Store
  <2>2. /\ stored' = stored \cup {f} /\ UNCHANGED client
        /\ trail' = [trail EXCEPT ![s] = events] /\ events \in SUBSET Events
    BY <1>0, <1>1, <1>4 DEF Store, Committed, TypeOK
  <2>3. /\ j \in Job /\ j.i = job[s].i /\ ~j.broken /\ j.buf = {} /\ j.window = job[s].window
    BY <1>1, <1>2 DEF Job
  <2>4. /\ o \in Outcomes /\ <<o, f>> \in Events
        /\ o = "merged" => f \in stored'
        /\ o = "new" => f \in stored' \ stored
    BY <1>2, <1>4, <2>0, <2>2, EventType DEF Outcomes
  <2> HIDE DEF j
  <2>5. ~Raises(j, due)
    BY <2>3 DEF Raises
  <2> DEFINE m == Noted(j, <<o, f>>, due)
             k == Advance(s, m)
  <2>6. /\ k \in Job /\ k.at # "idle"
        /\ k.buf \cup k.window = job[s].window \cup {<<o, f>>}
    <3>1. m \in Job /\ m.buf \cup m.window = job[s].window \cup {<<o, f>>}
      BY <2>3, <2>4, NotedFacts
    <3> HIDE DEF m
    <3> QED
      BY <3>1, AdvanceFacts
  <2>7. JobOK(s, k, stored', events)
    <3>1. \A n \in 1 .. j.i - 1 :
            Report[s][n] \in Unmapped \cup stored' \/ (j.broken /\ j.window # {})
      BY <1>0, <1>1, <1>2, <2>2, <2>3 DEF JobOK, StoredOK
    <3>2. ~rollup => \A n \in 1 .. j.i - 1 :
            \E p \in Outcomes : <<p, Report[s][n]>> \in j.buf \cup events
      BY <1>0, <1>1, <1>2, <2>3 DEF JobOK, AuditedOK
    <3>3. Report[s][j.i] \in Unmapped \cup stored' \/ j.broken
      BY <2>2, <2>3
    <3>4. ~rollup => j.window = {}
      BY <1>0, <2>3 DEF JobOK
    <3> HIDE DEF events
    <3> QED
      BY <1>2, <2>2, <2>3, <2>4, <2>5, <3>1, <3>2, <3>3, <3>4, NextFinding
  <2> HIDE DEF k, m
  <2>8. Truthful(s, events \cup k.buf \cup k.window)
    <3>1. events \cup k.buf \cup k.window \subseteq Told(s) \cup {<<o, f>>}
      BY <2>6 DEF Told
    <3> HIDE DEF f, events
    <3> QED
      BY <1>2, <2>2, <2>4, <3>1, TruthfulAdd
  <2>9. /\ stored \subseteq stored' /\ stored' \subseteq Findings \ (Poison \cup Unmapped)
        /\ trail[s] \subseteq events /\ job' = [job EXCEPT ![s] = k]
    BY <1>0, <1>2, <1>4, <2>1, <2>2 DEF TypeOK, k, m
  <2> HIDE DEF events
  <2> QED
    BY <1>1, <2>2, <2>6, <2>7, <2>8, <2>9, OpenStep
<1> QED
  BY <1>3, <1>4

\* An import commits the last events, or breaks the session, or there is none.
LEMMA AttachKeeps ==
  ASSUME IInv, NEW s \in Senders, Attach(s)
  PROVE  IInv'
<1>0. TypeOK /\ JobOK(s, job[s], stored, trail[s])
  BY JobHolds DEF IInv
<1>1. /\ job[s] \in Job /\ job[s].buf \in SUBSET Events /\ trail[s] \in SUBSET Events
      /\ job[s].at = "attach" /\ UNCHANGED <<rollup, asset, stored, client, faults>>
      /\ asset' \in BOOLEAN /\ UNCHANGED <<rollup, client, faults>>
      /\ stored \subseteq stored' /\ stored' \subseteq Findings \ (Poison \cup Unmapped)
  BY <1>0, JobType DEF Attach, TypeOK
<1>2. \E k \in Job, events \in SUBSET Events :
        /\ job' = [job EXCEPT ![s] = k] /\ trail' = [trail EXCEPT ![s] = events]
        /\ trail[s] \subseteq events /\ events \cup k.buf \subseteq trail[s] \cup job[s].buf
        /\ k.at = "close" /\ k.i = job[s].i /\ ~k.known /\ k.window = job[s].window
        /\ job[s].broken => k.broken
        /\ k.broken => k.buf = {}
        /\ k.broken => job[s].broken \/ s \notin Attached \ BadAttached
        /\ k.broken => job[s].broken \/ s \in Attached
        /\ ~k.broken => trail[s] \cup job[s].buf \subseteq events \cup k.buf
        /\ s \in Attached \ BadAttached => k.buf = {}
  <2>0. /\ ~job[s].known
        /\ job[s].broken => job[s].buf = {}
    BY <1>0, <1>1 DEF JobOK, StoredOK
  <2>1. CASE Imports(s, job[s])
    <3> DEFINE k == [job[s] EXCEPT !.buf = {}, !.at = "close"]
               events == trail[s] \cup job[s].buf
    <3>1. job' = [job EXCEPT ![s] = k] /\ trail' = [trail EXCEPT ![s] = events]
      BY <1>0, <2>1 DEF Attach, Committed, TypeOK
    <3>2. /\ k \in Job /\ k.at = "close" /\ k.i = job[s].i /\ k.known = job[s].known
          /\ k.window = job[s].window /\ k.broken = job[s].broken /\ k.buf = {}
      BY <1>1 DEF Job
    <3>3. ~job[s].broken
      BY <2>1 DEF Imports
    <3> HIDE DEF k
    <3> QED
      BY <1>1, <2>0, <3>1, <3>2, <3>3
  <2>2. CASE ~Imports(s, job[s]) /\ s \in Attached
    <3> DEFINE k == [Broken(job[s]) EXCEPT !.at = "close"]
    <3>1. job' = [job EXCEPT ![s] = k] /\ trail' = [trail EXCEPT ![s] = trail[s]]
      BY <1>0, <2>2 DEF Attach, TypeOK
    <3>2. /\ k \in Job /\ k.at = "close" /\ k.i = job[s].i /\ k.known = job[s].known
          /\ k.window = job[s].window /\ k.broken /\ k.buf = {}
      BY <1>1, BrokenFacts DEF Job
    <3>3. job[s].broken \/ s \in BadAttached
      BY <2>2 DEF Imports
    <3> HIDE DEF k
    <3> QED
      BY <1>1, <2>0, <2>2, <3>1, <3>2, <3>3
  <2>3. CASE ~Imports(s, job[s]) /\ s \notin Attached
    <3> DEFINE k == [job[s] EXCEPT !.at = "close"]
    <3>1. job' = [job EXCEPT ![s] = k] /\ trail' = [trail EXCEPT ![s] = trail[s]]
      BY <1>0, <2>3 DEF Attach, TypeOK
    <3>2. /\ k \in Job /\ k.at = "close" /\ k.i = job[s].i /\ k.known = job[s].known
          /\ k.window = job[s].window /\ k.broken = job[s].broken /\ k.buf = job[s].buf
      BY <1>1 DEF Job
    <3> HIDE DEF k
    <3> QED
      BY <1>1, <2>0, <2>3, <3>1, <3>2
  <2> QED
    BY <2>1, <2>2, <2>3
<1>3. PICK k \in Job, events \in SUBSET Events :
        /\ job' = [job EXCEPT ![s] = k] /\ trail' = [trail EXCEPT ![s] = events]
        /\ trail[s] \subseteq events /\ events \cup k.buf \subseteq trail[s] \cup job[s].buf
        /\ k.at = "close" /\ k.i = job[s].i /\ ~k.known /\ k.window = job[s].window
        /\ job[s].broken => k.broken
        /\ k.broken => k.buf = {}
        /\ k.broken => job[s].broken \/ s \notin Attached \ BadAttached
        /\ k.broken => job[s].broken \/ s \in Attached
        /\ ~k.broken => trail[s] \cup job[s].buf \subseteq events \cup k.buf
        /\ s \in Attached \ BadAttached => k.buf = {}
  BY <1>2
<1>4. PlaceOK(s, k) /\ StoredOK(s, k, stored')
  BY <1>0, <1>1, <1>3 DEF JobOK, PlaceOK, StoredOK
<1>5. AuditedOK(s, k, events)
  BY <1>0, <1>1, <1>3 DEF JobOK, AuditedOK
<1>6. JobOK(s, k, stored', events)
  BY <1>0, <1>3, <1>4, <1>5 DEF JobOK
<1>7. Truthful(s, events \cup k.buf \cup k.window)
  BY <1>1, <1>3, TruthfulOld DEF Told
<1>8. k.at # "idle"
  BY <1>3
<1> QED
  BY <1>1, <1>3, <1>6, <1>7, <1>8, OpenStep

\* The end of the handler: 200 only if flush_final and the clean-up had a session that is
\* not broken, so only if no finding with an asset has failed.
LEMMA CloseKeeps ==
  ASSUME IInv, NEW s \in Senders, Close(s)
  PROVE  IInv'
<1> DEFINE last == [job[s] EXCEPT !.buf = @ \cup job[s].window, !.window = {}]
<1>0. TypeOK /\ JobOK(s, job[s], stored, trail[s])
  BY JobHolds DEF IInv
<1>1. /\ job[s] \in Job /\ job[s].buf \in SUBSET Events /\ job[s].window \in SUBSET Events
      /\ trail[s] \in SUBSET Events
      /\ job[s].at = "close" /\ job[s].i = Len(Report[s]) + 1 /\ Len(Report[s]) \in Nat
      /\ UNCHANGED <<rollup, asset, stored>>
  BY <1>0, JobType, ReportType DEF Close, JobOK, PlaceOK
<1>2. asset' \in BOOLEAN
  BY <1>0, <1>1 DEF TypeOK
<1>3. CASE job[s].broken /\ (job[s].window # {} \/ Cleans(s))
  <2>1. Repeats(s) /\ UNCHANGED <<trail, faults>>
    BY <1>3 DEF Close
  <2>2. faults' \in 0 .. MaxFaults
    BY <1>0, <2>1 DEF TypeOK
  <2> QED
    BY <1>1, <1>2, <2>1, <2>2, UnansweredAlone DEF Unanswered
<1>4. CASE ~(job[s].broken /\ (job[s].window # {} \/ Cleans(s)))
  <2>1. /\ Committed(s, last) \/ UNCHANGED trail
        /\ \/ Answers(s, "ok") /\ UNCHANGED faults
           \/ faults < MaxFaults /\ faults' = faults + 1 /\ Unanswered(s)
    BY <1>4 DEF Close
  <2>2. faults' \in 0 .. MaxFaults
    <3>1. CASE UNCHANGED faults
      BY <1>0, <3>1 DEF TypeOK
    <3> QED
      BY <1>0, <2>1, <3>1, FaultType
  <2>3. PICK events \in SUBSET Events :
          /\ trail' = [trail EXCEPT ![s] = events]
          /\ trail[s] \subseteq events /\ events \subseteq Told(s)
    <3>1. last.buf = job[s].buf \cup job[s].window
      BY <1>1 DEF Job
    <3>2. CASE Committed(s, last)
      <4>1. trail' = [trail EXCEPT ![s] = trail[s] \cup (job[s].buf \cup job[s].window)]
        BY <1>0, <3>1, <3>2 DEF Committed, TypeOK
      <4> QED
        BY <1>1, <4>1 DEF Told
    <3>3. CASE UNCHANGED trail
      BY <1>0, <1>1, <3>3 DEF Told, TypeOK
    <3> QED
      BY <2>1, <3>2, <3>3
  <2>4. CASE Unanswered(s)
    BY <1>1, <1>2, <2>2, <2>3, <2>4, UnansweredKeeps
  <2>5. CASE Answers(s, "ok")
    <3>1. Asked(s) \ Unmapped \subseteq stored
      <4>1. \A n \in 1 .. Len(Report[s]) : Report[s][n] \in Unmapped \cup stored
        BY <1>0, <1>1, <1>4 DEF JobOK, StoredOK
      <4> QED
        BY <4>1, ReportType
    <3>2. ASSUME s \in Attached \ BadAttached, ~rollup
          PROVE  \A g \in Asked(s) : \E o \in Outcomes : <<o, g>> \in events
      <4>1. \A n \in 1 .. Len(Report[s]) : \E o \in Outcomes : <<o, Report[s][n]>> \in trail[s]
        <5>1. ~job[s].broken /\ job[s].buf = {}
          BY <1>0, <1>1, <3>2 DEF JobOK, AuditedOK
        <5>2. \A n \in 1 .. job[s].i - 1 :
                \E o \in Outcomes : <<o, Report[s][n]>> \in job[s].buf \cup trail[s]
          BY <1>0, <1>1, <3>2, <5>1 DEF JobOK, AuditedOK
        <5> QED
          BY <1>1, <5>1, <5>2
      <4> QED
        BY <2>3, <4>1, ReportType
    <3>3. AnswerOK(s, "ok", stored, events)
      BY <3>1, <3>2 DEF AnswerOK
    <3>4. "ok" \in Known /\ ~("ok" = "none")
      BY DEF Known
    <3> QED
      BY <1>1, <1>2, <2>2, <2>3, <2>5, <3>3, <3>4, AnswersKeeps
  <2> QED
    BY <2>1, <2>4, <2>5
<1> QED
  BY <1>3, <1>4

\* A crash loses what the session had not committed.
LEMMA CrashKeeps ==
  ASSUME IInv, NEW s \in Senders, Crash(s)
  PROVE  IInv'
<1>1. /\ Unanswered(s) /\ UNCHANGED <<rollup, asset, stored, trail>>
      /\ faults < MaxFaults /\ faults' = faults + 1
  BY DEF Crash
<1>2. asset' \in BOOLEAN /\ faults' \in 0 .. MaxFaults
  <2>1. TypeOK
    BY DEF IInv
  <2>2. asset' \in BOOLEAN
    BY <1>1, <2>1 DEF TypeOK
  <2> QED
    BY <1>1, <2>1, <2>2, FaultType
<1> QED
  BY <1>1, <1>2, UnansweredAlone

----------------------------------------------------------------------------
(* The theorems.                                                           *)

\* The invariant holds at the start.
LEMMA InitIInv == Init => IInv
<1> SUFFICES ASSUME Init PROVE IInv
  OBVIOUS
<1>1. /\ stored = {} /\ \A s \in Senders : job[s] = Idle /\ trail[s] = {} /\ tries[s] = 0
      /\ \A s \in Senders : answer[s] \in {"none", "absent"}
  BY DEF Init
<1>2. \A s \in Senders : JobOK(s, job[s], stored, trail[s])
  BY <1>1, IdleOK
<1>3. TypeOK
  <2>1. /\ asset = FALSE /\ rollup \in BOOLEAN /\ stored = {} /\ faults = 0
        /\ trail = [s \in Senders |-> {}] /\ job = [s \in Senders |-> Idle]
        /\ tries = [s \in Senders |-> 0]
        /\ answer \in [Senders -> {"absent", "none", "ok", "rejected", "gave up", "cut"}]
    BY DEF Init
  <2>2. 0 \in 0 .. Attempts /\ 0 \in 0 .. MaxFaults
    BY BatchIngestAssumption
  <2>3. \A s \in Senders : /\ job[s].i \in 1 .. Len(Report[s]) + 1
                           /\ job[s].broken => job[s].buf = {}
                           /\ ~rollup => job[s].window = {}
    BY <1>2 DEF JobOK
  <2> QED
    BY <2>1, <2>2, <2>3, IdleType DEF TypeOK
<1>4. JobsInv
  BY <1>2 DEF JobsInv, JobOK
<1>5. TriesInv
  BY <1>1, BatchIngestAssumption DEF TriesInv
<1>6. EventsInv
  BY <1>1, IdleType DEF EventsInv, Told
<1>7. OkMeansStored /\ SealedMeansAudited
  BY <1>1, BatchIngestAssumption DEF OkMeansStored, SealedMeansAudited
<1> QED
  BY <1>3, <1>4, <1>5, <1>6, <1>7 DEF IInv

\* Every step keeps the invariant.
LEMMA NextIInv == IInv /\ [Next]_vars => IInv'
<1> SUFFICES ASSUME IInv, [Next]_vars PROVE IInv'
  OBVIOUS
<1>1. CASE UNCHANGED vars
  <2>1. UNCHANGED <<rollup, asset, stored, trail, job, tries, answer, faults>>
    BY <1>1 DEF vars, client
  <2>2. TypeOK'
    BY <2>1 DEF IInv, TypeOK
  <2>3. JobsInv'
    BY <2>1 DEF IInv, JobsInv, PlaceOK, StoredOK, AuditedOK
  <2>4. TriesInv' /\ EventsInv'
    BY <2>1 DEF IInv, TriesInv, EventsInv, Told
  <2>5. OkMeansStored' /\ SealedMeansAudited'
    BY <2>1 DEF IInv, OkMeansStored, SealedMeansAudited, Asked
  <2> QED
    BY <2>2, <2>3, <2>4, <2>5 DEF IInv
<1>2. ASSUME NEW s \in Senders, Work(s) \/ Crash(s) PROVE IInv'
  BY <1>2, PostKeeps, ResolveKeeps, EnsureAssetKeeps, StoreKeeps, AttachKeeps, CloseKeeps,
     CrashKeeps DEF Work
<1> QED
  BY <1>1, <1>2 DEF Next, Done

\* The invariant always holds.
LEMMA Invariant == Spec => []IInv
BY InitIInv, NextIInv, PTL DEF Spec

\* Whatever fails on the way: a scanner that is answered 200 finds every finding of its
\* report that has an asset in the database, although the loop of _ingest_from_parser goes
\* on after a finding has failed.
THEOREM OkAlwaysStored == Spec => []OkMeansStored
<1>1. IInv => OkMeansStored
  BY DEF IInv
<1> QED
  BY <1>1, Invariant, PTL

\* The trail a post leaves behind is truthful, each finding was created once, and a report
\* that ends with an import leaves none of its findings out.
THEOREM IngestAlwaysSound == Spec => []IngestSound
<1>1. ASSUME IInv PROVE IngestSound
  <2>1. TypeOK /\ EventsInv /\ SealedMeansAudited
    BY <1>1 DEF IInv
  <2>2. TrailSound
    BY <2>1 DEF EventsInv, TrailSound, Told
  <2> QED
    BY <2>1, <2>2 DEF IngestSound
<1> QED
  BY <1>1, Invariant, PTL
============================================================================
