-------------------------- MODULE VulnFeedsProofs --------------------------
(***************************************************************************)
(* Proofs about the vulnerability feeds, for any packages, executions,     *)
(* connections and bounds: refreshes exclude one another, and a completed  *)
(* refresh leaves every match with a finding.                              *)
(***************************************************************************)
EXTENDS VulnFeeds, FiniteSetTheorems, TLAPS

(***************************************************************************)
(* The inductive invariant.                                                *)
(***************************************************************************)

\* What a refresh has flushed for the findings.
Writes == UNION {[D -> Statuses] : D \in SUBSET Keys}

Exec == [pc : Pc, conn : Pool \cup Execs \cup {NoConn}, recs : SUBSET Record,
         cursor : 0..Len(Order), writes : Writes, clean : BOOLEAN, tries : 0..2]

Types ==
  /\ exec \in [Execs -> Exec]
  /\ lock \in [conn : Pool \cup Execs \cup {NoConn}, depth : Nat]
  /\ posting \in Nat /\ posting <= posts /\ posts \in 0..MaxPosts

Working(e) == exec[e].pc \in {"osv", "feed", "match", "commit"}

\* No two executions share a connection; one that waits has none; and one that
\* works holds the lock on the connection of its transaction.
ConnInv ==
  /\ \A d, e \in Execs : exec[d].conn = exec[e].conn /\ exec[e].conn # NoConn => d = e
  /\ \A e \in Execs : exec[e].pc \in {"off", "queued"} => exec[e].conn = NoConn
  /\ \A e \in Execs : Working(e) => exec[e].conn # NoConn /\ lock.conn = exec[e].conn

\* What a refresh is about to commit, as long as nothing it has matched changed:
\* every match is opened or set aside already.
OpensMatches(e) ==
  \A k \in Matched(records \cup exec[e].recs, sbom) :
    k \in DOMAIN exec[e].writes /\ exec[e].writes[k] \notin {"none", "Resolved", "Mitigated"}

WritesInv ==
  \A e \in Execs : exec[e].pc = "commit" /\ exec[e].clean => OpensMatches(e)

\* The connections an execution may have, and the parts of TypeOK that Types and
\* ConnTypes do not say.
ConnTypes == \A e \in Execs : exec[e].conn \in Pool \cup {e, NoConn}

RestTypes ==
  /\ sbom \subseteq Packages /\ affected \subseteq Packages /\ records \subseteq Record
  /\ cursor \in 0..Len(Order) /\ finding \in [Keys -> Statuses] /\ row \in Row
  /\ lock.conn = NoConn <=> lock.depth = 0
  /\ settled \in BOOLEAN

FeedSound ==
  Types /\ ConnTypes /\ RestTypes /\ ConnInv /\ WritesInv /\ MatchesOpen

(***************************************************************************)
(* Types.                                                                  *)
(***************************************************************************)

\* The uncommitted writes of a refresh are statuses of some keys.
LEMMA WritesFacts ==
  ASSUME NEW w \in Writes
  PROVE  DOMAIN w \in SUBSET Keys /\ \A k \in DOMAIN w : w[k] \in Statuses
BY DEF Writes

\* Statuses of some keys are writes.
LEMMA MakeWrites ==
  ASSUME NEW D \in SUBSET Keys, NEW w \in [D -> Statuses]
  PROVE  w \in Writes
BY DEF Writes

\* An execution that has not begun.
LEMMA NewExecFacts ==
  /\ NewExec \in Exec /\ NewExec.pc = "off" /\ NewExec.conn = NoConn
  /\ Queued \in Exec /\ Queued.pc = "queued" /\ Queued.conn = NoConn
<1>1. NewExec.writes \in Writes
  <2>1. NewExec.writes = [k \in {} |-> "none"]
    BY DEF NewExec
  <2>2. [k \in {} |-> "none"] \in [{} -> Statuses] /\ {} \in SUBSET Keys
    OBVIOUS
  <2>3. QED
    BY <2>1, <2>2, MakeWrites
<1>2. Len(Order) \in Nat
  BY FeedsAssumption
<1>3. NewExec \in Exec /\ NewExec.pc = "off" /\ NewExec.conn = NoConn
  <2> HIDE DEF Writes
  <2>1. 0 \in 0..Len(Order)
    BY <1>2
  <2>2. QED
    BY <1>1, <2>1 DEF NewExec, Exec, Pc
<1>4. QED
  BY <1>3 DEF Queued, Exec, Pc

\* What the types say of an execution.
LEMMA ExecFields ==
  ASSUME NEW x \in Exec
  PROVE  /\ x.pc \in Pc /\ x.conn \in Pool \cup Execs \cup {NoConn}
         /\ x.recs \in SUBSET Record /\ x.cursor \in 0..Len(Order)
         /\ x.writes \in Writes /\ x.clean \in BOOLEAN /\ x.tries \in 0..2
BY DEF Exec

\* The packages are finitely many.
LEMMA PackagesFinite ==
  /\ Len(Order) \in Nat
  /\ IsFiniteSet(Packages) /\ Cardinality(Packages) <= Len(Order)
<1> DEFINE n == Len(Order)
<1>1. n \in Nat /\ Order \in [1..n -> Packages] /\ DOMAIN Order = 1..n
  BY FeedsAssumption
<1>2. \A p \in Packages : \E m \in 1..n : Order[m] = p
  BY <1>1 DEF Packages
<1>3. Order \in Surjection(1..n, Packages)
  BY <1>1, <1>2 DEF Surjection
<1>4. IsFiniteSet(1..n) /\ Cardinality(1..n) = n
  <2>1. IsFiniteSet(1..n) /\ Cardinality(1..n) = IF 1 > n THEN 0 ELSE n - 1 + 1
    BY <1>1, FS_Interval
  <2>2. QED
    BY <1>1, <2>1
<1>5. QED
  BY <1>1, <1>3, <1>4, FS_Surjection

\* There are no more candidates than packages.
LEMMA CandidatesFacts ==
  ASSUME sbom \in SUBSET Packages
  PROVE  /\ IsFiniteSet(sbom) /\ TotalCandidates \in 0..Len(Order)
         /\ sbom = {} <=> TotalCandidates = 0
<1> DEFINE n == Len(Order)
<1>1. n \in Nat
  BY PackagesFinite
<1>2. IsFiniteSet(Packages) /\ Cardinality(Packages) <= n
  BY PackagesFinite
<1>3. IsFiniteSet(sbom) /\ Cardinality(sbom) <= Cardinality(Packages)
  BY <1>2, FS_Subset
<1>4. Cardinality(sbom) \in Nat /\ Cardinality(Packages) \in Nat
  BY <1>2, <1>3, FS_CardinalityType
<1>5. Cardinality(sbom) <= n
  BY <1>1, <1>2, <1>3, <1>4
<1>6. sbom = {} <=> Cardinality(sbom) = 0
  BY <1>3, FS_EmptySet
<1>7. QED
  BY <1>1, <1>3, <1>4, <1>5, <1>6 DEF TotalCandidates

\* The cursor stays within the packages.
LEMMA CursorType ==
  ASSUME sbom \in SUBSET Packages, NEW c \in 0..Len(Order)
  PROVE  NextCursor(c) \in 0..Len(Order)
<1>1. Len(Order) \in Nat /\ TotalCandidates \in 0..Len(Order)
  BY FeedsAssumption, CandidatesFacts
<1>2. CASE TotalCandidates = 0
  BY <1>1, <1>2 DEF NextCursor
<1>3. CASE TotalCandidates # 0
  <2> DEFINE d == TotalCandidates
  <2>1. d \in Nat /\ d > 0 /\ d <= Len(Order)
    BY <1>1, <1>3
  <2>2. WindowSize \in Nat
    BY <2>1, FeedsAssumption DEF WindowSize
  <2>3. \A m \in Nat : m % d \in 0..(d - 1)
    <3> HIDE DEF d
    <3>1. QED
      BY <2>1
  <2>4. c % d \in 0..(d - 1) /\ ((c % d) + WindowSize) % d \in 0..(d - 1)
    <3>1. c \in Nat
      BY <1>1
    <3>2. c % d \in 0..(d - 1)
      BY <2>3, <3>1
    <3>3. (c % d) + WindowSize \in Nat
      BY <2>2, <3>2
    <3>4. QED
      BY <2>3, <3>2, <3>3
  <2>5. NextCursor(c) \in {c % d, ((c % d) + WindowSize) % d}
    BY <1>3 DEF NextCursor, SafeCursor
  <2> HIDE DEF d
  <2>6. QED
    BY <1>1, <2>1, <2>4, <2>5
<1>4. QED
  BY <1>2, <1>3

(***************************************************************************)
(* Steps of one execution: what it may become.                             *)
(***************************************************************************)

\* Execution e becomes x.
Becomes(e, x) ==
  /\ e \in Execs /\ x \in Exec /\ exec' = [exec EXCEPT ![e] = x]
  /\ \/ x.conn \in {NoConn, e}
     \/ x.conn \in Pool /\ \A d \in Execs \ {e} : exec[d].conn # x.conn
  /\ x.pc \in {"off", "queued"} => x.conn = NoConn
  /\ x.pc \in {"osv", "feed", "match", "commit"} => x.conn # NoConn /\ lock'.conn = x.conn
  /\ \A d \in Execs \ {e} : Working(d) => lock'.conn = exec[d].conn

\* A step of one execution keeps types and connections apart.
LEMMA BecomesKeeps ==
  ASSUME Types, ConnTypes, ConnInv, NEW e, NEW x, Becomes(e, x)
  PROVE  /\ exec' \in [Execs -> Exec] /\ ConnTypes' /\ ConnInv'
         /\ e \in Execs /\ exec'[e] = x /\ \A d \in Execs \ {e} : exec'[d] = exec[d]
<1>1. /\ e \in Execs /\ x \in Exec /\ exec' \in [Execs -> Exec]
      /\ exec'[e] = x /\ \A d \in Execs \ {e} : exec'[d] = exec[d]
  BY DEF Becomes, Types
<1>2. Pool \cap Execs = {} /\ NoConn \notin Pool \cup Execs
  BY FeedsAssumption
<1>3. ConnTypes'
  BY <1>1 DEF Becomes, ConnTypes
<1>4. ASSUME NEW c \in Execs, NEW d \in Execs, exec'[c].conn = exec'[d].conn,
             exec'[d].conn # NoConn, c # d
      PROVE  FALSE
  <2>1. CASE c # e /\ d # e
    BY <1>1, <1>4, <2>1 DEF ConnInv
  <2>2. ASSUME NEW b \in Execs \ {e}, exec[b].conn = x.conn, x.conn # NoConn PROVE FALSE
    <3>1. x.conn = e
      BY <2>2 DEF Becomes
    <3>2. exec[b].conn \in Pool \cup {b, NoConn}
      BY DEF ConnTypes
    <3>3. QED
      BY <1>1, <1>2, <2>2, <3>1, <3>2
  <2>3. QED
    BY <1>1, <1>4, <2>1, <2>2
<1>5. \A d \in Execs : exec'[d].pc \in {"off", "queued"} => exec'[d].conn = NoConn
  BY <1>1 DEF Becomes, ConnInv
<1>6. \A d \in Execs : Working(d)' => exec'[d].conn # NoConn /\ lock'.conn = exec'[d].conn
  BY <1>1 DEF Becomes, ConnInv, Working
<1>7. QED
  BY <1>1, <1>3, <1>4, <1>5, <1>6 DEF ConnInv

\* Two executions never work at once.
LEMMA OneWorks ==
  ASSUME ConnInv, NEW d \in Execs, NEW e \in Execs, Working(d), Working(e)
  PROVE  d = e
BY DEF ConnInv

\* Where nothing that was matched changes, every match keeps its finding.
LEMMA SettledKept ==
  ASSUME MatchesOpen, UNCHANGED <<sbom, records, finding>>, settled' \in {settled, FALSE}
  PROVE  MatchesOpen'
<1>1. Matched(records, sbom)' = Matched(records, sbom)
  BY DEF Matched
<1>2. QED
  BY <1>1 DEF MatchesOpen

\* And where no execution gets ready to commit, what would be committed matches.
NoneReady ==
  \A e \in Execs : exec'[e].pc = "commit" /\ exec'[e].clean =>
    /\ exec[e].pc = "commit" /\ exec[e].clean
    /\ exec'[e].recs = exec[e].recs /\ exec'[e].writes = exec[e].writes

\* What a refresh is about to commit still matches when nothing it has matched changes.
LEMMA WritesKept ==
  ASSUME WritesInv, UNCHANGED <<sbom, records, finding>>, NoneReady
  PROVE  WritesInv'
<1> SUFFICES ASSUME NEW e \in Execs, exec'[e].pc = "commit", exec'[e].clean
             PROVE  OpensMatches(e)'
  BY DEF WritesInv
<1>1. /\ exec'[e].recs = exec[e].recs /\ exec'[e].writes = exec[e].writes
      /\ OpensMatches(e)
  BY DEF NoneReady, WritesInv
<1>2. Matched(records \cup exec[e].recs, sbom)' = Matched(records \cup exec[e].recs, sbom)
  BY <1>1 DEF Matched
<1>3. QED
  BY <1>1, <1>2 DEF OpensMatches

\* The types of executions and lock, and those of the rest.
LEMMA TypesSplit ==
  ASSUME Types
  PROVE  TypeOK <=> ConnTypes /\ RestTypes
<1>1. \A e \in Execs : /\ exec[e].pc \in Pc /\ exec[e].recs \subseteq Record
                       /\ DOMAIN exec[e].writes \subseteq Keys
  BY ExecFields, WritesFacts DEF Types
<1>2. posting \in 0..MaxPosts
  <2>1. MaxPosts \in Nat
    BY FeedsAssumption
  <2>2. QED
    BY <2>1 DEF Types
<1>3. lock.conn \in Pool \cup Execs \cup {NoConn}
  BY DEF Types
<1>4. QED
  BY <1>1, <1>2, <1>3 DEF TypeOK, ConnTypes, RestTypes

\* A step that disturbs nothing a refresh matches and lets none get ready to
\* commit keeps the invariant if it keeps the types and the connections.
LEMMA QuietStep ==
  ASSUME FeedSound, Types', ConnTypes', RestTypes', ConnInv', NoneReady,
         UNCHANGED <<sbom, records, finding>>, settled' \in {settled, FALSE}
  PROVE  FeedSound'
BY SettledKept, WritesKept DEF FeedSound

(***************************************************************************)
(* Starting a refresh.                                                     *)
(***************************************************************************)

\* A new execution takes a place that is off and holds no connection.
LEMMA FreeFacts ==
  ASSUME AnyFree, ConnInv
  PROVE  Free \in Execs /\ exec[Free].pc = "off" /\ exec[Free].conn = NoConn
BY DEF AnyFree, Free, ConnInv

\* A marked status row is typed.
LEMMA MarkRowType ==
  ASSUME NEW st \in {"idle", "queued", "running", "completed", "failed"}, MarkRow(st)
  PROVE  row' \in Row
BY DEF MarkRow, Row

\* An execution that is queued holds no connection and no lock.
LEMMA QueuedBecomes ==
  ASSUME FeedSound, AnyFree, lock' = lock, exec' = [exec EXCEPT ![Free] = Queued]
  PROVE  /\ exec' \in [Execs -> Exec] /\ ConnTypes' /\ ConnInv' /\ NoneReady
<1>1. Free \in Execs
  BY FreeFacts DEF FeedSound
<1>2. Becomes(Free, Queued)
  BY <1>1, NewExecFacts DEF Becomes, FeedSound, ConnInv
<1>3. /\ exec' \in [Execs -> Exec] /\ ConnTypes' /\ ConnInv' /\ exec'[Free] = Queued
      /\ \A d \in Execs \ {Free} : exec'[d] = exec[d]
  BY <1>2, BecomesKeeps DEF FeedSound
<1>4. NoneReady
  BY <1>3, NewExecFacts DEF NoneReady
<1>5. QED
  BY <1>3, <1>4

\* Beat queues a task, which has no connection yet.
LEMMA BeatTickKeeps ==
  ASSUME FeedSound, BeatTick
  PROVE  FeedSound'
<1>1. /\ UNCHANGED <<sbom, affected, records, cursor, finding, row, lock, posting, settled,
                     posts, inlines, changes, faults>>
      /\ AnyFree /\ exec' = [exec EXCEPT ![Free] = Queued]
  BY DEF BeatTick
<1>2. exec' \in [Execs -> Exec] /\ ConnTypes' /\ ConnInv' /\ NoneReady
  BY <1>1, QueuedBecomes
<1>3. Types' /\ RestTypes'
  BY <1>1, <1>2 DEF FeedSound, Types, RestTypes
<1>4. QED
  BY <1>1, <1>2, <1>3, QuietStep

\* A request reads the status row.
LEMMA PostReadKeeps ==
  ASSUME FeedSound, PostRead
  PROVE  FeedSound'
<1>1. /\ UNCHANGED <<sbom, affected, records, cursor, finding, row, lock, exec, settled,
                     inlines, changes, faults>>
      /\ posts < MaxPosts /\ posts' = posts + 1 /\ posting' \in {posting, posting + 1}
  BY DEF PostRead
<1>2. ConnTypes' /\ ConnInv' /\ NoneReady /\ RestTypes'
  BY <1>1 DEF FeedSound, ConnTypes, ConnInv, NoneReady, RestTypes, Working
<1>3. Types'
  BY <1>1, FeedsAssumption DEF FeedSound, Types
<1>4. QED
  BY <1>1, <1>2, <1>3, QuietStep

\* A request writes the status row and queues a task, which may fail.
LEMMA PostWriteKeeps ==
  ASSUME FeedSound, PostWrite
  PROVE  FeedSound'
<1>1. /\ UNCHANGED <<sbom, affected, records, cursor, finding, lock, settled,
                     posts, inlines, changes>>
      /\ posting > 0 /\ posting' = posting - 1
  BY DEF PostWrite
<1>2. row' \in Row
  BY MarkRowType DEF PostWrite
<1>3. exec' \in [Execs -> Exec] /\ ConnTypes' /\ ConnInv' /\ NoneReady
  <2>1. CASE AnyFree /\ exec' = [exec EXCEPT ![Free] = Queued]
    BY <1>1, <2>1, QueuedBecomes
  <2>2. CASE UNCHANGED exec
    BY <1>1, <2>2 DEF FeedSound, Types, ConnTypes, ConnInv, NoneReady, Working
  <2>3. QED
    BY <2>1, <2>2 DEF PostWrite
<1>4. Types' /\ RestTypes'
  BY <1>1, <1>2, <1>3 DEF FeedSound, Types, RestTypes
<1>5. QED
  BY <1>1, <1>3, <1>4, QuietStep

\* A refresh begins on connection c when nobody works: whoever works has the lock.
LEMMA BegunKeeps ==
  ASSUME FeedSound, NEW e \in Execs, NEW c \in Pool \cup {e}, exec[e].pc \in {"off", "queued"},
         MayLock(c), lock' = Locked(c), exec' = [exec EXCEPT ![e] = Begun(e, c)],
         c \in Pool => \A d \in Execs : exec[d].conn # c
  PROVE  /\ exec' \in [Execs -> Exec] /\ ConnTypes' /\ ConnInv' /\ NoneReady
         /\ lock' \in [conn : Pool \cup Execs \cup {NoConn}, depth : Nat]
         /\ (lock'.conn = NoConn <=> lock'.depth = 0)
<1> DEFINE x == Begun(e, c)
<1>1. Pool \cap Execs = {} /\ NoConn \notin Pool \cup Execs /\ c # NoConn
  BY FeedsAssumption
<1>2. /\ exec[e] \in Exec /\ cursor \in 0..Len(Order) /\ lock.depth \in Nat
      /\ lock \in [conn : Pool \cup Execs \cup {NoConn}, depth : Nat]
  BY DEF FeedSound, Types, RestTypes
<1>3. x \in Exec /\ x.pc = "osv" /\ x.conn = c
  BY <1>2 DEF Begun, Exec, Pc
<1>4. \A d \in Execs : ~Working(d)
  <2> SUFFICES ASSUME NEW d \in Execs, Working(d) PROVE FALSE
    OBVIOUS
  <2>1. exec[d].conn # NoConn /\ lock.conn = exec[d].conn
    BY DEF FeedSound, ConnInv
  <2>2. exec[d].conn = c
    BY <2>1 DEF MayLock
  <2>3. c = e
    BY <2>2
  <2>4. exec[d].conn \in Pool \cup {d, NoConn}
    BY DEF FeedSound, ConnTypes
  <2>5. d = e
    BY <1>1, <2>2, <2>3, <2>4
  <2>6. QED
    BY <2>5 DEF Working
<1>5. /\ lock'.conn = c /\ lock'.depth = lock.depth + 1
      /\ lock' \in [conn : Pool \cup Execs \cup {NoConn}, depth : Nat]
  BY <1>2 DEF Locked
<1> HIDE DEF x
<1>6. Becomes(e, x)
  <2>1. exec' = [exec EXCEPT ![e] = x]
    BY DEF x
  <2>2. QED
    BY <1>1, <1>3, <1>4, <1>5, <2>1 DEF Becomes
<1>7. /\ exec' \in [Execs -> Exec] /\ ConnTypes' /\ ConnInv' /\ exec'[e] = x
      /\ \A d \in Execs \ {e} : exec'[d] = exec[d]
  BY <1>6, BecomesKeeps DEF FeedSound
<1>8. NoneReady
  BY <1>3, <1>7 DEF NoneReady
<1>9. QED
  BY <1>1, <1>2, <1>5, <1>7, <1>8

\* What becomes an execution that has not begun.
LEMMA OffBecomes ==
  ASSUME FeedSound, NEW e \in Execs, NEW x \in Exec, x.pc \in {"off", "queued"}, x.conn = NoConn,
         exec' = [exec EXCEPT ![e] = x],
         \A d \in Execs \ {e} : Working(d) => lock'.conn = exec[d].conn
  PROVE  exec' \in [Execs -> Exec] /\ ConnTypes' /\ ConnInv' /\ NoneReady
<1>1. Becomes(e, x)
  BY DEF Becomes
<1>2. /\ exec' \in [Execs -> Exec] /\ ConnTypes' /\ ConnInv' /\ exec'[e] = x
      /\ \A d \in Execs \ {e} : exec'[d] = exec[d]
  BY <1>1, BecomesKeeps DEF FeedSound
<1>3. NoneReady
  BY <1>2 DEF NoneReady
<1>4. QED
  BY <1>2, <1>3

\* A task works only with the lock on its own connection.
LEMMA StartTaskKeeps ==
  ASSUME FeedSound, NEW e \in Execs, StartTask(e)
  PROVE  FeedSound'
<1>1. /\ UNCHANGED <<sbom, affected, records, cursor, finding, posting, settled,
                     posts, inlines, changes>>
      /\ exec[e].pc = "queued"
  BY DEF StartTask
<1>2. CASE MayLock(e) /\ lock' = Locked(e) /\ exec' = [exec EXCEPT ![e] = Begun(e, e)]
           /\ MarkRow("running")
  <2>1. e \notin Pool /\ row' \in Row
    BY <1>2, FeedsAssumption, MarkRowType
  <2>2. /\ exec' \in [Execs -> Exec] /\ ConnTypes' /\ ConnInv' /\ NoneReady
        /\ lock' \in [conn : Pool \cup Execs \cup {NoConn}, depth : Nat]
        /\ (lock'.conn = NoConn <=> lock'.depth = 0)
    BY <1>1, <1>2, <2>1, BegunKeeps
  <2>3. Types' /\ RestTypes'
    BY <1>1, <2>1, <2>2 DEF FeedSound, Types, RestTypes
  <2>4. QED
    BY <1>1, <2>2, <2>3, QuietStep
<1>3. CASE exec' = [exec EXCEPT ![e] = NewExec] /\ UNCHANGED <<row, lock>>
  <2>1. \A d \in Execs : Working(d) => lock'.conn = exec[d].conn
    BY <1>3 DEF FeedSound, ConnInv
  <2>2. exec' \in [Execs -> Exec] /\ ConnTypes' /\ ConnInv' /\ NoneReady
    BY <1>3, <2>1, NewExecFacts, OffBecomes
  <2>3. Types' /\ RestTypes'
    BY <1>1, <1>3, <2>2 DEF FeedSound, Types, RestTypes
  <2>4. QED
    BY <1>1, <2>2, <2>3, QuietStep
<1>4. QED
  BY <1>2, <1>3 DEF StartTask

\* A request works only with the lock on the pooled connection it holds.
LEMMA StartInlineKeeps ==
  ASSUME FeedSound, NEW c \in Pool, StartInline(c)
  PROVE  FeedSound'
<1>1. /\ UNCHANGED <<sbom, affected, records, cursor, finding, row, posting, settled,
                     posts, changes, faults>>
      /\ AnyFree /\ c \in Idle
  BY DEF StartInline
<1>2. Free \in Execs /\ exec[Free].pc = "off"
  BY <1>1, FreeFacts DEF FeedSound
<1>3. \A d \in Execs : exec[d].conn # c
  BY <1>1, FeedsAssumption DEF Idle, Busy
<1>4. CASE MayLock(c)
  <2>1. lock' = Locked(c) /\ exec' = [exec EXCEPT ![Free] = Begun(Free, c)]
    BY <1>4 DEF StartInline
  <2>2. /\ exec' \in [Execs -> Exec] /\ ConnTypes' /\ ConnInv' /\ NoneReady
        /\ lock' \in [conn : Pool \cup Execs \cup {NoConn}, depth : Nat]
        /\ (lock'.conn = NoConn <=> lock'.depth = 0)
    BY <1>2, <1>3, <1>4, <2>1, BegunKeeps
  <2>3. Types' /\ RestTypes'
    BY <1>1, <2>2 DEF FeedSound, Types, RestTypes
  <2>4. QED
    BY <1>1, <2>2, <2>3, QuietStep
<1>5. CASE ~MayLock(c)
  <2>1. UNCHANGED <<lock, exec>>
    BY <1>5 DEF StartInline
  <2>2. ConnTypes' /\ ConnInv' /\ NoneReady /\ Types' /\ RestTypes'
    BY <1>1, <2>1 DEF FeedSound, Types, RestTypes, ConnTypes, ConnInv, NoneReady, Working
  <2>3. QED
    BY <1>1, <2>2, QuietStep
<1>6. QED
  BY <1>4, <1>5

(***************************************************************************)
(* The steps of a refresh.                                                 *)
(***************************************************************************)

\* A working execution goes on with its connection, and is not ready to commit.
LEMMA WorkKeeps ==
  ASSUME FeedSound, NEW e \in Execs, Working(e), NEW x \in Exec, x.conn = exec[e].conn,
         x.pc \in {"feed", "match"}, lock' = lock, exec' = [exec EXCEPT ![e] = x]
  PROVE  exec' \in [Execs -> Exec] /\ ConnTypes' /\ ConnInv' /\ NoneReady
<1>1. /\ exec[e].conn # NoConn /\ lock.conn = exec[e].conn
      /\ exec[e].conn \in Pool \cup {e, NoConn}
      /\ \A d \in Execs \ {e} : exec[d].conn # exec[e].conn
      /\ \A d \in Execs : Working(d) => lock.conn = exec[d].conn
  BY DEF FeedSound, ConnInv, ConnTypes
<1>2. Becomes(e, x)
  BY <1>1 DEF Becomes
<1>3. /\ exec' \in [Execs -> Exec] /\ ConnTypes' /\ ConnInv' /\ exec'[e] = x
      /\ \A d \in Execs \ {e} : exec'[d] = exec[d]
  BY <1>2, BecomesKeeps DEF FeedSound
<1>4. NoneReady
  BY <1>3 DEF NoneReady
<1>5. QED
  BY <1>3, <1>4

\* Curated advisories are records.
LEMMA UpsertsType ==
  ASSUME FeedSound, NEW src \in Sources, NEW ps \in SUBSET affected
  PROVE  Upserts(src, Curated(ps)) \in SUBSET Record
BY DEF FeedSound, RestTypes, Upserts, Curated, Record

\* The OSV stage adds records in its transaction.
LEMMA FetchOsvKeeps ==
  ASSUME FeedSound, NEW e \in Execs, FetchOsv(e)
  PROVE  FeedSound'
<1>1. /\ UNCHANGED <<sbom, affected, records, cursor, finding, row, lock, posting, settled,
                     posts, inlines, changes>>
      /\ exec[e].pc = "osv" /\ exec[e] \in Exec /\ sbom \in SUBSET Packages
  BY DEF FetchOsv, SourceFails, FeedSound, Types, RestTypes
<1>2. PICK x \in Exec : /\ x.conn = exec[e].conn /\ x.pc = "feed"
                        /\ exec' = [exec EXCEPT ![e] = x]
  <2>1. CASE exec' = [exec EXCEPT ![e].pc = "feed"]
    <3> DEFINE x == [exec[e] EXCEPT !.pc = "feed"]
    <3>1. x \in Exec /\ x.conn = exec[e].conn /\ x.pc = "feed"
      BY <1>1 DEF Exec, Pc
    <3>2. QED
      BY <2>1, <3>1
  <2>2. CASE ~(exec' = [exec EXCEPT ![e].pc = "feed"])
    <3> DEFINE asked == IF sbom = {} THEN {}
                        ELSE Window(SafeCursor(exec[e].cursor)) \cap Targeted
               new == Upserts("osv", Curated(asked \cap affected))
               c == NextCursor(exec[e].cursor)
               x == [exec[e] EXCEPT !.pc = "feed", !.recs = @ \cup new, !.cursor = c]
    <3>1. exec' = [exec EXCEPT ![e].pc = "feed", ![e].recs = @ \cup new, ![e].cursor = c]
      BY <2>2 DEF FetchOsv, SourceFails
    <3>2. new \in SUBSET Record
      <4>1. asked \cap affected \in SUBSET affected /\ "osv" \in Sources
        BY DEF Sources
      <4> HIDE DEF asked
      <4>2. QED
        BY <4>1, UpsertsType
    <3>3. c \in 0..Len(Order)
      BY <1>1, ExecFields, CursorType
    <3> HIDE DEF new, c
    <3>4. x \in Exec /\ x.conn = exec[e].conn /\ x.pc = "feed"
      BY <1>1, <3>2, <3>3 DEF Exec, Pc
    <3>5. exec' = [exec EXCEPT ![e] = x]
      BY <3>1 DEF FeedSound, Types
    <3>6. QED
      BY <3>4, <3>5
  <2>3. QED
    BY <2>1, <2>2
<1>3. exec' \in [Execs -> Exec] /\ ConnTypes' /\ ConnInv' /\ NoneReady
  BY <1>1, <1>2, WorkKeeps DEF Working
<1>4. Types' /\ RestTypes'
  BY <1>1, <1>3 DEF FeedSound, Types, RestTypes
<1>5. QED
  BY <1>1, <1>3, <1>4, QuietStep

\* A feed stage adds records in its transaction.
LEMMA FetchFeedKeeps ==
  ASSUME FeedSound, NEW e \in Execs, FetchFeed(e)
  PROVE  FeedSound'
<1>1. /\ UNCHANGED <<sbom, affected, records, cursor, finding, row, lock, posting, settled,
                     posts, inlines, changes>>
      /\ exec[e].pc = "feed" /\ exec[e] \in Exec
  BY DEF FetchFeed, SourceFails, FeedSound, Types, RestTypes
<1>2. PICK x \in Exec : /\ x.conn = exec[e].conn /\ x.pc = "match"
                        /\ exec' = [exec EXCEPT ![e] = x]
  <2>1. CASE exec' = [exec EXCEPT ![e].pc = "match"]
    <3> DEFINE x == [exec[e] EXCEPT !.pc = "match"]
    <3>1. x \in Exec /\ x.conn = exec[e].conn /\ x.pc = "match"
      BY <1>1 DEF Exec, Pc
    <3>2. QED
      BY <2>1, <3>1
  <2>2. CASE ~(exec' = [exec EXCEPT ![e].pc = "match"])
    <3> DEFINE new == Upserts("feed", Curated(affected))
               x == [exec[e] EXCEPT !.pc = "match", !.recs = @ \cup new]
    <3>1. exec' = [exec EXCEPT ![e].pc = "match", ![e].recs = @ \cup new]
      BY <2>2 DEF FetchFeed, SourceFails
    <3>2. new \in SUBSET Record
      BY UpsertsType DEF Sources
    <3> HIDE DEF new
    <3>3. x \in Exec /\ x.conn = exec[e].conn /\ x.pc = "match"
      BY <1>1, <3>2 DEF Exec, Pc
    <3>4. exec' = [exec EXCEPT ![e] = x]
      BY <3>1 DEF FeedSound, Types
    <3>5. QED
      BY <3>3, <3>4
  <2>3. QED
    BY <2>1, <2>2
<1>3. exec' \in [Execs -> Exec] /\ ConnTypes' /\ ConnInv' /\ NoneReady
  BY <1>1, <1>2, WorkKeeps DEF Working
<1>4. Types' /\ RestTypes'
  BY <1>1, <1>3 DEF FeedSound, Types, RestTypes
<1>5. QED
  BY <1>1, <1>3, <1>4, QuietStep

\* A match opens a finding, unless a reviewer has set it aside.
LEMMA RefreshedFacts ==
  ASSUME NEW st \in Statuses
  PROVE  Refreshed(st) \in Statuses /\ Refreshed(st) \notin {"none", "Resolved", "Mitigated"}
BY DEF Refreshed, Statuses

\* Matching opens every match.
LEMMA MaterializeKeeps ==
  ASSUME FeedSound, NEW e \in Execs, Materialize(e)
  PROVE  FeedSound'
<1> DEFINE match == Matched(records \cup exec[e].recs, sbom)
           stale == {k \in Keys \ match : IsOpen(finding[k])}
<1>1. /\ UNCHANGED <<sbom, affected, records, cursor, finding, row, lock, posting, settled,
                     posts, inlines, changes, faults>>
      /\ exec[e].pc = "match" /\ exec[e] \in Exec /\ Working(e)
  BY DEF Materialize, FeedSound, Types, RestTypes, Working
<1>2. match \subseteq Keys /\ stale \subseteq Keys \ match
  BY DEF Matched
<1>3. PICK x \in Exec :
        /\ exec' = [exec EXCEPT ![e] = x]
        /\ x.conn = exec[e].conn /\ x.pc = "commit" /\ x.recs = exec[e].recs
        /\ x.clean =>
             \E kept \in SUBSET stale :
               /\ Cardinality(kept) = Cardinality(stale) \div ResolveBatch
               /\ DOMAIN x.writes = match \cup kept
               /\ \A k \in match : x.writes[k] = Refreshed(finding[k])
               /\ \A k \in kept : x.writes[k] = "Resolved"
  <2> HIDE DEF match, stale
  <2>1. CASE sbom = {}
    <3> DEFINE x == [exec[e] EXCEPT !.pc = "commit", !.clean = FALSE]
    <3>1. /\ x \in Exec /\ x.conn = exec[e].conn /\ x.pc = "commit" /\ x.recs = exec[e].recs
          /\ x.clean = FALSE
      BY <1>1 DEF Exec, Pc
    <3>2. exec' = [exec EXCEPT ![e] = x]
      BY <2>1 DEF Materialize, FeedSound, Types
    <3>3. QED
      BY <3>1, <3>2
  <2>2. CASE sbom # {}
    <3>1. PICK kept \in SUBSET stale :
            /\ Cardinality(kept) = Cardinality(stale) \div ResolveBatch
            /\ exec' = [exec EXCEPT ![e].pc = "commit", ![e].clean = TRUE,
                 ![e].writes = [k \in match \cup kept |->
                    IF k \in match THEN Refreshed(finding[k]) ELSE "Resolved"]]
      BY <2>2 DEF Materialize, match, stale
    <3> DEFINE w == [k \in match \cup kept |->
                       IF k \in match THEN Refreshed(finding[k]) ELSE "Resolved"]
               x == [exec[e] EXCEPT !.pc = "commit", !.clean = TRUE, !.writes = w]
    <3>2. /\ DOMAIN w = match \cup kept /\ \A k \in match : w[k] = Refreshed(finding[k])
          /\ \A k \in kept : w[k] = "Resolved"
      BY <1>2
    <3>3. w \in Writes
      <4>1. match \cup kept \in SUBSET Keys
        BY <1>2
      <4>2. \A k \in match : Refreshed(finding[k]) \in Statuses
        BY <1>2, RefreshedFacts DEF FeedSound, RestTypes
      <4>3. w \in [match \cup kept -> Statuses]
        BY <4>2 DEF Statuses
      <4> HIDE DEF w
      <4>4. QED
        BY <4>1, <4>3, MakeWrites
    <3> HIDE DEF w
    <3>4. /\ x \in Exec /\ x.conn = exec[e].conn /\ x.pc = "commit" /\ x.recs = exec[e].recs
          /\ x.writes = w
      BY <1>1, <3>3 DEF Exec, Pc
    <3>5. exec' = [exec EXCEPT ![e] = x]
      BY <3>1 DEF w, FeedSound, Types
    <3> HIDE DEF x
    <3>6. /\ DOMAIN x.writes = match \cup kept
          /\ \A k \in match : x.writes[k] = Refreshed(finding[k])
          /\ \A k \in kept : x.writes[k] = "Resolved"
      BY <3>2, <3>4
    <3>7. QED
      BY <3>1, <3>4, <3>5, <3>6
  <2>3. QED
    BY <2>1, <2>2
<1>4. Becomes(e, x)
  <2>1. /\ exec[e].conn # NoConn /\ lock.conn = exec[e].conn
        /\ exec[e].conn \in Pool \cup {e, NoConn}
        /\ \A d \in Execs \ {e} : exec[d].conn # exec[e].conn
        /\ \A d \in Execs : Working(d) => lock.conn = exec[d].conn
    BY <1>1 DEF FeedSound, ConnInv, ConnTypes
  <2>2. QED
    BY <1>1, <1>3, <2>1 DEF Becomes
<1>5. /\ exec' \in [Execs -> Exec] /\ ConnTypes' /\ ConnInv' /\ exec'[e] = x
      /\ \A d \in Execs \ {e} : exec'[d] = exec[d]
  BY <1>4, BecomesKeeps DEF FeedSound
<1>6. Types' /\ RestTypes'
  BY <1>1, <1>5 DEF FeedSound, Types, RestTypes
<1>7. ASSUME NEW d \in Execs, exec'[d].pc = "commit", exec'[d].clean
      PROVE  OpensMatches(d)'
  <2>1. d = e
    <3>1. Working(d)' /\ Working(e)'
      BY <1>3, <1>5, <1>7 DEF Working
    <3>2. QED
      BY <1>5, <3>1 DEF ConnInv
  <2>2. PICK kept \in SUBSET stale :
               /\ Cardinality(kept) = Cardinality(stale) \div ResolveBatch
               /\ DOMAIN x.writes = match \cup kept
               /\ \A k \in match : x.writes[k] = Refreshed(finding[k])
               /\ \A k \in kept : x.writes[k] = "Resolved"
    BY <1>3, <1>5, <1>7, <2>1
  <2>3. exec'[d].writes = x.writes /\ Matched(records \cup exec[d].recs, sbom)' = match
    BY <1>1, <1>3, <1>5, <2>1 DEF Matched
  <2>4. \A k \in match : Refreshed(finding[k]) \notin {"none", "Resolved", "Mitigated"}
    BY <1>2, RefreshedFacts DEF FeedSound, RestTypes
  <2> HIDE DEF match, stale
  <2>5. QED
    BY <2>2, <2>3, <2>4 DEF OpensMatches
<1>8. WritesInv'
  BY <1>7 DEF WritesInv
<1>9. MatchesOpen'
  BY <1>1, SettledKept DEF FeedSound
<1>10. QED
  BY <1>5, <1>6, <1>8, <1>9 DEF FeedSound

\* What is left of a refresh that has ended: a task keeps its connection until the
\* lock is released, a request has none.
LEMMA EndedBecomes ==
  ASSUME FeedSound, NEW e \in Execs, Working(e), NEW x \in Exec, x.pc = "release",
         x.conn = IF IsTask(e) THEN e ELSE NoConn,
         lock' = lock, exec' = [exec EXCEPT ![e] = x]
  PROVE  /\ exec' \in [Execs -> Exec] /\ ConnTypes' /\ ConnInv'
         /\ \A d \in Execs : exec'[d].pc # "commit"
<1>1. \A d \in Execs \ {e} : ~Working(d)
  BY OneWorks DEF FeedSound
<1>2. Becomes(e, x)
  BY <1>1 DEF Becomes
<1>3. /\ exec' \in [Execs -> Exec] /\ ConnTypes' /\ ConnInv' /\ exec'[e] = x
      /\ \A d \in Execs \ {e} : exec'[d] = exec[d]
  BY <1>2, BecomesKeeps DEF FeedSound
<1>4. QED
  BY <1>1, <1>3 DEF Working

\* A commit publishes what a refresh has written; the lock stays until its release.
LEMMA CommitKeeps ==
  ASSUME FeedSound, NEW e \in Execs, Commit(e)
  PROVE  FeedSound'
<1> DEFINE w == exec[e].writes
           x == [NewExec EXCEPT !.pc = "release", !.conn = IF IsTask(e) THEN e ELSE NoConn]
<1>1. /\ UNCHANGED <<sbom, affected, lock, posting, posts, inlines, changes, faults>>
      /\ records' = records \cup exec[e].recs /\ cursor' = exec[e].cursor
      /\ finding' = [k \in Keys |-> IF k \in DOMAIN w THEN w[k] ELSE finding[k]]
      /\ settled' = exec[e].clean /\ exec' = [exec EXCEPT ![e] = x]
      /\ exec[e].pc = "commit" /\ exec[e] \in Exec /\ Working(e)
  BY DEF Commit, FeedSound, Types, Working
<1>2. x \in Exec /\ x.pc = "release" /\ x.conn = IF IsTask(e) THEN e ELSE NoConn
  BY NewExecFacts DEF Exec, Pc
<1> HIDE DEF x
<1>3. /\ exec' \in [Execs -> Exec] /\ ConnTypes' /\ ConnInv'
      /\ \A d \in Execs : exec'[d].pc # "commit"
  BY <1>1, <1>2, EndedBecomes
<1>4. RestTypes'
  <2>1. row' \in Row
    BY MarkRowType DEF Commit
  <2>2. /\ exec[e].recs \in SUBSET Record /\ exec[e].cursor \in 0..Len(Order)
        /\ exec[e].clean \in BOOLEAN /\ \A k \in DOMAIN w : w[k] \in Statuses
    BY <1>1, ExecFields, WritesFacts
  <2>3. finding' \in [Keys -> Statuses]
    BY <1>1, <2>2 DEF FeedSound, RestTypes
  <2>4. QED
    BY <1>1, <2>1, <2>2, <2>3 DEF FeedSound, RestTypes
<1>5. Types'
  BY <1>1, <1>3 DEF FeedSound, Types
<1>6. WritesInv'
  BY <1>3 DEF WritesInv
<1>7. Matched(records, sbom)' = Matched(records \cup exec[e].recs, sbom)
  BY <1>1 DEF Matched
<1>8. exec[e].clean => OpensMatches(e)
  BY <1>1 DEF FeedSound, WritesInv
<1>9. ASSUME settled', NEW k \in Matched(records, sbom)'
      PROVE  finding'[k] \notin {"none", "Resolved", "Mitigated"}
  <2>1. exec[e].clean
    BY <1>1, <1>9
  <2>2. k \in Matched(records \cup exec[e].recs, sbom) /\ k \in Keys
    BY <1>7, <1>9 DEF Matched
  <2>3. k \in DOMAIN w /\ w[k] \notin {"none", "Resolved", "Mitigated"}
    BY <1>8, <2>1, <2>2 DEF OpensMatches
  <2>4. QED
    BY <1>1, <2>2, <2>3
<1>10. MatchesOpen'
  BY <1>9 DEF MatchesOpen
<1>11. QED
  BY <1>3, <1>4, <1>5, <1>6, <1>10 DEF FeedSound

\* A lock that is released or dropped is another lock only for those it was held by.
LEMMA LockFacts ==
  ASSUME FeedSound, NEW c \in Pool \cup Execs
  PROVE  \A l \in {Dropped(c), Unlocked(c)} :
           /\ l \in [conn : Pool \cup Execs \cup {NoConn}, depth : Nat]
           /\ l.conn = NoConn <=> l.depth = 0
           /\ lock.conn # c => l = lock
<1>1. /\ lock \in [conn : Pool \cup Execs \cup {NoConn}, depth : Nat]
      /\ lock.conn = NoConn <=> lock.depth = 0
  BY DEF FeedSound, Types, RestTypes
<1>2. c # NoConn
  BY FeedsAssumption
<1>3. Dropped(c) \in {lock, [conn |-> NoConn, depth |-> 0]}
  BY DEF Dropped
<1>4. /\ [conn |-> NoConn, depth |-> 0] \in [conn : Pool \cup Execs \cup {NoConn}, depth : Nat]
      /\ [conn |-> NoConn, depth |-> 0].conn = NoConn /\ [conn |-> NoConn, depth |-> 0].depth = 0
  OBVIOUS
<1>5. ASSUME lock.conn = c, lock.depth # 1
      PROVE  /\ Unlocked(c) \in [conn : Pool \cup Execs \cup {NoConn}, depth : Nat]
             /\ Unlocked(c).conn # NoConn /\ Unlocked(c).depth # 0
  <2>1. Unlocked(c) = [lock EXCEPT !.depth = @ - 1]
    BY <1>5 DEF Unlocked
  <2>2. lock.depth \in Nat /\ lock.depth - 1 \in Nat /\ lock.depth - 1 # 0
    BY <1>1, <1>2, <1>5
  <2>3. QED
    BY <1>1, <1>2, <1>5, <2>1, <2>2
<1>6. lock.conn # c \/ lock.depth = 1 => Unlocked(c) \in {lock, [conn |-> NoConn, depth |-> 0]}
  BY DEF Unlocked
<1>7. lock.conn # c => Dropped(c) = lock /\ Unlocked(c) = lock
  BY DEF Dropped, Unlocked
<1>8. QED
  BY <1>1, <1>3, <1>4, <1>5, <1>6, <1>7

\* The release unlocks whatever connection the session has by then.
LEMMA ReleaseKeeps ==
  ASSUME FeedSound, NEW e \in Execs, Release(e)
  PROVE  FeedSound'
<1> DEFINE x == IF exec[e].tries > 0 THEN [Queued EXCEPT !.tries = exec[e].tries] ELSE NewExec
<1>1. /\ UNCHANGED <<sbom, affected, records, cursor, finding, row, posting, settled,
                     posts, inlines, changes, faults>>
      /\ exec' = [exec EXCEPT ![e] = x] /\ exec[e].pc = "release" /\ exec[e] \in Exec
  BY DEF Release, FeedSound, Types
<1>2. x \in Exec /\ x.pc \in {"off", "queued"} /\ x.conn = NoConn
  <2>1. exec[e].tries \in 0..2
    BY <1>1, ExecFields
  <2>2. QED
    BY <2>1, NewExecFacts DEF Exec, Pc
<1> HIDE DEF x
<1>3. PICK c \in Pool \cup Execs :
        /\ lock' \in {Dropped(c), Unlocked(c)}
        /\ \A d \in Execs \ {e} : exec[d].conn # NoConn => exec[d].conn # c
  <2>1. CASE IsTask(e) /\ lock' = Dropped(e)
    <3>1. \A d \in Execs \ {e} : exec[d].conn # NoConn => exec[d].conn # e
      BY <2>1 DEF FeedSound, ConnInv, IsTask
    <3>2. QED
      BY <2>1, <3>1
  <2>2. CASE \E c \in Idle : lock' = Unlocked(c)
    <3>1. PICK c \in Idle : lock' = Unlocked(c)
      BY <2>2
    <3>2. c \in Pool /\ \A d \in Execs : exec[d].conn # NoConn => exec[d].conn # c
      BY DEF Idle, Busy
    <3>3. QED
      BY <3>1, <3>2
  <2>3. QED
    BY <2>1, <2>2 DEF Release
<1>4. /\ lock' \in [conn : Pool \cup Execs \cup {NoConn}, depth : Nat]
      /\ lock'.conn = NoConn <=> lock'.depth = 0
      /\ lock.conn # c => lock' = lock
  BY <1>3, LockFacts
<1>5. \A d \in Execs \ {e} : Working(d) => lock'.conn = exec[d].conn
  BY <1>3, <1>4 DEF FeedSound, ConnInv
<1>6. exec' \in [Execs -> Exec] /\ ConnTypes' /\ ConnInv' /\ NoneReady
  BY <1>1, <1>2, <1>5, OffBecomes
<1>7. Types' /\ RestTypes'
  BY <1>1, <1>4, <1>6 DEF FeedSound, Types, RestTypes
<1>8. QED
  BY <1>1, <1>6, <1>7, QuietStep

\* A failed refresh rolls back.
LEMMA FailKeeps ==
  ASSUME FeedSound, NEW e \in Execs, Fail(e)
  PROVE  FeedSound'
<1> DEFINE t == IF IsTask(e) /\ exec[e].tries < 2 THEN exec[e].tries + 1 ELSE 0
           c == IF IsTask(e) THEN e ELSE NoConn
           x == [NewExec EXCEPT !.pc = "release", !.conn = c, !.tries = t]
<1>1. /\ UNCHANGED <<sbom, affected, records, cursor, finding, lock, posting, settled,
                     posts, inlines, changes>>
      /\ exec' = [exec EXCEPT ![e] = x] /\ exec[e] \in Exec /\ Working(e)
      /\ MarkRow("failed")
  BY DEF Fail, FeedSound, Types, Working
<1>2. t \in 0..2 /\ c \in Pool \cup Execs \cup {NoConn}
  <2>1. exec[e].tries \in 0..2
    BY <1>1, ExecFields
  <2>2. QED
    BY <2>1
<1>3. x \in Exec /\ x.pc = "release" /\ x.conn = IF IsTask(e) THEN e ELSE NoConn
  <2> HIDE DEF t
  <2>1. x \in Exec /\ x.pc = "release" /\ x.conn = c
    <3> HIDE DEF c
    <3>1. QED
      BY <1>2, NewExecFacts DEF Exec, Pc
  <2>2. QED
    BY <2>1
<1> HIDE DEF x
<1>4. /\ exec' \in [Execs -> Exec] /\ ConnTypes' /\ ConnInv'
      /\ \A d \in Execs : exec'[d].pc # "commit"
  BY <1>1, <1>3, EndedBecomes
<1>5. NoneReady
  BY <1>4 DEF NoneReady
<1>6. row' \in Row
  BY <1>1, MarkRowType
<1>7. Types' /\ RestTypes'
  BY <1>1, <1>4, <1>6 DEF FeedSound, Types, RestTypes
<1>8. QED
  BY <1>1, <1>4, <1>5, <1>7, QuietStep

\* A dead process loses its connections, and they their locks.
LEMMA CrashKeeps ==
  ASSUME FeedSound, NEW e \in Execs, Crash(e)
  PROVE  FeedSound'
<1>1. UNCHANGED <<sbom, affected, records, cursor, finding, row, posting, settled,
                  posts, inlines, changes>>
  BY DEF Crash
<1>2. /\ exec' \in [Execs -> Exec] /\ ConnTypes' /\ ConnInv' /\ NoneReady
      /\ lock' \in [conn : Pool \cup Execs \cup {NoConn}, depth : Nat]
      /\ (lock'.conn = NoConn <=> lock'.depth = 0)
  <2>1. CASE IsTask(e)
    <3>1. lock' = Dropped(e) /\ exec' = [exec EXCEPT ![e] = NewExec]
      BY <2>1 DEF Crash
    <3>2. /\ lock' \in [conn : Pool \cup Execs \cup {NoConn}, depth : Nat]
          /\ lock'.conn = NoConn <=> lock'.depth = 0
          /\ lock.conn # e => lock' = lock
      BY <3>1, LockFacts
    <3>3. \A d \in Execs \ {e} : Working(d) => lock'.conn = exec[d].conn
      BY <2>1, <3>2 DEF IsTask, FeedSound, ConnInv
    <3>4. QED
      BY <3>1, <3>2, <3>3, NewExecFacts, OffBecomes
  <2>2. CASE ~IsTask(e)
    <3>1. /\ lock' = IF lock.conn \in Pool THEN [conn |-> NoConn, depth |-> 0] ELSE lock
          /\ exec' = [d \in Execs |-> IF exec[d].pc \in {"off", "queued"} \/ IsTask(d)
                                      THEN exec[d] ELSE NewExec]
      BY <2>2 DEF Crash
    <3>2. exec' \in [Execs -> Exec] /\ \A d \in Execs : exec'[d] \in {exec[d], NewExec}
      BY <3>1, NewExecFacts DEF FeedSound, Types
    <3>3. \A d \in Execs : Working(d)' => exec'[d] = exec[d] /\ IsTask(d)
      BY <3>1, NewExecFacts DEF Working
    <3>4. \A d \in Execs : Working(d)' => lock'.conn = exec'[d].conn /\ exec'[d].conn # NoConn
      <4>1. ASSUME NEW d \in Execs, Working(d)'
            PROVE  lock'.conn = exec'[d].conn /\ exec'[d].conn # NoConn
        <5>1. exec'[d] = exec[d] /\ exec[d].conn = d /\ Working(d)
          BY <3>3, <4>1 DEF IsTask, Working
        <5>2. lock.conn = d /\ d \notin Pool /\ d # NoConn
          BY <5>1, FeedsAssumption DEF FeedSound, ConnInv
        <5>3. QED
          BY <3>1, <5>1, <5>2
      <4>2. QED
        BY <4>1
    <3>5. ConnTypes'
      BY <3>2, NewExecFacts DEF FeedSound, ConnTypes
    <3>6. ConnInv'
      BY <3>2, <3>4, NewExecFacts DEF FeedSound, ConnInv
    <3>7. NoneReady
      BY <3>2, NewExecFacts DEF NoneReady
    <3>8. /\ lock' \in [conn : Pool \cup Execs \cup {NoConn}, depth : Nat]
          /\ lock'.conn = NoConn <=> lock'.depth = 0
      BY <3>1 DEF FeedSound, Types, RestTypes
    <3>9. QED
      BY <3>2, <3>5, <3>6, <3>7, <3>8
  <2>3. QED
    BY <2>1, <2>2
<1>3. Types' /\ RestTypes'
  BY <1>1, <1>2 DEF FeedSound, Types, RestTypes
<1>4. QED
  BY <1>1, <1>2, <1>3, QuietStep

(***************************************************************************)
(* What happens beside it.                                                 *)
(***************************************************************************)

\* Time passes, or a source publishes.
LEMMA BesideKeeps ==
  ASSUME FeedSound, RowAges \/ \E p \in Packages : Publish(p)
  PROVE  FeedSound'
<1>1. /\ UNCHANGED <<sbom, records, cursor, finding, lock, exec, posting, settled, posts>>
      /\ affected' \subseteq Packages /\ row' \in Row
  <2>1. CASE RowAges
    <3>1. row' = [row EXCEPT !.fresh = FALSE]
      BY <2>1 DEF RowAges
    <3>2. row' \in Row
      BY <3>1 DEF FeedSound, RestTypes, Row
    <3>3. QED
      BY <2>1, <3>2 DEF RowAges, FeedSound, RestTypes
  <2>2. CASE \E p \in Packages : Publish(p)
    BY <2>2 DEF Publish, FeedSound, RestTypes
  <2>3. QED
    BY <2>1, <2>2
<1>2. ConnTypes' /\ ConnInv' /\ NoneReady /\ Types' /\ RestTypes'
  BY <1>1 DEF FeedSound, Types, RestTypes, ConnTypes, ConnInv, NoneReady, Working
<1>3. QED
  BY <1>1, <1>2, QuietStep

\* A change of what refreshes match leaves none clean that has matched.
LEMMA UncleanKeeps ==
  ASSUME FeedSound, Unclean, settled' = FALSE, UNCHANGED <<affected, cursor, row, lock, posting, posts>>,
         sbom' \subseteq Packages, records' \subseteq Record, finding' \in [Keys -> Statuses]
  PROVE  FeedSound'
<1>1. \A e \in Execs : exec[e] \in Exec
  BY DEF FeedSound, Types
<1>2. ASSUME NEW e \in Execs
      PROVE  /\ exec'[e] \in Exec /\ exec'[e].pc = exec[e].pc /\ exec'[e].conn = exec[e].conn
             /\ ~(exec'[e].pc = "commit" /\ exec'[e].clean)
  <2> DEFINE b == exec[e].clean /\ exec[e].pc # "commit"
  <2>1. b \in BOOLEAN /\ exec'[e] = [exec[e] EXCEPT !.clean = b]
    BY DEF Unclean
  <2>2. exec[e].pc = "commit" => ~b
    OBVIOUS
  <2> HIDE DEF b
  <2>3. /\ exec'[e] \in Exec /\ exec'[e].pc = exec[e].pc /\ exec'[e].conn = exec[e].conn
        /\ exec'[e].clean = b
    BY <1>1, <2>1 DEF Exec
  <2>4. QED
    BY <2>2, <2>3
<1>3. exec' \in [Execs -> Exec]
  BY <1>2 DEF Unclean
<1>4. Types' /\ RestTypes'
  BY <1>3 DEF FeedSound, Types, RestTypes
<1>5. ConnTypes' /\ ConnInv'
  BY <1>2 DEF FeedSound, ConnTypes, ConnInv, Working
<1>6. WritesInv'
  BY <1>2 DEF WritesInv
<1>7. MatchesOpen'
  BY DEF MatchesOpen
<1>8. QED
  BY <1>4, <1>5, <1>6, <1>7 DEF FeedSound

\* A change beside the refreshes makes those that have matched unclean.
LEMMA ChangeKeeps ==
  ASSUME FeedSound,
         \/ \E p \in Packages : ImportSbom(p) \/ DeleteAsset(p)
         \/ \E k \in Keys, st \in {"Mitigated", "Suppressed"} : Review(k, st)
         \/ \E r \in records : Prune(r)
  PROVE  FeedSound'
<1>1. sbom \subseteq Packages /\ records \subseteq Record /\ finding \in [Keys -> Statuses]
  BY DEF FeedSound, RestTypes
<1>2. /\ Unclean /\ settled' = FALSE /\ UNCHANGED <<affected, cursor, row, lock, posting, posts>>
      /\ sbom' \subseteq Packages /\ records' \subseteq Record /\ finding' \in [Keys -> Statuses]
  <2>1. CASE \E p \in Packages : ImportSbom(p)
    BY <1>1, <2>1 DEF ImportSbom
  <2>2. CASE \E p \in Packages : DeleteAsset(p)
    BY <1>1, <2>2 DEF DeleteAsset, Statuses
  <2>3. CASE \E k \in Keys, st \in {"Mitigated", "Suppressed"} : Review(k, st)
    BY <1>1, <2>3 DEF Review, Statuses
  <2>4. CASE \E r \in records : Prune(r)
    BY <1>1, <2>4 DEF Prune
  <2>5. QED
    BY <2>1, <2>2, <2>3, <2>4
<1>3. QED
  BY <1>2, UncleanKeeps

(***************************************************************************)
(* The theorems.                                                           *)
(***************************************************************************)

\* The invariant holds at the start.
LEMMA FeedInit == Init => FeedSound
<1> SUFFICES ASSUME Init PROVE FeedSound
  OBVIOUS
<1>1. /\ sbom = FirstSbom /\ affected = FirstAffected /\ records = {} /\ cursor = 0
      /\ finding = [k \in Keys |-> "none"] /\ row = [status |-> "idle", fresh |-> TRUE]
      /\ lock = [conn |-> NoConn, depth |-> 0] /\ exec = [e \in Execs |-> NewExec]
      /\ posting = 0 /\ settled = FALSE /\ posts = 0
  BY DEF Init
<1>2. \A e \in Execs : /\ exec[e] \in Exec /\ exec[e].pc = "off" /\ exec[e].conn = NoConn
  BY <1>1, NewExecFacts
<1>3. exec \in [Execs -> Exec]
  BY <1>1, <1>2
<1>4. MaxPosts \in Nat /\ Len(Order) \in Nat
  BY FeedsAssumption
<1>5. Types
  BY <1>1, <1>3, <1>4 DEF Types
<1>6. RestTypes
  <2>1. /\ sbom \subseteq Packages /\ affected \subseteq Packages /\ 0 \in 0..Len(Order)
    BY <1>1, <1>4, FeedsAssumption
  <2>2. finding \in [Keys -> Statuses] /\ row \in Row
    BY <1>1 DEF Row, Statuses
  <2>3. QED
    BY <1>1, <2>1, <2>2 DEF RestTypes
<1>7. ConnTypes /\ ConnInv /\ WritesInv
  BY <1>2 DEF ConnTypes, ConnInv, WritesInv, Working
<1>8. MatchesOpen
  BY <1>1 DEF MatchesOpen
<1>9. QED
  BY <1>5, <1>6, <1>7, <1>8 DEF FeedSound

\* Every step keeps the invariant.
LEMMA FeedStep == FeedSound /\ [Next]_vars => FeedSound'
<1> SUFFICES ASSUME FeedSound, [Next]_vars PROVE FeedSound'
  OBVIOUS
<1>1. CASE UNCHANGED vars
  <2>1. UNCHANGED <<sbom, affected, records, cursor, finding, row, lock, exec, posting, settled,
                    posts>>
    BY <1>1 DEF vars
  <2>2. ConnTypes' /\ ConnInv' /\ NoneReady /\ Types' /\ RestTypes'
    BY <2>1 DEF FeedSound, Types, RestTypes, ConnTypes, ConnInv, NoneReady, Working
  <2>3. QED
    BY <2>1, <2>2, QuietStep
<1>2. CASE BeatTick \/ PostRead \/ PostWrite
  BY <1>2, BeatTickKeeps, PostReadKeeps, PostWriteKeeps
<1>3. CASE \E c \in Pool : StartInline(c)
  BY <1>3, StartInlineKeeps
<1>4. ASSUME NEW e \in Execs, Step(e) PROVE FeedSound'
  BY <1>4, StartTaskKeeps, FetchOsvKeeps, FetchFeedKeeps, MaterializeKeeps, CommitKeeps,
     ReleaseKeeps DEF Step
<1>5. ASSUME NEW e \in Execs, Fail(e) \/ Crash(e) PROVE FeedSound'
  BY <1>5, FailKeeps, CrashKeeps
<1>6. CASE RowAges \/ \E p \in Packages : Publish(p)
  BY <1>6, BesideKeeps
<1>7. CASE \/ \E p \in Packages : ImportSbom(p) \/ DeleteAsset(p)
           \/ \E k \in Keys, st \in {"Mitigated", "Suppressed"} : Review(k, st)
           \/ \E r \in records : Prune(r)
  BY <1>7, ChangeKeeps
<1>8. QED
  BY <1>1, <1>2, <1>3, <1>4, <1>5, <1>6, <1>7 DEF Next

\* Two refreshes at work would hold the lock on one connection.
LEMMA SoundRefresh == FeedSound => RefreshSound
<1> SUFFICES ASSUME FeedSound PROVE RefreshSound
  OBVIOUS
<1> DEFINE W == {e \in Execs : exec[e].pc \in {"osv", "feed", "match", "commit"}}
<1>1. \A d, e \in W : d = e
  BY OneWorks DEF FeedSound, Working
<1>2. ASSUME W = {} PROVE Cardinality(W) <= 1
  BY <1>2, FS_EmptySet
<1>3. ASSUME W # {} PROVE Cardinality(W) <= 1
  <2>1. PICK e : W = {e}
    BY <1>1, <1>3
  <2>2. Cardinality(W) = 1
    BY <2>1, FS_Singleton
  <2> HIDE DEF W
  <2>3. QED
    BY <2>2
<1>4. Cardinality(W) <= 1
  <2> HIDE DEF W
  <2>1. QED
    BY <1>2, <1>3
<1>5. QED
  BY <1>4, TypesSplit DEF OneRefresh, RefreshSound, FeedSound

\* The inductive invariant, for every instance and every ResolveBatch.
THEOREM FeedInvariant == Spec => []FeedSound
BY FeedInit, FeedStep, PTL DEF Spec

\* RefreshSound (try_acquire_vuln_feed_refresh_lock): the advisory lock keeps
\* refreshes apart, whoever starts them and whatever connection the pool hands
\* out between their commit and their release.
THEOREM RefreshAlwaysSound == Spec => []RefreshSound
BY FeedInvariant, SoundRefresh, PTL

\* MatchesOpen (materialize_feed_matches_to_findings): whatever the size
\* of a batch, a completed refresh leaves every match open or set aside by a
\* reviewer, as long as nothing it read has changed.
THEOREM MatchesAlwaysOpen == Spec => []MatchesOpen
BY FeedInvariant, PTL DEF FeedSound
=============================================================================
