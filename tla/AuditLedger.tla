---------------------------- MODULE AuditLedger ----------------------------
(***************************************************************************)
(* The audit ledger: audit_events rows, chained per trace by the hash of    *)
(* the row before, and the daily anchors over them.  Every writer has a    *)
(* transaction of its own and sees what others committed before its read.  *)
(* The ingest loop of an Aikido sync writes many transactions in one       *)
(* scope, which queues its rows until the next commit and remembers the    *)
(* last row of each trace it has written (bulk_audit_chain).  A hash is the *)
(* number of the event it belongs to; events are numbered as they are      *)
(* emitted, which is the order of created_at.                              *)
(***************************************************************************)
EXTENDS Integers

CONSTANTS
  Writers,    \* sessions that emit events
  Traces,     \* trace ids, shared where two writers handle one Aikido issue
  Classes,    \* retention classes
  Scheduled,  \* audit_checkpoint_retention_class
  Checkers,   \* who makes checkpoints: the beat task and admins
  Beat,
  None,
  MaxEvents,  \* bound on the events emitted
  LastDay,    \* bound on the clock
  Anchored,   \* bound on the days checkpoints are made for
  LastTick    \* tick of a day that begins after 23:59:59; tick 0 is 00:00:00

ASSUME AuditLedgerAssumption ==
  /\ Scheduled \in Classes /\ Beat \in Checkers
  /\ None \notin Writers \cup Traces
  /\ MaxEvents \in Nat /\ LastDay \in Nat /\ LastTick \in Nat \ {0}
  /\ Anchored \subseteq 0 .. LastDay

Ids  == 1 .. MaxEvents
Days == 0 .. LastDay

VARIABLES
  log,      \* log[i]: the row of event i
  emitted,  \* events emitted so far
  tx,       \* tx[w]: the transaction of w, or its scope
  commits,  \* commits so far
  now,      \* the clock
  anchor,   \* anchor[d][c]: the audit_ledger_checkpoints row
  check     \* check[k]: the checkpoint k is making

vars == <<log, emitted, tx, commits, now, anchor, check>>

\* by: its writer; since: commits when the transaction or the scope of that writer began;
\* seq: the number of the commit that made the row visible.
Row ==
  [state : {"none", "open", "committed"}, by : Writers \cup {None}, trace : Traces \cup {None},
   class : Classes, prev : 0 .. MaxEvents, day : Days, tick : 0 .. LastTick, since : Nat, seq : Nat]

\* tail[t]: the row of trace t this scope wrote last, or 0.
Tx == [mode : {"idle", "request", "sync"}, since : Nat, tail : [Traces -> 0 .. MaxEvents]]

\* rows and seq: the events the anchor is made of, and the commits it could see.
Anchor == [there : BOOLEAN, rows : SUBSET Ids, seq : Nat]

Check == [at : {"idle", "read"}, day : Days, class : Classes, found : BOOLEAN,
          rows : SUBSET Ids, seq : Nat]

TypeOK ==
  /\ log \in [Ids -> Row]
  /\ emitted \in 0 .. MaxEvents
  /\ tx \in [Writers -> Tx]
  /\ commits \in Nat
  /\ now \in [day : Days, tick : 0 .. LastTick]
  /\ anchor \in [Days -> [Classes -> Anchor]]
  /\ check \in [Checkers -> Check]

NoTail  == [t \in Traces |-> 0]
NoTx    == [mode |-> "idle", since |-> 0, tail |-> NoTail]
NoRow   == [state |-> "none", by |-> None, trace |-> None, class |-> Scheduled, prev |-> 0,
            day |-> 0, tick |-> 0, since |-> 0, seq |-> 0]
NoCheck == [at |-> "idle", day |-> 0, class |-> Scheduled, found |-> FALSE, rows |-> {},
            seq |-> 0]

Init ==
  /\ log = [i \in Ids |-> NoRow]
  /\ emitted = 0
  /\ tx = [w \in Writers |-> NoTx]
  /\ commits = 0
  /\ now = [day |-> 0, tick |-> 0]
  /\ anchor = [d \in Days |-> [c \in Classes |-> [there |-> FALSE, rows |-> {}, seq |-> 0]]]
  /\ check = [k \in Checkers |-> NoCheck]

----------------------------------------------------------------------------
(* Writers.                                                                *)

\* Rows of trace t a SELECT of w returns: those committed, and those w has flushed; a
\* scope's queued rows are not in the database yet.
Visible(w, t) ==
  {i \in Ids : /\ log[i].trace = t
               /\ \/ log[i].state = "committed"
                  \/ log[i].state = "open" /\ log[i].by = w /\ tx[w].mode = "request"}

\* Mutant: a scope does not look for rows before its own.
UnseededPrev(w, t, p) == p = tx[w].tail[t]

\* The predecessor of an event: the scope's own last row, or the newest row in sight.
IsPrev(w, t, p) ==
  IF tx[w].tail[t] # 0 THEN p = tx[w].tail[t]
  ELSE \/ Visible(w, t) = {} /\ p = 0
       \/ p \in Visible(w, t) /\ \A i \in Visible(w, t) : i <= p

\* emit_audit_event: the row is flushed, or queued in a scope.  What happens to the
\* finding the event is about (a savepoint that is rolled back) does not touch it.
AppendRow(w, t, c, p, since, tail) ==
  /\ emitted' = emitted + 1
  /\ log' = [log EXCEPT ![emitted + 1] =
               [state |-> "open", by |-> w, trace |-> t, class |-> c, prev |-> p,
                day |-> now.day, tick |-> now.tick, since |-> since, seq |-> 0]]
  /\ tx' = [tx EXCEPT ![w] = [mode |-> IF tx[w].mode = "idle" THEN "request" ELSE tx[w].mode,
                              since |-> since, tail |-> tail]]
  /\ UNCHANGED <<commits, now, anchor, check>>

\* A request, a webhook or a task opens its session; run_full_sync opens its scope.
Begin(w, m) ==
  /\ tx[w].mode = "idle"
  /\ tx' = [tx EXCEPT ![w] = [mode |-> m, since |-> commits, tail |-> NoTail]]
  /\ UNCHANGED <<log, emitted, commits, now, anchor, check>>

Emit(w, t, c) ==
  /\ tx[w].mode # "idle"
  /\ emitted < MaxEvents
  /\ \E p \in 0 .. MaxEvents :
       /\ IsPrev(w, t, p)
       /\ AppendRow(w, t, c, p, tx[w].since,
                 IF tx[w].mode = "sync" THEN [tx[w].tail EXCEPT ![t] = emitted + 1]
                 ELSE tx[w].tail)

\* GET /audit/export notes itself on the trace of the first row it exports.
Export(w, t, c) ==
  /\ tx[w].mode = "idle"
  /\ emitted < MaxEvents
  /\ Visible(w, t) # {}
  /\ \E p \in 0 .. MaxEvents :
       /\ IsPrev(w, t, p)
       /\ AppendRow(w, t, c, p, commits, NoTail)

OpenBy(i, w) == log[i].state = "open" /\ log[i].by = w

\* A commit ends a request; a scope goes on with its next batch, or ends.
Commit(w) ==
  /\ \E i \in Ids : OpenBy(i, w)
  /\ log' = [i \in Ids |->
               IF OpenBy(i, w)
               THEN [log[i] EXCEPT !.state = "committed", !.seq = commits + 1] ELSE log[i]]
  /\ commits' = commits + 1
  /\ \/ tx' = [tx EXCEPT ![w] = NoTx]
     \/ tx[w].mode = "sync" /\ UNCHANGED tx
  /\ UNCHANGED <<emitted, now, anchor, check>>

\* Mutant: the scope outlives the rollback.
AbortKeepsCache(w) ==
  /\ tx[w].mode # "idle"
  /\ log' = [i \in Ids |-> IF OpenBy(i, w) THEN NoRow ELSE log[i]]
  /\ tx' = [tx EXCEPT ![w] = IF @.mode = "sync" THEN @ ELSE NoTx]
  /\ UNCHANGED <<emitted, commits, now, anchor, check>>

\* An exception, or a crash, ends the session and the scope with it.
Abort(w) ==
  /\ tx[w].mode # "idle"
  /\ log' = [i \in Ids |-> IF OpenBy(i, w) THEN NoRow ELSE log[i]]
  /\ tx' = [tx EXCEPT ![w] = NoTx]
  /\ UNCHANGED <<emitted, commits, now, anchor, check>>

----------------------------------------------------------------------------
(* Daily checkpoints.                                                      *)

\* Mutant: the window leaves its first instant out.
InWindowAfter(i, d) == log[i].day = d /\ log[i].tick > 0 /\ log[i].tick < LastTick

\* created_at between T00:00:00 and T23:59:59 of the day.
InWindow(i, d) == log[i].day = d /\ log[i].tick < LastTick

\* create_daily_checkpoint reads the rows of the day and the anchor that is there.
ReadDay(k, d, c) ==
  /\ check[k].at = "idle"
  /\ k = Beat => now.day = d + 1 /\ c = Scheduled
  /\ check' = [check EXCEPT ![k] =
       [at |-> "read", day |-> d, class |-> c, found |-> anchor[d][c].there, seq |-> commits,
        rows |-> {i \in Ids : log[i].state = "committed" /\ log[i].class = c /\ InWindow(i, d)}]]
  /\ UNCHANGED <<log, emitted, tx, commits, now, anchor>>

\* The commit of the checkpoint: it replaces the anchor it found, and one that came up
\* since then makes its insert fail (the beat task tries again, with a new reading).
WriteAnchor(k) ==
  LET q == check[k] IN
  /\ q.at = "read"
  /\ check' = [check EXCEPT ![k] = NoCheck]
  /\ IF anchor[q.day][q.class].there /\ ~q.found
     THEN UNCHANGED anchor
     ELSE anchor' = [anchor EXCEPT ![q.day][q.class] =
                       [there |-> TRUE, rows |-> q.rows, seq |-> q.seq]]
  /\ UNCHANGED <<log, emitted, tx, commits, now>>

Tick ==
  /\ \/ now.tick < LastTick /\ now' = [now EXCEPT !.tick = @ + 1]
     \/ now.tick = LastTick /\ now.day < LastDay /\ now' = [day |-> now.day + 1, tick |-> 0]
  /\ UNCHANGED <<log, emitted, tx, commits, anchor, check>>

Next ==
  \/ \E w \in Writers :
       \/ \E m \in {"request", "sync"} : Begin(w, m)
       \/ \E t \in Traces, c \in Classes : Emit(w, t, c) \/ Export(w, t, c)
       \/ Commit(w) \/ Abort(w)
  \/ \E k \in Checkers :
       \/ \E d \in Anchored, c \in Classes : ReadDay(k, d, c)
       \/ WriteAnchor(k)
  \/ Tick

Spec == Init /\ [][Next]_vars

----------------------------------------------------------------------------
(* Properties.                                                             *)

Committed(i) == log[i].state = "committed"

\* The chain of a trace can be followed: the predecessor a committed event names is a
\* committed, earlier event of its trace (a scope chains to rows it has only queued, over
\* commits and failed findings).
ChainUnbroken ==
  \A i \in Ids : Committed(i) /\ log[i].prev # 0 =>
    /\ log[i].prev < i
    /\ Committed(log[i].prev)
    /\ log[log[i].prev].trace = log[i].trace

\* A chain forks only where two writers overlapped: of two events with the same
\* predecessor, the first was committed after the second one's transaction, or scope, had
\* begun (emit_audit_event reads the predecessor without a lock, and a scope does not read
\* it again).
ForksOverlap ==
  \A i, j \in Ids :
    Committed(i) /\ Committed(j) /\ i < j /\ log[i].trace = log[j].trace
      /\ log[i].prev = log[j].prev
    => log[j].since < log[i].seq

\* An anchor misses an event of its day only when the event was committed after the
\* checkpoint read the ledger, or was emitted in the last second of the day; and it holds
\* nothing else, whatever checkpoints ran at the same time.
AnchorsExact ==
  \A d \in Days, c \in Classes :
    anchor[d][c].there =>
      anchor[d][c].rows =
        {i \in Ids : /\ Committed(i) /\ log[i].class = c /\ log[i].day = d
                     /\ log[i].seq <= anchor[d][c].seq /\ log[i].tick # LastTick}

============================================================================
