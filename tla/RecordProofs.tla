---------------------------- MODULE RecordProofs ----------------------------
(***************************************************************************)
(* Proofs about the records by which VAT knows what it has done: the audit *)
(* ledger, for any number of writers, traces, events, days and             *)
(* checkpoints, and the idempotency keys of the tracker's deliveries, for  *)
(* any issues, findings, comments, edits and faults.                       *)
(***************************************************************************)
EXTENDS AuditLedger, TrackerInbound, FiniteSetTheorems, WellFoundedInduction, TLAPS

----------------------------------------------------------------------------
(* The audit ledger: the inductive invariant.                              *)

\* Rows: events that were not emitted have none; an open row belongs to the transaction,
\* or the scope, its writer is in; a committed row has the number of its commit.
RowsInv ==
  /\ \A i \in Ids : i > emitted => log[i].state = "none"
  /\ \A i \in Ids : log[i].state = "open" =>
       /\ log[i].by \in Writers /\ tx[log[i].by].mode # "idle"
       /\ log[i].since = tx[log[i].by].since
  /\ \A i \in Ids : log[i].state # "none" => log[i].since <= commits
  /\ \A i \in Ids : Committed(i) => log[i].seq <= commits
  /\ \A w \in Writers : tx[w].since <= commits

\* What a scope remembers is a row of its own, of that trace, that can still be committed
\* only with those it will write next.
TailInv ==
  \A w \in Writers, t \in Traces :
    LET k == tx[w].tail[t] IN
    k # 0 =>
      /\ tx[w].mode = "sync"
      /\ k <= emitted
      /\ log[k].trace = t
      /\ log[k].since = tx[w].since
      /\ \/ Committed(k)
         \/ log[k].state = "open" /\ log[k].by = w

\* ChainUnbroken, with the rows that are not committed yet: an open row may follow an open
\* row of the same writer, since both are committed, or lost, together.
LinkInv ==
  \A i \in Ids : log[i].state # "none" /\ log[i].prev # 0 =>
    /\ log[i].prev < i
    /\ log[log[i].prev].trace = log[i].trace
    /\ \/ Committed(log[i].prev)
       \/ /\ log[i].state = "open" /\ log[log[i].prev].state = "open"
          /\ log[log[i].prev].by = log[i].by

\* A row comes after everything that was committed before its transaction, or its scope,
\* began.
CoverInv ==
  \A i, j \in Ids :
    Committed(i) /\ log[j].state # "none" /\ log[i].trace = log[j].trace
      /\ log[i].seq <= log[j].since
    => i <= log[j].prev

\* The rows of a day a reader that could see n commits finds.
Seen(d, c, n) ==
  {i \in Ids : /\ Committed(i) /\ log[i].class = c /\ log[i].day = d
               /\ log[i].seq <= n /\ log[i].tick # LastTick}

AnchorInv ==
  /\ \A d \in Days, c \in Classes : anchor[d][c].there =>
       anchor[d][c].seq <= commits /\ anchor[d][c].rows = Seen(d, c, anchor[d][c].seq)
  /\ \A k \in Checkers : check[k].at = "read" =>
       check[k].seq <= commits /\ check[k].rows = Seen(check[k].day, check[k].class, check[k].seq)

IInv == TypeOK /\ RowsInv /\ TailInv /\ LinkInv /\ CoverInv /\ AnchorInv

----------------------------------------------------------------------------
(* The initial states.                                                     *)

\* The ledger starts with no event and no open transaction.
LEMMA InitIInv == Init => IInv
<1> USE AuditLedgerAssumption DEF Init, NoRow, NoTx, NoTail, NoCheck, Ids, Days
<1> SUFFICES ASSUME Init PROVE IInv
  OBVIOUS
<1>1. TypeOK
  BY DEF TypeOK, Row, Tx, Anchor, Check
<1>2. RowsInv
  BY DEF RowsInv, Committed
<1>3. TailInv
  BY DEF TailInv
<1>4. LinkInv /\ CoverInv
  BY DEF LinkInv, CoverInv, Committed
<1>5. AnchorInv
  BY DEF AnchorInv
<1> QED
  BY <1>1, <1>2, <1>3, <1>4, <1>5 DEF IInv

\* What the steps below need of the types.
LEMMA Types ==
  ASSUME TypeOK
  PROVE  /\ emitted \in Nat /\ commits \in Nat /\ emitted <= MaxEvents
         /\ now.day \in Days /\ now.tick \in 0 .. LastTick
         /\ \A i \in Ids : /\ log[i] \in Row
                           /\ log[i].prev \in 0 .. MaxEvents
                           /\ log[i].since \in Nat /\ log[i].seq \in Nat
         /\ \A w \in Writers : /\ tx[w] \in Tx /\ tx[w].since \in Nat
                               /\ tx[w].mode \in {"idle", "request", "sync"}
                               /\ tx[w].tail \in [Traces -> 0 .. MaxEvents]
         /\ \A d \in Days, c \in Classes : anchor[d][c].seq \in Nat
         /\ \A k \in Checkers : /\ check[k].seq \in Nat /\ check[k].day \in Days
                                 /\ check[k].class \in Classes
  BY AuditLedgerAssumption DEF TypeOK, Row, Tx, Anchor, Check

----------------------------------------------------------------------------
(* An event is appended, by Emit or by Export.                             *)

\* A new row is chained to the tail its writer sees, in its transaction or committed.
LEMMA AppendStep ==
  ASSUME IInv, NEW w \in Writers, NEW t \in Traces, NEW c \in Classes,
         NEW p \in 0 .. MaxEvents, NEW since \in Nat, NEW tail \in [Traces -> 0 .. MaxEvents],
         emitted < MaxEvents, IsPrev(w, t, p),
         tx[w].mode = "idle" => since = commits,
         tx[w].mode # "idle" => since = tx[w].since,
         tx[w].mode = "sync" => tail = [tx[w].tail EXCEPT ![t] = emitted + 1],
         tx[w].mode # "sync" => tail = NoTail,
         AppendRow(w, t, c, p, since, tail)
  PROVE  IInv'
<1> DEFINE e == emitted + 1
<1> USE AuditLedgerAssumption DEF Ids
<1>0. TypeOK /\ RowsInv /\ TailInv /\ LinkInv /\ CoverInv /\ AnchorInv
  BY DEF IInv
<1>t. /\ emitted \in Nat /\ commits \in Nat /\ MaxEvents \in Nat
      /\ \A i \in Ids : /\ i \in Nat \ {0} /\ log[i].prev \in 0 .. MaxEvents
                        /\ log[i].since \in Nat /\ log[i].seq \in Nat
      /\ \A v \in Writers : /\ tx[v].since \in Nat
                            /\ tx[v].tail \in [Traces -> 0 .. MaxEvents]
  BY <1>0, Types
<1>1. /\ e \in Ids /\ log[e].state = "none"
      /\ emitted' = e /\ commits' = commits /\ now' = now
      /\ anchor' = anchor /\ check' = check
  BY <1>0 DEF TypeOK, RowsInv, AppendRow
<1>2. /\ log'[e] = [state |-> "open", by |-> w, trace |-> t, class |-> c, prev |-> p,
                    day |-> now.day, tick |-> now.tick, since |-> since, seq |-> 0]
      /\ \A i \in Ids : i # e => log'[i] = log[i]
  BY <1>0, <1>1 DEF TypeOK, AppendRow
<1>3. /\ tx'[w].mode # "idle" /\ tx'[w].since = since /\ tx'[w].tail = tail
      /\ tx[w].mode # "idle" => tx'[w].mode = tx[w].mode
      /\ tx[w].mode = "idle" => tx'[w].mode = "request"
      /\ \A v \in Writers : v # w => tx'[v] = tx[v]
  BY <1>0 DEF TypeOK, Tx, AppendRow
<1>4. since <= commits
  BY <1>0 DEF TypeOK, RowsInv
<1>5. TypeOK'
  <2>1. log' \in [Ids -> Row]
    <3>1. [state |-> "open", by |-> w, trace |-> t, class |-> c, prev |-> p,
           day |-> now.day, tick |-> now.tick, since |-> since, seq |-> 0] \in Row
      BY <1>0, Types DEF Row
    <3> QED
      BY <3>1, <1>0 DEF TypeOK, AppendRow
  <2>2. tx' \in [Writers -> Tx]
    <3>1. [mode |-> IF tx[w].mode = "idle" THEN "request" ELSE tx[w].mode,
           since |-> since, tail |-> tail] \in Tx
      BY <1>0, Types DEF Tx
    <3> QED
      BY <3>1, <1>0 DEF TypeOK, AppendRow
  <2> QED
    BY <2>1, <2>2, <1>0, <1>1 DEF TypeOK
<1>6. RowsInv'
  <2>1. \A i \in Ids : (i > emitted => log[i].state = "none")'
    BY <1>0, <1>t, <1>1, <1>2 DEF RowsInv
  <2>2. \A i \in Ids : (log[i].state = "open" =>
          /\ log[i].by \in Writers /\ tx[log[i].by].mode # "idle"
          /\ log[i].since = tx[log[i].by].since)'
    BY <1>0, <1>1, <1>2, <1>3 DEF RowsInv
  <2>3. \A i \in Ids : (log[i].state # "none" => log[i].since <= commits)'
    BY <1>0, <1>1, <1>2, <1>4 DEF RowsInv
  <2>4. \A i \in Ids : (Committed(i) => log[i].seq <= commits)'
    BY <1>0, <1>1, <1>2 DEF RowsInv, Committed
  <2>5. \A v \in Writers : (tx[v].since <= commits)'
    BY <1>0, <1>1, <1>3, <1>4 DEF RowsInv
  <2> QED
    BY <2>1, <2>2, <2>3, <2>4, <2>5 DEF RowsInv
<1>7. TailInv'
  <2> SUFFICES ASSUME NEW v \in Writers, NEW u \in Traces, tx'[v].tail[u] # 0
               PROVE  LET k == tx'[v].tail[u] IN
                        /\ tx'[v].mode = "sync" /\ k <= emitted'
                        /\ log'[k].trace = u /\ log'[k].since = tx'[v].since
                        /\ log'[k].state = "committed" \/ (log'[k].state = "open" /\ log'[k].by = v)
    BY DEF TailInv, Committed
  <2>1. CASE v = w /\ tx[w].mode = "sync" /\ u = t
    <3>1. tx'[v].tail[u] = e
      BY <2>1, <1>t, <1>3
    <3> QED
      BY <2>1, <3>1, <1>1, <1>2, <1>3, <1>t
  <2>2. CASE v = w /\ tx[w].mode = "sync" /\ u # t
    <3>1. tx'[v].tail[u] = tx[w].tail[u] /\ tx'[v].since = tx[w].since
      BY <2>2, <1>t, <1>3
    <3>2. tx[w].tail[u] \in Ids /\ tx[w].tail[u] # e
      BY <2>2, <3>1, <1>0, <1>t DEF TailInv
    <3> QED
      BY <2>2, <3>1, <3>2, <1>0, <1>1, <1>2, <1>3, <1>t DEF TailInv, Committed
  <2>3. CASE v = w /\ tx[w].mode # "sync"
    BY <2>3, <1>3 DEF NoTail
  <2>4. CASE v # w
    <3>1. tx'[v] = tx[v]
      BY <2>4, <1>3
    <3>2. tx[v].tail[u] \in Ids /\ tx[v].tail[u] # e
      BY <3>1, <1>0, <1>t DEF TailInv
    <3> QED
      BY <3>1, <3>2, <1>0, <1>1, <1>2, <1>t DEF TailInv, Committed
  <2> QED
    BY <2>1, <2>2, <2>3, <2>4
<1>8. p # 0 => /\ p \in Ids /\ p < e /\ log[p].trace = t
               /\ Committed(p) \/ (log[p].state = "open" /\ log[p].by = w)
  <2>1. CASE tx[w].tail[t] # 0
    BY <2>1, <1>0, <1>t DEF IsPrev, TailInv
  <2>2. CASE tx[w].tail[t] = 0
    <3> SUFFICES ASSUME p # 0
                 PROVE  /\ p \in Ids /\ p < e /\ log[p].trace = t
                        /\ Committed(p) \/ (log[p].state = "open" /\ log[p].by = w)
      OBVIOUS
    <3>1. p \in Visible(w, t)
      BY <2>2 DEF IsPrev
    <3>2. /\ p \in Ids /\ log[p].trace = t /\ log[p].state # "none"
          /\ Committed(p) \/ (log[p].state = "open" /\ log[p].by = w)
      BY <3>1 DEF Visible, Committed
    <3>3. ~(p > emitted)
      BY <3>2, <1>0 DEF RowsInv
    <3> QED
      BY <3>2, <3>3, <1>t
  <2> QED
    BY <2>1, <2>2
<1>9. LinkInv'
  <2> SUFFICES ASSUME NEW i \in Ids, log'[i].state # "none", log'[i].prev # 0
               PROVE  LET q == log'[i].prev IN
                        /\ q < i /\ log'[q].trace = log'[i].trace
                        /\ \/ log'[q].state = "committed"
                           \/ /\ log'[i].state = "open" /\ log'[q].state = "open"
                              /\ log'[q].by = log'[i].by
    BY DEF LinkInv, Committed
  <2>1. CASE i = e
    <3>1. /\ log'[i].prev = p /\ log'[i].trace = t /\ log'[i].state = "open" /\ log'[i].by = w
          /\ p # 0
      BY <2>1, <1>2
    <3>2. /\ p \in Ids /\ p < e /\ log[p].trace = t
          /\ log[p].state = "committed" \/ (log[p].state = "open" /\ log[p].by = w)
      BY <3>1, <1>8 DEF Committed
    <3>3. p # e
      <4>1. e \in Nat /\ ~(e < e)
        BY <1>t
      <4> HIDE DEF e
      <4> QED
        BY <3>2, <4>1
    <3>4. log'[p] = log[p]
      BY <3>2, <3>3, <1>2
    <3>5. p < i
      BY <2>1, <3>2
    <3>6. \/ log'[p].state = "committed"
          \/ log'[i].state = "open" /\ log'[p].state = "open" /\ log'[p].by = log'[i].by
      BY <3>1, <3>2, <3>4
    <3>7. log'[p].trace = log'[i].trace
      BY <3>1, <3>2, <3>4
    <3> HIDE DEF e
    <3> QED
      BY <3>1, <3>5, <3>6, <3>7
  <2>2. CASE i # e
    <3>1. log'[i] = log[i] /\ log[i].prev \in Ids
      BY <2>2, <1>2, <1>t
    <3>2. log[i].prev # e
      <4>1. log[log[i].prev].state # "none"
        BY <3>1, <1>0 DEF LinkInv, Committed
      <4> QED
        BY <4>1, <1>1
    <3> QED
      BY <3>1, <3>2, <1>0, <1>2 DEF LinkInv, Committed
  <2> QED
    BY <2>1, <2>2
<1>10. \A i \in Ids : Committed(i) /\ log[i].trace = t /\ log[i].seq <= since => i <= p
  <2> SUFFICES ASSUME NEW i \in Ids, Committed(i), log[i].trace = t, log[i].seq <= since
               PROVE  i <= p
    OBVIOUS
  <2>1. CASE tx[w].tail[t] = 0
    <3>1. i \in Visible(w, t)
      BY DEF Visible, Committed
    <3> QED
      BY <2>1, <3>1 DEF IsPrev
  <2>2. CASE tx[w].tail[t] # 0
    <3>1. /\ p = tx[w].tail[t] /\ p \in Ids
          /\ log[p].trace = t /\ log[p].since = since /\ log[p].state # "none"
      BY <2>2, <1>0, <1>t DEF IsPrev, TailInv, Committed
    <3>2. i <= log[p].prev
      BY <3>1, <1>0 DEF CoverInv
    <3>3. log[p].prev # 0 /\ log[p].prev < p
      <4>1. log[p].prev # 0
        BY <3>1, <3>2, <1>t
      <4> QED
        BY <4>1, <3>1, <1>0 DEF LinkInv
    <3> QED
      BY <3>1, <3>2, <3>3, <1>t
  <2> QED
    BY <2>1, <2>2
<1>11. CoverInv'
  BY <1>0, <1>1, <1>2, <1>10 DEF CoverInv, Committed
<1>12. AnchorInv'
  <2>1. \A d \in Days, x \in Classes, n \in Nat : Seen(d, x, n)' = Seen(d, x, n)
    BY <1>1, <1>2 DEF Seen, Committed
  <2> QED
    <3>1. \A d \in Days, x \in Classes : anchor[d][x].seq \in Nat
      BY <1>0, Types
    <3>2. \A k \in Checkers :
            check[k].seq \in Nat /\ check[k].day \in Days /\ check[k].class \in Classes
      BY <1>0, Types
    <3> QED
      BY <2>1, <3>1, <3>2, <1>0, <1>1 DEF AnchorInv
<1> QED
  BY <1>5, <1>6, <1>7, <1>9, <1>11, <1>12 DEF IInv

----------------------------------------------------------------------------
(* The other steps.                                                        *)

\* An event of a request or of a sync is an appended row.
LEMMA EmitStep ==
  ASSUME IInv, NEW w \in Writers, NEW t \in Traces, NEW c \in Classes, Emit(w, t, c)
  PROVE  IInv'
<1> USE AuditLedgerAssumption
<1>1. TypeOK /\ TailInv
  BY DEF IInv
<1>2. PICK p \in 0 .. MaxEvents :
        /\ IsPrev(w, t, p)
        /\ AppendRow(w, t, c, p, tx[w].since,
                  IF tx[w].mode = "sync" THEN [tx[w].tail EXCEPT ![t] = emitted + 1]
                  ELSE tx[w].tail)
  BY DEF Emit
<1>3. PICK since \in Nat : since = tx[w].since
  BY <1>1, Types
<1>4. PICK tail \in [Traces -> 0 .. MaxEvents] :
        tail = IF tx[w].mode = "sync" THEN [tx[w].tail EXCEPT ![t] = emitted + 1]
               ELSE tx[w].tail
  BY <1>1, Types DEF Emit
<1>5. AppendRow(w, t, c, p, since, tail)
  BY <1>2, <1>3, <1>4
<1>6. tx[w].mode # "sync" => tail = NoTail
  BY <1>1, <1>4, Types DEF TailInv, NoTail
<1> QED
  BY <1>2, <1>3, <1>4, <1>5, <1>6, AppendStep DEF Emit

\* An export emits in a transaction of its own.
LEMMA ExportStep ==
  ASSUME IInv, NEW w \in Writers, NEW t \in Traces, NEW c \in Classes, Export(w, t, c)
  PROVE  IInv'
<1> USE AuditLedgerAssumption
<1>1. TypeOK
  BY DEF IInv
<1>2. PICK p \in 0 .. MaxEvents : IsPrev(w, t, p) /\ AppendRow(w, t, c, p, commits, NoTail)
  BY DEF Export
<1>3. PICK since \in Nat : since = commits
  BY <1>1, Types
<1>a. 0 \in 0 .. MaxEvents
  OBVIOUS
<1>b. NoTail \in [Traces -> 0 .. MaxEvents]
  BY <1>a DEF NoTail
<1>4. PICK tail \in [Traces -> 0 .. MaxEvents] : tail = NoTail
  BY <1>b
<1>5. AppendRow(w, t, c, p, since, tail)
  BY <1>2, <1>3, <1>4
<1> QED
  BY <1>2, <1>3, <1>4, <1>5, AppendStep DEF Export

\* A transaction begins with what is committed.
LEMMA BeginStep ==
  ASSUME IInv, NEW w \in Writers, NEW m \in {"request", "sync"}, Begin(w, m)
  PROVE  IInv'
<1> USE AuditLedgerAssumption
<1>0. TypeOK /\ RowsInv /\ TailInv /\ LinkInv /\ CoverInv /\ AnchorInv
  BY DEF IInv
<1>1. /\ log' = log /\ emitted' = emitted /\ commits' = commits
      /\ anchor' = anchor /\ check' = check /\ now' = now
  BY DEF Begin
<1>2. /\ tx'[w] = [mode |-> m, since |-> commits, tail |-> NoTail]
      /\ \A v \in Writers : v # w => tx'[v] = tx[v]
  BY <1>0 DEF TypeOK, Begin
<1>3. TypeOK'
  <2>1. [mode |-> m, since |-> commits, tail |-> NoTail] \in Tx
    BY <1>0, Types DEF Tx, NoTail
  <2> QED
    BY <2>1, <1>0, <1>1 DEF TypeOK, Begin
<1>4. RowsInv'
  <2>1. \A i \in Ids : log[i].state = "open" => log[i].by # w
    BY <1>0 DEF RowsInv, Begin
  <2> QED
    BY <2>1, <1>0, <1>1, <1>2, Types DEF RowsInv, Committed
<1>5. TailInv'
  BY <1>0, <1>1, <1>2 DEF TailInv, Committed, NoTail
<1>6. LinkInv' /\ CoverInv'
  BY <1>0, <1>1 DEF LinkInv, CoverInv, Committed
<1>7. AnchorInv'
  BY <1>0, <1>1 DEF AnchorInv, Seen, Committed
<1> QED
  BY <1>3, <1>4, <1>5, <1>6, <1>7 DEF IInv

\* A commit numbers the writer's open rows and closes the transaction or goes on in its scope.
LEMMA CommitStep ==
  ASSUME IInv, NEW w \in Writers, Commit(w)
  PROVE  IInv'
<1> USE AuditLedgerAssumption
<1>0. TypeOK /\ RowsInv /\ TailInv /\ LinkInv /\ CoverInv /\ AnchorInv
  BY DEF IInv
<1>t. /\ emitted \in Nat /\ commits \in Nat
      /\ \A i \in Ids : log[i].prev \in 0 .. MaxEvents /\ log[i].since \in Nat /\ log[i].seq \in Nat
      /\ \A v \in Writers : tx[v].since \in Nat /\ tx[v].tail \in [Traces -> 0 .. MaxEvents]
      /\ \A i \in 0 .. MaxEvents : i # 0 => i \in Ids
  BY <1>0, Types DEF Ids
<1>1. /\ emitted' = emitted /\ commits' = commits + 1
      /\ anchor' = anchor /\ check' = check /\ now' = now
  BY DEF Commit
<1>2. \A i \in Ids :
        /\ log'[i].trace = log[i].trace /\ log'[i].prev = log[i].prev /\ log'[i].by = log[i].by
        /\ log'[i].since = log[i].since /\ log'[i].class = log[i].class
        /\ log'[i].day = log[i].day /\ log'[i].tick = log[i].tick
        /\ OpenBy(i, w) => log'[i].state = "committed" /\ log'[i].seq = commits + 1
        /\ ~OpenBy(i, w) => log'[i] = log[i]
  BY <1>0, Types DEF Commit, Row
<1>3. /\ \A v \in Writers : v # w => tx'[v] = tx[v]
      /\ tx'[w] = NoTx \/ tx'[w] = tx[w]
  BY <1>0 DEF TypeOK, Commit
<1>4. TypeOK'
  <2>1. \A i \in Ids : (IF OpenBy(i, w)
                         THEN [log[i] EXCEPT !.state = "committed", !.seq = commits + 1]
                         ELSE log[i]) \in Row
    <3> TAKE i \in Ids
    <3>1. log[i] \in Row /\ commits + 1 \in Nat
      BY <1>0, <1>t, Types
    <3>2. [log[i] EXCEPT !.state = "committed", !.seq = commits + 1] \in Row
      BY <3>1 DEF Row
    <3> QED
      BY <3>1, <3>2
  <2>2. log' \in [Ids -> Row]
    BY <2>1 DEF Commit
  <2>3. NoTx \in Tx
    BY DEF NoTx, Tx, NoTail
  <2>4. tx' \in [Writers -> Tx]
    BY <2>3, <1>0 DEF TypeOK, Commit
  <2> QED
    BY <2>2, <2>4, <1>0, <1>1, <1>t DEF TypeOK
<1>5. RowsInv'
  <2>1. \A i \in Ids : (i > emitted => log[i].state = "none")'
    BY <1>0, <1>1, <1>2 DEF RowsInv, OpenBy
  <2>2. \A i \in Ids : (log[i].state = "open" =>
          /\ log[i].by \in Writers /\ tx[log[i].by].mode # "idle"
          /\ log[i].since = tx[log[i].by].since)'
    <3> SUFFICES ASSUME NEW i \in Ids, log'[i].state = "open"
                 PROVE  /\ log'[i].by \in Writers /\ tx'[log'[i].by].mode # "idle"
                        /\ log'[i].since = tx'[log'[i].by].since
      OBVIOUS
    <3>1. ~OpenBy(i, w) /\ log'[i] = log[i]
      BY <1>2
    <3>2. log[i].by \in Writers /\ log[i].by # w
      BY <3>1, <1>0 DEF RowsInv, OpenBy
    <3> QED
      BY <3>1, <3>2, <1>0, <1>3 DEF RowsInv
  <2>3. \A i \in Ids : (log[i].state # "none" => log[i].since <= commits)'
    BY <1>0, <1>1, <1>2, <1>t DEF RowsInv, OpenBy
  <2>4. \A i \in Ids : (Committed(i) => log[i].seq <= commits)'
    BY <1>0, <1>1, <1>2, <1>t DEF RowsInv, OpenBy, Committed
  <2>5. \A v \in Writers : (tx[v].since <= commits)'
    BY <1>0, <1>1, <1>3, <1>t DEF RowsInv, NoTx
  <2> QED
    BY <2>1, <2>2, <2>3, <2>4, <2>5 DEF RowsInv
<1>6. TailInv'
  <2> SUFFICES ASSUME NEW v \in Writers, NEW u \in Traces, tx'[v].tail[u] # 0
               PROVE  LET k == tx'[v].tail[u] IN
                        /\ tx'[v].mode = "sync" /\ k <= emitted'
                        /\ log'[k].trace = u /\ log'[k].since = tx'[v].since
                        /\ log'[k].state = "committed" \/ (log'[k].state = "open" /\ log'[k].by = v)
    BY DEF TailInv, Committed
  <2>1. tx'[v] = tx[v]
    BY <1>3 DEF NoTx, NoTail
  <2>2. PICK k \in Ids : k = tx[v].tail[u]
    BY <2>1, <1>t
  <2> QED
    BY <2>1, <2>2, <1>0, <1>1, <1>2 DEF TailInv, Committed, OpenBy
<1>7. LinkInv'
  <2> SUFFICES ASSUME NEW i \in Ids, log'[i].state # "none", log'[i].prev # 0
               PROVE  LET q == log'[i].prev IN
                        /\ q < i /\ log'[q].trace = log'[i].trace
                        /\ \/ log'[q].state = "committed"
                           \/ /\ log'[i].state = "open" /\ log'[q].state = "open"
                              /\ log'[q].by = log'[i].by
    BY DEF LinkInv, Committed
  <2>1. PICK q \in Ids : q = log[i].prev
    BY <1>2, <1>t
  <2>2. log[i].state # "none"
    BY <1>2 DEF OpenBy
  <2> QED
    BY <2>1, <2>2, <1>0, <1>2 DEF LinkInv, Committed, OpenBy
<1>8. CoverInv'
  <2> SUFFICES ASSUME NEW i \in Ids, NEW j \in Ids, log'[i].state = "committed",
                      log'[j].state # "none", log'[i].trace = log'[j].trace,
                      log'[i].seq <= log'[j].since
               PROVE  i <= log'[j].prev
    BY DEF CoverInv, Committed
  <2>1. log[j].state # "none" /\ log[j].since <= commits
    BY <1>0, <1>2 DEF OpenBy, RowsInv
  <2>2. ~OpenBy(i, w)
    BY <2>1, <1>2, <1>t
  <2> QED
    BY <2>1, <2>2, <1>0, <1>2 DEF CoverInv, Committed
<1>9. AnchorInv'
  <2>1. \A d \in Days, x \in Classes, n \in Nat : n <= commits => Seen(d, x, n)' = Seen(d, x, n)
    BY <1>2, <1>t DEF Seen, Committed, OpenBy
  <2>2. \A d \in Days, x \in Classes : anchor[d][x].seq \in Nat
    BY <1>0, Types
  <2>3. \A k \in Checkers :
          check[k].seq \in Nat /\ check[k].day \in Days /\ check[k].class \in Classes
    BY <1>0, Types
  <2> QED
    BY <2>1, <2>2, <2>3, <1>0, <1>1, <1>t DEF AnchorInv
<1> QED
  BY <1>4, <1>5, <1>6, <1>7, <1>8, <1>9 DEF IInv

\* A rollback removes the writer's rows, which nobody else was chained to.
LEMMA AbortStep ==
  ASSUME IInv, NEW w \in Writers, Abort(w)
  PROVE  IInv'
<1> USE AuditLedgerAssumption
<1>0. TypeOK /\ RowsInv /\ TailInv /\ LinkInv /\ CoverInv /\ AnchorInv
  BY DEF IInv
<1>t. /\ emitted \in Nat /\ commits \in Nat
      /\ \A i \in Ids : log[i].prev \in 0 .. MaxEvents /\ log[i].since \in Nat /\ log[i].seq \in Nat
      /\ \A v \in Writers : tx[v].since \in Nat /\ tx[v].tail \in [Traces -> 0 .. MaxEvents]
      /\ \A i \in 0 .. MaxEvents : i # 0 => i \in Ids
  BY <1>0, Types DEF Ids
<1>1. /\ emitted' = emitted /\ commits' = commits
      /\ anchor' = anchor /\ check' = check /\ now' = now
  BY DEF Abort
<1>2. \A i \in Ids :
        /\ OpenBy(i, w) => log'[i] = NoRow
        /\ ~OpenBy(i, w) => log'[i] = log[i]
  BY DEF Abort
<1>3. tx'[w] = NoTx /\ \A v \in Writers : v # w => tx'[v] = tx[v]
  BY <1>0 DEF TypeOK, Abort
<1>4. TypeOK'
  <2>1. NoRow \in Row /\ NoTx \in Tx
    BY DEF NoRow, Row, NoTx, Tx, NoTail, Days
  <2>2. log' \in [Ids -> Row]
    BY <2>1, <1>0 DEF TypeOK, Abort
  <2>3. tx' \in [Writers -> Tx]
    BY <2>1, <1>0 DEF TypeOK, Abort
  <2> QED
    BY <2>2, <2>3, <1>0, <1>1 DEF TypeOK
<1>n. NoRow.state = "none"
  BY DEF NoRow
<1>5. RowsInv'
  <2>1. \A i \in Ids : (log[i].state = "open" =>
          /\ log[i].by \in Writers /\ tx[log[i].by].mode # "idle"
          /\ log[i].since = tx[log[i].by].since)'
    <3> SUFFICES ASSUME NEW i \in Ids, log'[i].state = "open"
                 PROVE  /\ log'[i].by \in Writers /\ tx'[log'[i].by].mode # "idle"
                        /\ log'[i].since = tx'[log'[i].by].since
      OBVIOUS
    <3>1. ~OpenBy(i, w) /\ log'[i] = log[i]
      BY <1>2, <1>n
    <3>2. log[i].by \in Writers /\ log[i].by # w
      BY <3>1, <1>0 DEF RowsInv, OpenBy
    <3> QED
      BY <3>1, <3>2, <1>0, <1>3 DEF RowsInv
  <2>2. \A i \in Ids : (i > emitted => log[i].state = "none")'
    BY <1>0, <1>1, <1>2, <1>n DEF RowsInv
  <2>3. \A i \in Ids : (log[i].state # "none" => log[i].since <= commits)'
    BY <1>0, <1>1, <1>2, <1>n DEF RowsInv
  <2>4. \A i \in Ids : (Committed(i) => log[i].seq <= commits)'
    BY <1>0, <1>1, <1>2, <1>n DEF RowsInv, Committed
  <2>5. \A v \in Writers : (tx[v].since <= commits)'
    BY <1>0, <1>1, <1>3, <1>t DEF RowsInv, NoTx
  <2> QED
    BY <2>1, <2>2, <2>3, <2>4, <2>5 DEF RowsInv
<1>6. TailInv'
  <2> SUFFICES ASSUME NEW v \in Writers, NEW u \in Traces, tx'[v].tail[u] # 0
               PROVE  LET k == tx'[v].tail[u] IN
                        /\ tx'[v].mode = "sync" /\ k <= emitted'
                        /\ log'[k].trace = u /\ log'[k].since = tx'[v].since
                        /\ log'[k].state = "committed" \/ (log'[k].state = "open" /\ log'[k].by = v)
    BY DEF TailInv, Committed
  <2>1. v # w /\ tx'[v] = tx[v]
    BY <1>3 DEF NoTx, NoTail
  <2>2. PICK k \in Ids : k = tx[v].tail[u]
    BY <2>1, <1>t
  <2>3. log'[k] = log[k]
    BY <2>1, <2>2, <1>0, <1>2 DEF TailInv, Committed, OpenBy
  <2> QED
    BY <2>1, <2>2, <2>3, <1>0, <1>1 DEF TailInv, Committed
<1>7. LinkInv'
  <2> SUFFICES ASSUME NEW i \in Ids, log'[i].state # "none", log'[i].prev # 0
               PROVE  LET q == log'[i].prev IN
                        /\ q < i /\ log'[q].trace = log'[i].trace
                        /\ \/ log'[q].state = "committed"
                           \/ /\ log'[i].state = "open" /\ log'[q].state = "open"
                              /\ log'[q].by = log'[i].by
    BY DEF LinkInv, Committed
  <2>1. ~OpenBy(i, w) /\ log'[i] = log[i]
    BY <1>2, <1>n
  <2>2. PICK q \in Ids : q = log[i].prev
    BY <2>1, <1>t
  <2>3. log'[q] = log[q]
    BY <2>1, <2>2, <1>0, <1>2 DEF LinkInv, Committed, OpenBy
  <2> QED
    BY <2>1, <2>2, <2>3, <1>0 DEF LinkInv, Committed
<1>8. CoverInv'
  BY <1>0, <1>2, <1>n DEF CoverInv, Committed
<1>9. AnchorInv'
  <2>1. \A d \in Days, x \in Classes, n \in Nat : Seen(d, x, n)' = Seen(d, x, n)
    BY <1>2, <1>n DEF Seen, Committed, OpenBy
  <2>2. \A d \in Days, x \in Classes : anchor[d][x].seq \in Nat
    BY <1>0, Types
  <2>3. \A k \in Checkers :
          check[k].seq \in Nat /\ check[k].day \in Days /\ check[k].class \in Classes
    BY <1>0, Types
  <2> QED
    BY <2>1, <2>2, <2>3, <1>0, <1>1 DEF AnchorInv
<1> QED
  BY <1>4, <1>5, <1>6, <1>7, <1>8, <1>9 DEF IInv

\* A step that leaves the rows and the transactions alone.
LEMMA SameRows ==
  ASSUME IInv, UNCHANGED <<log, emitted, tx, commits>>
  PROVE  RowsInv' /\ TailInv' /\ LinkInv' /\ CoverInv'
BY DEF IInv, RowsInv, TailInv, LinkInv, CoverInv, Committed

\* The checkpoint job reads what a reader of the day finds now.
LEMMA ReadDayStep ==
  ASSUME IInv, NEW k \in Checkers, NEW d \in Days, NEW c \in Classes, ReadDay(k, d, c)
  PROVE  IInv'
<1> USE AuditLedgerAssumption
<1>0. TypeOK /\ RowsInv /\ AnchorInv
  BY DEF IInv
<1>t. commits \in Nat /\ \A i \in Ids : log[i].tick \in 0 .. LastTick /\ log[i].seq \in Nat
  BY <1>0 DEF TypeOK, Row
<1>1. UNCHANGED <<log, emitted, tx, commits, now, anchor>>
  BY DEF ReadDay
<1> DEFINE found == {i \in Ids : log[i].state = "committed" /\ log[i].class = c /\ InWindow(i, d)}
<1>2. /\ check'[k] = [at |-> "read", day |-> d, class |-> c, found |-> anchor[d][c].there,
                      seq |-> commits, rows |-> found]
      /\ \A q \in Checkers : q # k => check'[q] = check[q]
  BY <1>0 DEF TypeOK, ReadDay
<1>3. found = Seen(d, c, commits)
  <2>1. \A i \in Ids : log[i].tick < LastTick <=> log[i].tick # LastTick
    BY <1>t
  <2> QED
    BY <2>1, <1>0 DEF Seen, Committed, InWindow, RowsInv
<1>4. TypeOK'
  <2>1. anchor[d][c].there \in BOOLEAN
    BY <1>0 DEF TypeOK, Anchor
  <2>2. [at |-> "read", day |-> d, class |-> c, found |-> anchor[d][c].there,
         seq |-> commits, rows |-> found] \in Check
    BY <2>1, <1>t DEF Check
  <2>3. check' \in [Checkers -> Check]
    BY <2>2, <1>0 DEF TypeOK, ReadDay
  <2> QED
    BY <2>3, <1>0, <1>1 DEF TypeOK
<1>5. AnchorInv'
  <2>1. \A a, x, n : Seen(a, x, n)' = Seen(a, x, n)
    BY <1>1 DEF Seen, Committed
  <2>2. \A q \in Checkers : check'[q].at = "read" =>
          /\ check'[q].seq <= commits
          /\ check'[q].rows = Seen(check'[q].day, check'[q].class, check'[q].seq)
    <3> HIDE DEF found
    <3> TAKE q \in Checkers
    <3>1. CASE q = k
      <4>1. /\ check'[q].seq = commits /\ check'[q].day = d /\ check'[q].class = c
            /\ check'[q].rows = found
        BY <3>1, <1>2
      <4> QED
        BY <4>1, <1>t, <1>3
    <3>2. CASE q # k
      BY <3>2, <1>0, <1>2 DEF AnchorInv
    <3> QED
      BY <3>1, <3>2
  <2> QED
    BY <2>1, <2>2, <1>0, <1>1 DEF AnchorInv
<1> QED
  BY <1>1, <1>4, <1>5, SameRows DEF IInv

\* The anchor written is the one that was read.
LEMMA WriteAnchorStep ==
  ASSUME IInv, NEW k \in Checkers, WriteAnchor(k)
  PROVE  IInv'
<1> USE AuditLedgerAssumption
<1>0. TypeOK /\ AnchorInv
  BY DEF IInv
<1>1. UNCHANGED <<log, emitted, tx, commits, now>> /\ check[k].at = "read"
  BY DEF WriteAnchor
<1> DEFINE new == [there |-> TRUE, rows |-> check[k].rows, seq |-> check[k].seq]
<1>2. check'[k] = NoCheck /\ \A q \in Checkers : q # k => check'[q] = check[q]
  BY <1>0 DEF TypeOK, WriteAnchor
<1>3. \A d \in Days, c \in Classes :
        \/ anchor'[d][c] = anchor[d][c]
        \/ d = check[k].day /\ c = check[k].class /\ anchor'[d][c] = new
  <2>1. check[k].day \in Days /\ check[k].class \in Classes
    BY <1>0, Types
  <2> QED
    BY <2>1, <1>0 DEF TypeOK, WriteAnchor
<1>4. TypeOK'
  <2>1. NoCheck \in Check
    BY DEF NoCheck, Check, Days
  <2>2. check' \in [Checkers -> Check]
    BY <2>1, <1>0 DEF TypeOK, WriteAnchor
  <2>3. new \in Anchor
    BY <1>0 DEF TypeOK, Check, Anchor
  <2>4. anchor' \in [Days -> [Classes -> Anchor]]
    <3>1. check[k].day \in Days /\ check[k].class \in Classes
      BY <1>0, Types
    <3>2. anchor \in [Days -> [Classes -> Anchor]]
      BY <1>0 DEF TypeOK
    <3>3. \/ anchor' = anchor
          \/ anchor' = [anchor EXCEPT ![check[k].day][check[k].class] = new]
      BY DEF WriteAnchor
    <3> HIDE DEF new
    <3>4. [anchor EXCEPT ![check[k].day][check[k].class] = new] \in [Days -> [Classes -> Anchor]]
      BY <3>1, <3>2, <2>3
    <3> QED
      BY <3>2, <3>3, <3>4
  <2> QED
    BY <2>2, <2>4, <1>0, <1>1 DEF TypeOK
<1>5. AnchorInv'
  <2>1. \A a, x, n : Seen(a, x, n)' = Seen(a, x, n)
    BY <1>1 DEF Seen, Committed
  <2>2. \A d \in Days, c \in Classes : anchor'[d][c].there =>
          anchor'[d][c].seq <= commits /\ anchor'[d][c].rows = Seen(d, c, anchor'[d][c].seq)
    BY <1>0, <1>1, <1>3 DEF AnchorInv
  <2>3. \A q \in Checkers : check'[q].at = "read" =>
          /\ check'[q].seq <= commits
          /\ check'[q].rows = Seen(check'[q].day, check'[q].class, check'[q].seq)
    BY <1>0, <1>2 DEF AnchorInv, NoCheck
  <2> QED
    BY <2>1, <2>2, <2>3, <1>1 DEF AnchorInv
<1> QED
  BY <1>1, <1>4, <1>5, SameRows DEF IInv

\* The clock, and stuttering, touch neither the rows nor the anchors.
LEMMA TickStep ==
  ASSUME IInv, Tick \/ UNCHANGED vars
  PROVE  IInv'
<1> USE AuditLedgerAssumption
<1>0. TypeOK /\ AnchorInv
  BY DEF IInv
<1>1. UNCHANGED <<log, emitted, tx, commits, anchor, check>>
  BY DEF Tick, vars
<1>2. now' \in [day : Days, tick : 0 .. LastTick]
  <2>1. CASE Tick
    BY <2>1, <1>0 DEF Tick, TypeOK, Days
  <2>2. CASE UNCHANGED vars
    BY <2>2, <1>0 DEF vars, TypeOK
  <2> QED
    BY <2>1, <2>2
<1>3. TypeOK'
  BY <1>0, <1>1, <1>2 DEF TypeOK
<1>4. AnchorInv'
  BY <1>0, <1>1 DEF AnchorInv, Seen, Committed
<1> QED
  BY <1>1, <1>3, <1>4, SameRows DEF IInv

\* Every step keeps the ledger's invariant.
LEMMA NextIInv == IInv /\ [Next]_vars => IInv'
<1> SUFFICES ASSUME IInv, [Next]_vars PROVE IInv'
  OBVIOUS
<1> USE AuditLedgerAssumption
<1>1. ASSUME NEW w \in Writers, NEW m \in {"request", "sync"}, Begin(w, m) PROVE IInv'
  BY <1>1, BeginStep
<1>2. ASSUME NEW w \in Writers, NEW t \in Traces, NEW c \in Classes,
             Emit(w, t, c) \/ Export(w, t, c)
      PROVE  IInv'
  BY <1>2, EmitStep, ExportStep
<1>3. ASSUME NEW w \in Writers, Commit(w) \/ Abort(w) PROVE IInv'
  BY <1>3, CommitStep, AbortStep
<1>4. ASSUME NEW k \in Checkers, NEW d \in Anchored, NEW c \in Classes, ReadDay(k, d, c)
      PROVE  IInv'
  <2>1. d \in Days
    BY DEF Days
  <2> QED
    BY <1>4, <2>1, ReadDayStep
<1>5. ASSUME NEW k \in Checkers, WriteAnchor(k) PROVE IInv'
  BY <1>5, WriteAnchorStep
<1>6. CASE Tick \/ UNCHANGED vars
  BY <1>6, TickStep
<1> QED
  BY <1>1, <1>2, <1>3, <1>4, <1>5, <1>6 DEF Next

\* The ledger's invariant always holds.
LEMMA Invariance == Spec => []IInv
BY InitIInv, NextIInv, PTL DEF Spec

----------------------------------------------------------------------------
(* The theorems.                                                           *)

\* Rows, transactions, anchors and checkpoints keep their types; no transaction has begun
\* later than the last commit.
THEOREM TypeCorrect == Spec => []TypeOK
<1>1. IInv => TypeOK
  BY DEF IInv
<1> QED
  BY <1>1, Invariance, PTL

\* The chain of every trace can be followed over committed rows, whatever the writers lose
\* and wherever a scope commits (emit_audit_event, bulk_audit_chain).
THEOREM ChainAlwaysUnbroken == Spec => []ChainUnbroken
<1>1. IInv => ChainUnbroken
  BY DEF IInv, LinkInv, ChainUnbroken, Committed
<1> QED
  BY <1>1, Invariance, PTL

\* Two events with one predecessor were written by transactions, or scopes, that overlapped
\* (emit_audit_event reads the predecessor without a lock).
THEOREM ForksOnlyOverlap == Spec => []ForksOverlap
<1>1. IInv => ForksOverlap
  <2> SUFFICES ASSUME IInv, NEW i \in Ids, NEW j \in Ids, Committed(i), Committed(j), i < j,
                      log[i].trace = log[j].trace, log[i].prev = log[j].prev
               PROVE  log[j].since < log[i].seq
    BY DEF ForksOverlap
  <2>t. /\ i \in Nat \ {0} /\ log[i].prev \in Nat
        /\ log[j].since \in Nat /\ log[i].seq \in Nat
    BY Types, AuditLedgerAssumption DEF IInv, Ids
  <2>1. ~(log[i].seq <= log[j].since)
    <3> SUFFICES ASSUME log[i].seq <= log[j].since PROVE FALSE
      OBVIOUS
    <3>1. i <= log[i].prev
      BY DEF IInv, CoverInv, Committed
    <3>2. log[i].prev < i
      BY <3>1, <2>t DEF IInv, LinkInv, Committed
    <3> QED
      BY <3>1, <3>2, <2>t
  <2> QED
    BY <2>1, <2>t
<1> QED
  BY <1>1, Invariance, PTL

\* An anchor is exactly the rows of its day its reading could see, whatever checkpoints ran
\* at the same time and however late rows were committed (create_daily_checkpoint).
THEOREM AnchorsAlwaysExact == Spec => []AnchorsExact
<1>1. IInv => AnchorsExact
  BY DEF IInv, AnchorInv, AnchorsExact, Seen
<1> QED
  BY <1>1, Invariance, PTL

(***************************************************************************)
(* Webhooks and the poll.  The inductive invariant: ClaimsSound, with what *)
(* deliveries, keys, polls and the outbound queue refer to.                *)
(***************************************************************************)

\* A delivery is about one comment, which there is, or about parts of an issue; last
\* is the number of comments.
Deliverable(m, last) ==
  /\ m \in Delivery /\ m.todo # <<>> /\ m.all # <<>>
  /\ \/ m.all = <<"comment">> /\ m.todo = <<"comment">> /\ m.n \in 1..last
     \/ /\ m.n = 0
        /\ \A k \in DOMAIN m.all : m.all[k] # "comment"
        /\ \A k \in DOMAIN m.todo : m.todo[k] # "comment"

DeliveriesSound == \A m \in net : Deliverable(m, Len(comments))

\* A claim of a comment names a comment, and one of the two events.
KeyOf(n, event) == <<"comment", n, event>>
OtherKey(k)     == k[1] \in {"labels", "description", "state", "reinject"}
KeysSound ==
  /\ IsFiniteSet(claimed)
  /\ \A k \in claimed : OtherKey(k) \/ \E n \in DOMAIN comments, e \in {"create", "Comment.create"} :
                                         k = KeyOf(n, e)

\* An echo and what a poll has read refer to comments there are; a poll keeps what parses.
ReadsSound ==
  /\ \A n \in DOMAIN comments : comments[n].of <= Len(comments)
  /\ \A k \in DOMAIN poll : \A x \in poll[k] : x.n <= Len(comments) /\ ItemBlock(x) # NoBlock

\* An event of the queue belongs to a finding with a link: there is an issue to update.
Pending == [finding : {f \in Findings : link[f] # NoIssue}, closed : BOOLEAN]

\* What changes beside comments, deliveries, claims and polls.
PlainTypes ==
  /\ status \in [Findings -> Statuses] /\ link \in [Findings -> Issues \cup {NoIssue}]
  /\ outbox \subseteq Pending
  /\ state \in [Issues -> {"open", "closed"}] /\ desc \in [Issues -> Text]
  /\ clock \in Nat /\ edits \in 0..MaxEdits /\ faults \in 0..MaxFaults
DataTypes ==
  /\ comments \in Seq(Comment) /\ Len(comments) <= MaxComments
  /\ poll \in Seq(SUBSET Item)

InboundInv == /\ PlainTypes /\ DataTypes
              /\ DeliveriesSound /\ KeysSound /\ ReadsSound /\ AppliedPerClaim

(***************************************************************************)
(* Blocks and findings.                                                    *)
(***************************************************************************)

Parsed == [id : Names, status : Verdicts]

\* The statuses a block can carry, apart from those VAT gives itself.
LEMMA VerdictFacts ==
  /\ "Open" \in Statuses /\ "Rejected" \in Statuses /\ Verdicts \subseteq Statuses /\ Verdicts \subseteq Raw
  /\ "FalsePositive" \in Verdicts /\ "Open" \notin Verdicts /\ MaxComments \in Nat
BY InboundAssumption DEF Statuses, Raw

\* What is understood of a text names something, and a status to set.
LEMMA ParsedType ==
  ASSUME NEW t \in Text, NEW hint \in Names \cup {NoId}, ParseVatBlock(t, hint) # NoBlock
  PROVE  ParseVatBlock(t, hint) \in Parsed
<1> DEFINE id == CASE t.form \in {"block", "compact"} -> t.id
                   [] t.form = "flexible"             -> hint
                   [] t.form = "keyvalue"             -> IF hint # NoId THEN hint ELSE t.id
                   [] OTHER                           -> NoId
           st == IF t.form = "keyvalue" THEN Normalized(t.raw) ELSE Extracted(t.raw)
<1>1. t.id \in Names \cup {NoId} /\ t.form \in Forms
  BY DEF Text
<1>2. id \in Names \cup {NoId}
  BY <1>1 DEF Forms
<1>3. st \in Verdicts \cup {"Open"}
  BY VerdictFacts DEF Normalized, Extracted
<1>4. ParseVatBlock(t, hint) = IF id # NoId /\ st # "Open" THEN [id |-> id, status |-> st] ELSE NoBlock
  BY DEF ParseVatBlock
<1> HIDE DEF id, st
<1>5. QED
  BY <1>2, <1>3, <1>4 DEF Parsed

\* A block that is found in a comment or a description is of a parsed type.
LEMMA BlocksParsed ==
  ASSUME NEW i \in Issues, NEW t \in Text
  PROVE  /\ ParseComment(i, t) # NoBlock => ParseComment(i, t) \in Parsed
         /\ ParseDescription(t) # NoBlock => ParseDescription(t) \in Parsed
<1>1. IssueCve[i] \in Names \cup {NoId} /\ t.id \in Names \cup {NoId}
  BY InboundAssumption DEF Text
<1>2. QED
  BY <1>1, ParsedType DEF ParseComment, ParseDescription

\* The newest of some findings is one of them.
LEMMA NewestIn ==
  ASSUME NEW S \in SUBSET Findings, S # {}
  PROVE  Newest(S) \in S
<1> DEFINE N == Len(CreatedOrder)
           T == {n \in 1..N : CreatedOrder[n] \in S}
           U == {u \in Nat : N - u \in T}
<1>1. N \in Nat /\ DOMAIN CreatedOrder = 1..N
      /\ \A f \in Findings : \E n \in 1..N : CreatedOrder[n] = f
  BY InboundAssumption
<1>2. PICK k \in T : TRUE
  BY <1>1
<1>3. U \in SUBSET Nat /\ U # {}
  <2>1. N - k \in Nat /\ N - (N - k) = k
    BY <1>1, <1>2
  <2>2. QED
    BY <1>2, <2>1
<1>4. PICK u \in U : \A v \in U : ~ (<<v, u>> \in OpToRel(<, Nat))
  BY <1>3, NatLessThanWellFounded, WFMin, Zenon
<1>5. ASSUME NEW m \in T PROVE m <= N - u
  <2>1. N - m \in Nat /\ N - (N - m) = m /\ u \in Nat
    BY <1>1
  <2>2. N - m \in U
    BY <2>1
  <2>3. ASSUME N - m < u PROVE <<N - m, u>> \in OpToRel(<, Nat)
    BY <2>1, <2>3 DEF OpToRel
  <2>4. ~ (N - m < u)
    BY <1>4, <2>2, <2>3, Zenon
  <2>5. QED
    BY <1>1, <2>1, <2>4
<1>6. N - u \in DOMAIN CreatedOrder /\ CreatedOrder[N - u] \in S
  BY <1>1, <1>4
<1>7. \A m \in DOMAIN CreatedOrder : CreatedOrder[m] \in S => m <= N - u
  BY <1>1, <1>5
<1>8. QED
  BY <1>6, <1>7 DEF Newest

\* A block is about findings.
LEMMA TargetsFindings ==
  ASSUME NEW i, NEW id
  PROVE  Targets(i, id) \subseteq Findings
<1>1. LinkedTo(i) # {} => Newest(LinkedTo(i)) \in Findings
  BY NewestIn DEF LinkedTo
<1>2. QED
  BY <1>1 DEF Targets

\* Setting a status types the status and what is owed to the tracker.
LEMMA StatusSet ==
  ASSUME PlainTypes, NEW f \in Findings, NEW st \in Statuses, SetStatus(f, st)
  PROVE  /\ status' \in [Findings -> Statuses]
         /\ outbox' \subseteq Pending
<1>1. link[f] # NoIssue => [finding |-> f, closed |-> Terminal(st)] \in Pending
  BY DEF Terminal, Pending
<1>2. QED
  BY <1>1 DEF SetStatus, PlainTypes

(***************************************************************************)
(* Deliveries.                                                             *)
(***************************************************************************)

\* A webhook of a comment that exists is a message the network may carry.
LEMMA MessageDeliverable ==
  ASSUME NEW last \in 0..MaxComments, clock \in Nat, NEW i \in Issues, NEW t \in Text, NEW closed \in BOOLEAN
  PROVE  /\ \A n \in 1..last : Deliverable(Message(i, <<"comment">>, n, t, closed), last)
         /\ \A parts \in PartSets : Deliverable(Message(i, parts, 0, t, closed), last)
<1>0. MaxComments \in Nat
  BY InboundAssumption
<1>1. ASSUME NEW n \in 1..last
      PROVE  Deliverable(Message(i, <<"comment">>, n, t, closed), last)
  <2>1. <<"comment">> \in Seq(Parts) /\ <<"comment">> # <<>>
    BY DEF Parts
  <2>2. QED
    BY <1>0, <1>1, <2>1 DEF Message, Deliverable, Delivery
<1>2. ASSUME NEW parts \in PartSets
      PROVE  Deliverable(Message(i, parts, 0, t, closed), last)
  <2>1. /\ parts \in Seq(Parts) /\ parts # <<>>
        /\ \A k \in DOMAIN parts : parts[k] # "comment"
    <3>1. CASE parts = <<"labels">>
      BY <3>1 DEF Parts
    <3>2. CASE parts = <<"state">>
      BY <3>2 DEF Parts
    <3>3. CASE parts = <<"description", "state">>
      BY <3>3 DEF Parts
    <3>4. QED
      BY <3>1, <3>2, <3>3 DEF PartSets
  <2>2. QED
    BY <1>0, <2>1 DEF Message, Deliverable, Delivery
<1>3. QED
  BY <1>1, <1>2

\* The length of a sequence.
LEMMA ShortSeqs ==
  ASSUME NEW S, NEW s \in Seq(S)
  PROVE  Len(s) \in Nat /\ (s = <<>> => Len(s) = 0)
OBVIOUS

\* One delivery less than several is at least one.
LEMMA MoreThanOne ==
  ASSUME NEW k \in Nat, k > 1
  PROVE  k - 1 # 0 /\ k - 1 \in Nat
OBVIOUS

\* A message stays deliverable when comments are added, and so do its repetition and its rest.
LEMMA StaysDeliverable ==
  ASSUME NEW last \in Nat, NEW more \in Nat, last <= more, NEW m, Deliverable(m, last)
  PROVE  /\ Deliverable(m, more) /\ Deliverable(Repeated(m), more)
         /\ Len(m.todo) > 1 => Deliverable([m EXCEPT !.todo = Tail(@)], more)
<1>0. /\ m \in Delivery /\ m.all \in Seq(Parts) /\ m.todo \in Seq(Parts) /\ m.all # <<>> /\ m.todo # <<>>
      /\ \/ m.all = <<"comment">> /\ m.todo = <<"comment">> /\ m.n \in 1..last
         \/ /\ m.n = 0
            /\ \A k \in DOMAIN m.all : m.all[k] # "comment"
            /\ \A k \in DOMAIN m.todo : m.todo[k] # "comment"
  BY DEF Deliverable, Delivery
<1>1. Deliverable(m, more)
  BY <1>0 DEF Deliverable
<1>2. Deliverable(Repeated(m), more)
  <2> DEFINE x == [m EXCEPT !.todo = m.all, !.copy = 2]
  <2>1. x \in Delivery /\ x.todo = m.all /\ x.all = m.all /\ x.n = m.n
    BY <1>0 DEF Delivery
  <2> HIDE DEF x
  <2>2. Deliverable(x, more)
    BY <1>0, <2>1 DEF Deliverable
  <2>3. QED
    BY <2>2 DEF x, Repeated
<1>3. ASSUME Len(m.todo) > 1 PROVE Deliverable([m EXCEPT !.todo = Tail(@)], more)
  <2> DEFINE x == [m EXCEPT !.todo = Tail(@)]
  <2> DEFINE s == m.todo
  <2>1. s \in Seq(Parts)
    BY <1>0
  <2>2. Len(s) \in Nat /\ Len(s) > 1
    BY <1>3, <2>1
  <2> HIDE DEF s
  <2>3. /\ Tail(s) \in Seq(Parts) /\ Tail(s) # <<>>
        /\ \A k \in DOMAIN Tail(s) : k + 1 \in DOMAIN s /\ Tail(s)[k] = s[k + 1]
    <3>1. Tail(s) \in Seq(Parts) /\ Len(Tail(s)) = Len(s) - 1
      BY <2>1, <2>2
    <3>2. Len(Tail(s)) # 0
      <4>1. Len(s) - 1 # 0
        BY <2>2, MoreThanOne
      <4>2. QED
        BY <3>1, <4>1
    <3>3. Tail(s) # <<>>
      BY <3>1, <3>2, ShortSeqs
    <3>4. ASSUME NEW k \in DOMAIN Tail(s)
          PROVE  k + 1 \in DOMAIN s /\ Tail(s)[k] = s[k + 1]
      BY <2>1, <2>2, <3>1, <3>4
    <3>5. QED
      BY <3>1, <3>3, <3>4
  <2>4. x \in Delivery /\ x.todo = Tail(s) /\ x.all = m.all /\ x.n = m.n
    BY <1>0, <2>3 DEF Delivery, s
  <2> HIDE DEF x
  <2>5. s # <<"comment">>
    <3>1. ASSUME s = <<"comment">> PROVE FALSE
      <4>1. Len(s) = 1
        BY <3>1
      <4>2. ~ (1 > 1)
        OBVIOUS
      <4>3. QED
        BY <2>2, <4>1, <4>2
    <3>2. QED
      BY <3>1
  <2>6. Deliverable(x, more)
    <3>1. m.n = 0 /\ (\A k \in DOMAIN m.all : m.all[k] # "comment")
          /\ \A k \in DOMAIN s : s[k] # "comment"
      BY <1>0, <2>5 DEF s
    <3>2. QED
      BY <1>0, <2>3, <2>4, <3>1 DEF Deliverable
  <2>7. QED
    BY <2>6 DEF x
<1>4. QED
  BY <1>1, <1>2, <1>3

\* A delivery is handled: it is gone, goes on with its next part, or comes again.
LEMMA DeliveriesKept ==
  ASSUME DeliveriesSound, NEW last \in Nat, Len(comments) \in Nat, Len(comments) <= last,
         NEW sent, \A x \in sent : Deliverable(x, last)
  PROVE  /\ \A x \in net \cup sent : Deliverable(x, last)
         /\ \A m \in net : \A x \in After(m) \cup sent \cup {Repeated(m)} : Deliverable(x, last)
<1>1. ASSUME NEW x \in net PROVE Deliverable(x, last)
  BY StaysDeliverable DEF DeliveriesSound
<1>2. ASSUME NEW m \in net
      PROVE  \A x \in After(m) \cup sent \cup {Repeated(m)} : Deliverable(x, last)
  <2>1. Deliverable(m, Len(comments))
    BY DEF DeliveriesSound
  <2>2. \A x \in After(m) : x \in net \/ (Len(m.todo) > 1 /\ x = [m EXCEPT !.todo = Tail(@)])
    BY DEF After
  <2>3. /\ Deliverable(Repeated(m), last)
        /\ Len(m.todo) > 1 => Deliverable([m EXCEPT !.todo = Tail(@)], last)
    BY <2>1, StaysDeliverable
  <2>4. \A x \in After(m) : Deliverable(x, last)
    BY <1>1, <2>2, <2>3
  <2>5. QED
    BY <2>3, <2>4
<1>3. QED
  BY <1>1, <1>2

\* A handled message leaves deliverable messages behind.
LEMMA HandledKeeps ==
  ASSUME DeliveriesSound, PlainTypes, NEW last \in Nat, Len(comments) \in Nat, Len(comments) <= last,
         NEW sent, \A x \in sent : Deliverable(x, last), NEW m \in net, Handled(m, sent)
  PROVE  /\ \A x \in net' : Deliverable(x, last)
         /\ faults' \in 0..MaxFaults
<1>1. net' \subseteq After(m) \cup sent \cup {Repeated(m)}
  BY DEF Handled
<1>2. faults' \in 0..MaxFaults
  BY InboundAssumption DEF Handled, Fault, PlainTypes, Pending
<1>3. QED
  BY <1>1, <1>2, DeliveriesKept

(***************************************************************************)
(* Claims and applications.                                                *)
(***************************************************************************)

ClaimsOf(n) == {k \in claimed : k[1] = "comment" /\ comments[k[2]].of = n}

\* Comments are only added, and stay what they are an echo of; a new one has not been applied.
Grown ==
  /\ comments' \in Seq(Comment) /\ Len(comments) <= Len(comments')
  /\ \A n \in DOMAIN comments : comments'[n].of = comments[n].of
  /\ \A n \in DOMAIN comments' \ DOMAIN comments : comments'[n].applied = 0

\* The claim of a comment names the comment.
LEMMA KeyFacts ==
  ASSUME NEW n, NEW e, NEW k, k = KeyOf(n, e)
  PROVE  k[1] = "comment" /\ k[2] = n /\ ~OtherKey(k)
BY DEF KeyOf, OtherKey

\* The claims of a comment stay, and stay its own.
LEMMA ClaimsStay ==
  ASSUME KeysSound, Grown, comments \in Seq(Comment), claimed \subseteq claimed', NEW n \in DOMAIN comments'
  PROVE  ClaimsOf(n) \subseteq ClaimsOf(n)'
<1>1. ASSUME NEW k \in ClaimsOf(n) PROVE k \in ClaimsOf(n)'
  <2>1. k \in claimed /\ k[1] = "comment" /\ comments[k[2]].of = n
    BY DEF ClaimsOf
  <2>2. ~OtherKey(k)
    BY <2>1 DEF OtherKey
  <2>3. PICK j \in DOMAIN comments, e \in {"create", "Comment.create"} : k = KeyOf(j, e)
    BY <2>1, <2>2 DEF KeysSound
  <2>4. k[2] \in DOMAIN comments
    BY <2>3, KeyFacts
  <2>5. comments'[k[2]].of = n
    BY <2>1, <2>4 DEF Grown
  <2>6. QED
    BY <2>1, <2>5 DEF ClaimsOf
<1>2. QED
  BY <1>1

\* Comments are added, never removed.
LEMMA GrownDomain ==
  ASSUME Grown, comments \in Seq(Comment)
  PROVE  /\ DOMAIN comments = 1..Len(comments) /\ DOMAIN comments' = 1..Len(comments')
         /\ Len(comments) \in Nat /\ Len(comments') \in Nat
         /\ DOMAIN comments \subseteq DOMAIN comments'
BY DEF Grown

\* What is claimed stays sound when a key of the one or the other kind is added.
LEMMA KeysKept ==
  ASSUME KeysSound, Grown, comments \in Seq(Comment), NEW k, claimed' = claimed \cup {k},
         OtherKey(k) \/ \E n \in DOMAIN comments, e \in {"create", "Comment.create"} : k = KeyOf(n, e)
  PROVE  KeysSound'
<1>1. IsFiniteSet(claimed')
  BY FS_AddElement DEF KeysSound
<1>2. ASSUME NEW q \in claimed'
      PROVE  OtherKey(q) \/ \E n \in DOMAIN comments', e \in {"create", "Comment.create"} : q = KeyOf(n, e)
  BY GrownDomain DEF KeysSound
<1>3. QED
  BY <1>1, <1>2 DEF KeysSound

\* Nothing is applied: the counts stay.
LEMMA CountsKept ==
  ASSUME KeysSound, AppliedPerClaim, Grown, comments \in Seq(Comment),
         claimed \subseteq claimed', IsFiniteSet(claimed'),
         \A n \in DOMAIN comments : comments'[n].applied = comments[n].applied
  PROVE  AppliedPerClaim'
<1>1. ASSUME NEW n \in DOMAIN comments'
      PROVE  comments'[n].applied <= Cardinality(ClaimsOf(n)')
  <2>1. IsFiniteSet(ClaimsOf(n)') /\ Cardinality(ClaimsOf(n)') \in Nat
    <3>1. ClaimsOf(n)' \in SUBSET claimed'
      BY DEF ClaimsOf
    <3>2. QED
      BY <3>1, FS_Subset, FS_CardinalityType
  <2>2. CASE n \in DOMAIN comments
    <3>1. ClaimsOf(n) \in SUBSET (ClaimsOf(n)')
      BY ClaimsStay
    <3>2. Cardinality(ClaimsOf(n)) <= Cardinality(ClaimsOf(n)') /\ IsFiniteSet(ClaimsOf(n))
      BY <2>1, <3>1, FS_Subset
    <3>3. comments[n].applied <= Cardinality(ClaimsOf(n))
      BY <2>2 DEF AppliedPerClaim, ClaimsOf
    <3>4. comments[n].applied \in Nat /\ Cardinality(ClaimsOf(n)) \in Nat
      <4>1. comments[n] \in Comment
        BY <2>2
      <4>2. QED
        BY <3>2, <4>1, FS_CardinalityType DEF Comment
    <3>5. QED
      BY <2>1, <2>2, <3>2, <3>3, <3>4
  <2>3. CASE n \notin DOMAIN comments
    BY <2>1, <2>3 DEF Grown
  <2>4. QED
    BY <2>2, <2>3
<1>2. QED
  BY <1>1 DEF AppliedPerClaim, ClaimsOf

\* A comment, or an echo of it, is applied with a new claim of its own.
LEMMA CountsAdd ==
  ASSUME KeysSound, AppliedPerClaim, Grown, comments \in Seq(Comment),
         NEW j \in DOMAIN comments, NEW e \in {"create", "Comment.create"},
         KeyOf(j, e) \notin claimed, claimed' = claimed \cup {KeyOf(j, e)},
         \A n \in DOMAIN comments : comments'[n].applied = comments[n].applied \/
           (n = comments[j].of /\ comments'[n].applied = comments[n].applied + 1)
  PROVE  AppliedPerClaim'
<1> DEFINE key == KeyOf(j, e)
<1>0. IsFiniteSet(claimed') /\ IsFiniteSet(claimed) /\ key \notin claimed /\ claimed' = claimed \cup {key}
  BY FS_AddElement DEF KeysSound
<1>1. key[1] = "comment" /\ key[2] = j
  BY KeyFacts
<1> HIDE DEF key
<1>2. ASSUME NEW n \in DOMAIN comments'
      PROVE  comments'[n].applied <= Cardinality(ClaimsOf(n)')
  <2>1. IsFiniteSet(ClaimsOf(n)') /\ Cardinality(ClaimsOf(n)') \in Nat
    <3>1. ClaimsOf(n)' \in SUBSET claimed'
      BY DEF ClaimsOf
    <3>2. QED
      BY <1>0, <3>1, FS_Subset, FS_CardinalityType
  <2>2. IsFiniteSet(ClaimsOf(n)) /\ Cardinality(ClaimsOf(n)) \in Nat
    <3>1. ClaimsOf(n) \in SUBSET claimed
      BY DEF ClaimsOf
    <3>2. QED
      BY <1>0, <3>1, FS_Subset, FS_CardinalityType
  <2>3. ClaimsOf(n) \in SUBSET (ClaimsOf(n)')
    BY <1>0, ClaimsStay
  <2>4. CASE n \in DOMAIN comments
    <3>1. comments[n].applied <= Cardinality(ClaimsOf(n)) /\ comments[n].applied \in Nat
      <4>1. comments[n] \in Comment
        BY <2>4
      <4>2. QED
        BY <2>4, <4>1 DEF AppliedPerClaim, ClaimsOf, Comment
    <3>2. Cardinality(ClaimsOf(n)) <= Cardinality(ClaimsOf(n)')
      BY <2>1, <2>3, FS_Subset
    <3>3. CASE n = comments[j].of
      <4>1. comments'[key[2]].of = n
        BY <1>1, <3>3 DEF Grown
      <4>2. ClaimsOf(n) \cup {key} \in SUBSET (ClaimsOf(n)')
        BY <1>0, <1>1, <2>3, <4>1 DEF ClaimsOf
      <4>3. key \notin ClaimsOf(n)
        BY <1>0 DEF ClaimsOf
      <4>4. Cardinality(ClaimsOf(n) \cup {key}) = Cardinality(ClaimsOf(n)) + 1
        BY <2>2, <4>3, FS_AddElement
      <4>5. Cardinality(ClaimsOf(n)) + 1 <= Cardinality(ClaimsOf(n)')
        BY <2>1, <4>2, <4>4, FS_Subset
      <4>6. comments'[n].applied <= comments[n].applied + 1
        BY <2>4, <3>1
      <4>7. QED
        BY <2>1, <2>2, <3>1, <3>2, <4>5, <2>4
    <3>4. CASE n # comments[j].of
      BY <2>1, <2>2, <2>4, <3>1, <3>2, <3>4
    <3>5. QED
      BY <3>3, <3>4
  <2>5. CASE n \notin DOMAIN comments
    BY <2>1, <2>5 DEF Grown
  <2>6. QED
    BY <2>4, <2>5
<1>3. QED
  BY <1>2 DEF AppliedPerClaim, ClaimsOf

(***************************************************************************)
(* Applying a block.                                                       *)
(***************************************************************************)

\* What the types say of a comment.
LEMMA CommentFields ==
  ASSUME DataTypes, NEW n \in DOMAIN comments
  PROVE  /\ comments[n] \in Comment /\ comments[n].of \in 1..MaxComments
         /\ comments[n].applied \in Nat /\ comments[n].to \subseteq Findings
         /\ n \in 1..Len(comments) /\ Len(comments) \in 0..MaxComments
<1>1. comments \in Seq(Comment) /\ Len(comments) <= MaxComments /\ MaxComments \in Nat
  BY VerdictFacts DEF DataTypes
<1>2. comments[n] \in Comment
  BY <1>1
<1>3. QED
  BY <1>1, <1>2 DEF Comment

\* Marking a comment changes what was applied, of its root, by one at most.
LEMMA MarkedFacts ==
  ASSUME DataTypes, ReadsSound, NEW n \in 0..Len(comments), NEW f \in Findings
  PROVE  /\ Marked(n, f) \in Seq(Comment) /\ Len(Marked(n, f)) = Len(comments)
         /\ \A k \in DOMAIN comments : Marked(n, f)[k].of = comments[k].of
         /\ \A k \in DOMAIN comments :
              \/ Marked(n, f)[k].applied = comments[k].applied
              \/ n # 0 /\ k = comments[n].of /\ Marked(n, f)[k].applied = comments[k].applied + 1
<1>1. CASE n = 0
  BY <1>1 DEF Marked, DataTypes
<1>2. CASE n # 0
  <2> DEFINE o == comments[n].of
             L == Len(comments)
             one == [comments EXCEPT ![o].applied = @ + 1]
             two == [one EXCEPT ![n].to = @ \cup {f}]
  <2>1. comments \in Seq(Comment) /\ L \in Nat /\ DOMAIN comments = 1..L /\ n \in 1..L
    BY <1>2 DEF DataTypes
  <2>2. o \in 1..L
    BY <2>1, CommentFields DEF ReadsSound
  <2> HIDE DEF o, L
  <2>3. \A k \in 1..L : comments[k] \in Comment /\ comments[k].applied \in Nat /\ comments[k].to \subseteq Findings
    BY <2>1, CommentFields
  <2>4. [comments[o] EXCEPT !.applied = @ + 1] \in Comment
    BY <2>2, <2>3 DEF Comment
  <2>5. /\ one \in [1..L -> Comment]
        /\ \A k \in 1..L : one[k] = IF k = o THEN [comments[k] EXCEPT !.applied = @ + 1] ELSE comments[k]
    BY <2>1, <2>2, <2>3, <2>4
  <2> HIDE DEF one
  <2>6. \A k \in 1..L : /\ one[k] \in Comment /\ one[k].of = comments[k].of
                        /\ one[k].applied = IF k = o THEN comments[k].applied + 1 ELSE comments[k].applied
    BY <2>3, <2>5 DEF Comment
  <2>7. [one[n] EXCEPT !.to = @ \cup {f}] \in Comment
    BY <2>1, <2>6 DEF Comment
  <2>8. /\ two \in [1..L -> Comment]
        /\ \A k \in 1..L : two[k] = IF k = n THEN [one[k] EXCEPT !.to = @ \cup {f}] ELSE one[k]
    BY <2>1, <2>5, <2>7
  <2> HIDE DEF two
  <2>9. \A k \in 1..L : two[k].of = one[k].of /\ two[k].applied = one[k].applied
    BY <2>6, <2>8 DEF Comment
  <2>10. two \in Seq(Comment) /\ Len(two) = L
    BY <2>1, <2>8
  <2>11. Marked(n, f) = two
    BY <1>2 DEF Marked, one, two, o
  <2>12. QED
    BY <1>2, <2>1, <2>6, <2>9, <2>10, <2>11 DEF o, L
<1>3. QED
  BY <1>1, <1>2

\* A new comment is typed and was not applied.
LEMMA NewCommentType ==
  ASSUME NEW i \in Issues, NEW t \in Text, NEW by \in {"person", "template", "echo"}, NEW of \in 1..MaxComments
  PROVE  /\ NewComment(i, t, by, of) \in Comment
         /\ NewComment(i, t, by, of).of = of /\ NewComment(i, t, by, of).applied = 0
BY DEF NewComment, Comment

\* A comment is added to comments that were marked, or not.
LEMMA AppendFacts ==
  ASSUME DataTypes, Len(comments) < MaxComments, NEW s \in Seq(Comment), Len(s) = Len(comments), NEW c \in Comment
  PROVE  /\ Append(s, c) \in Seq(Comment) /\ Len(Append(s, c)) = Len(comments) + 1
         /\ Append(s, c)[Len(comments) + 1] = c
         /\ \A k \in DOMAIN comments : Append(s, c)[k] = s[k]
<1>1. Len(comments) \in Nat /\ DOMAIN comments = 1..Len(comments)
  BY DEF DataTypes
<1>2. QED
  BY <1>1

\* The canonical form of a block is a text.
LEMMA CanonicalType ==
  ASSUME NEW p \in Parsed
  PROVE  Canonical(p) \in Text
BY VerdictFacts DEF Parsed, Canonical, Text, Forms

\* What an application leaves of comments and deliveries, whatever its key.
LEMMA ApplyFacts ==
  ASSUME InboundInv, NEW i \in Issues, NEW p \in Parsed, NEW n \in 0..Len(comments),
         ApplyVatParsedUpdate(i, p, n)
  PROVE  /\ status' \in [Findings -> Statuses]
         /\ outbox' \subseteq Pending /\ clock' \in Nat
         /\ Grown /\ Len(comments') <= MaxComments
         /\ \A k \in DOMAIN comments' : comments'[k].of <= Len(comments')
         /\ \A k \in DOMAIN comments :
              \/ comments'[k].applied = comments[k].applied
              \/ n # 0 /\ k = comments[n].of /\ comments'[k].applied = comments[k].applied + 1
         /\ \A x \in Echo(i, p) : Deliverable(x, Len(comments'))
<1>1. /\ PlainTypes /\ DataTypes /\ ReadsSound /\ MaxComments \in Nat
      /\ Len(comments) \in 0..MaxComments /\ clock \in Nat /\ Len(comments) \in Nat
      /\ DOMAIN comments = 1..Len(comments) /\ comments \in Seq(Comment)
  BY VerdictFacts DEF InboundInv, DataTypes, PlainTypes, Pending
<1> DEFINE new == Len(comments) + 1
           msg == Message(i, <<"comment">>, new, Canonical(p), FALSE)
           of  == IF n = 0 THEN new ELSE comments[n].of
           c   == NewComment(i, Canonical(p), "echo", of)
<1>2. Echo(i, p) = {} \/ (Echo(i, p) = {msg} /\ Targets(i, p.id) # {} /\ Len(comments) < MaxComments)
  BY DEF Echo
<1> HIDE DEF msg
<1>3. clock' \in Nat
  <2>1. CASE Echo(i, p) = {}
    BY <1>1, <2>1, FS_EmptySet DEF ApplyVatParsedUpdate
  <2>2. CASE Echo(i, p) = {msg}
    <3>1. Cardinality(Echo(i, p)) = 1
      BY <2>2, FS_Singleton
    <3>2. QED
      BY <1>1, <3>1 DEF ApplyVatParsedUpdate
  <2>3. QED
    BY <1>2, <2>1, <2>2
<1>4. CASE Targets(i, p.id) = {}
  <2>1. UNCHANGED <<status, outbox, comments>> /\ Echo(i, p) = {}
    BY <1>2, <1>4 DEF ApplyVatParsedUpdate
  <2>2. Grown
    BY <1>1, <2>1 DEF Grown
  <2>3. \A k \in DOMAIN comments' : comments'[k].of <= Len(comments')
    BY <1>1, <2>1 DEF ReadsSound
  <2>4. QED
    BY <1>1, <1>3, <2>1, <2>2, <2>3 DEF PlainTypes, Pending, DataTypes
<1>5. CASE Targets(i, p.id) # {}
  <2>1. PICK f \in Targets(i, p.id) :
          /\ SetStatus(f, p.status)
          /\ comments' = IF Echo(i, p) = {} THEN Marked(n, f) ELSE Append(Marked(n, f), c)
    BY <1>5 DEF ApplyVatParsedUpdate
  <2>2. f \in Findings /\ p.status \in Statuses
    BY TargetsFindings, VerdictFacts DEF Parsed
  <2>3. status' \in [Findings -> Statuses] /\ outbox' \subseteq Pending
    BY <1>1, <2>1, <2>2, StatusSet
  <2> DEFINE s == Marked(n, f)
  <2>4. /\ s \in Seq(Comment) /\ Len(s) = Len(comments) /\ DOMAIN s = DOMAIN comments
        /\ \A k \in DOMAIN comments : s[k].of = comments[k].of
        /\ \A k \in DOMAIN comments :
             \/ s[k].applied = comments[k].applied
             \/ n # 0 /\ k = comments[n].of /\ s[k].applied = comments[k].applied + 1
    BY <1>1, <2>2, MarkedFacts
  <2> HIDE DEF s
  <2>5. \A k \in DOMAIN comments : comments[k].of <= Len(comments)
    BY <1>1 DEF ReadsSound
  <2>6. CASE Echo(i, p) = {}
    <3>1. comments' = s
      BY <2>1, <2>6 DEF s
    <3>2. Grown
      BY <1>1, <2>4, <3>1 DEF Grown
    <3>3. \A k \in DOMAIN comments' : comments'[k].of <= Len(comments')
      BY <2>4, <2>5, <3>1
    <3>4. QED
      BY <1>1, <1>3, <2>3, <2>4, <2>6, <3>1, <3>2, <3>3
  <2>7. CASE Echo(i, p) = {msg} /\ Len(comments) < MaxComments
    <3>1. of \in 1..new /\ new \in 1..MaxComments /\ of \in 1..MaxComments
      <4>1. n # 0 => comments[n].of \in 1..Len(comments)
        BY <1>1, <2>5, CommentFields
      <4>2. QED
        BY <1>1, <2>7, <4>1
    <3>2. c \in Comment /\ c.of = of /\ c.applied = 0
      BY <3>1, NewCommentType, CanonicalType
    <3>3. comments' = Append(s, c)
      BY <2>1, <2>7 DEF s
    <3> HIDE DEF c, of
    <3>4. /\ comments' \in Seq(Comment) /\ Len(comments') = new /\ comments'[new] = c
          /\ \A k \in DOMAIN comments : comments'[k] = s[k]
      BY <1>1, <2>4, <2>7, <3>2, <3>3, AppendFacts
    <3>5. new \in Nat /\ DOMAIN comments' = 1..new /\ DOMAIN comments = 1..Len(comments)
          /\ Len(comments) <= new /\ \A k \in 1..new : k \in DOMAIN comments \/ k = new
      BY <1>1, <3>4
    <3> HIDE DEF new
    <3>6. Grown
      BY <2>4, <3>2, <3>4, <3>5 DEF Grown
    <3>7. \A k \in DOMAIN comments' : comments'[k].of <= Len(comments')
      <4>1. ASSUME NEW k \in DOMAIN comments PROVE comments'[k].of <= new
        <5>1. comments'[k].of = comments[k].of /\ comments[k].of <= Len(comments) /\ comments[k].of \in Nat
          BY <1>1, <2>4, <2>5, <3>4, CommentFields
        <5>2. QED
          BY <1>1, <3>5, <5>1
      <4>2. comments'[new].of <= new
        BY <3>1, <3>2, <3>4
      <4>3. QED
        BY <3>4, <3>5, <4>1, <4>2
    <3>8. Deliverable(msg, new)
      <4>1. new \in 0..MaxComments /\ new \in 1..new /\ Canonical(p) \in Text
        BY <1>1, <3>1, CanonicalType
      <4>2. \A j \in 1..new : Deliverable(Message(i, <<"comment">>, j, Canonical(p), FALSE), new)
        BY <1>1, <4>1, MessageDeliverable
      <4>3. QED
        BY <4>1, <4>2 DEF msg
    <3>9. Len(comments') <= MaxComments
      BY <1>1, <3>1, <3>4
    <3>10. \A x \in Echo(i, p) : Deliverable(x, Len(comments'))
      BY <2>7, <3>4, <3>8
    <3>11. \A k \in DOMAIN comments :
             \/ comments'[k].applied = comments[k].applied
             \/ n # 0 /\ k = comments[n].of /\ comments'[k].applied = comments[k].applied + 1
      BY <2>4, <3>4
    <3>12. QED
      BY <1>3, <2>3, <3>6, <3>7, <3>9, <3>10, <3>11
  <2>8. QED
    BY <1>2, <2>6, <2>7
<1>6. QED
  BY <1>4, <1>5

(***************************************************************************)
(* Every step keeps the invariant.                                         *)
(***************************************************************************)

\* What the inbound invariant says of lengths and of the clock.
LEMMA InvFacts ==
  ASSUME InboundInv
  PROVE  /\ Len(comments) \in Nat /\ Len(comments) \in 0..MaxComments /\ MaxComments \in Nat
         /\ DOMAIN comments = 1..Len(comments) /\ comments \in Seq(Comment)
         /\ clock \in Nat /\ clock + 1 \in Nat
BY VerdictFacts DEF InboundInv, DataTypes, PlainTypes, Pending

\* A counted fault is within the bound.
LEMMA FaultCounted ==
  ASSUME PlainTypes, Fault
  PROVE  faults' \in 0..MaxFaults
BY InboundAssumption DEF PlainTypes, Pending, Fault

\* A poll under way stays sound while comments are added.
LEMMA PollStays ==
  ASSUME InboundInv, Grown, poll' = poll, \A n \in DOMAIN comments' : comments'[n].of <= Len(comments')
  PROVE  ReadsSound'
<1>1. /\ ReadsSound /\ comments \in Seq(Comment) /\ poll \in Seq(SUBSET Item)
      /\ Len(comments) \in Nat /\ Len(comments') \in Nat /\ Len(comments) <= Len(comments')
  BY InvFacts, GrownDomain DEF InboundInv, DataTypes, Grown
<1>2. ASSUME NEW k \in DOMAIN poll, NEW x \in poll[k]
      PROVE  x.n <= Len(comments') /\ ItemBlock(x) # NoBlock
  <2>1. x \in Item
    BY <1>1
  <2>2. x.n <= Len(comments) /\ x.n \in 0..MaxComments /\ ItemBlock(x) # NoBlock
    BY <1>1, <2>1 DEF ReadsSound, Item
  <2>3. QED
    BY <1>1, <2>2, InvFacts
<1>3. QED
  BY <1>2 DEF ReadsSound

\* Comments and polls after a step that reads nothing and applies nothing.
LEMMA NothingApplied ==
  ASSUME InboundInv, Grown, Len(comments') <= MaxComments,
         \A n \in DOMAIN comments' : comments'[n].of <= Len(comments'),
         \A n \in DOMAIN comments : comments'[n].applied = comments[n].applied,
         claimed' = claimed \/ \E k : OtherKey(k) /\ claimed' = claimed \cup {k},
         poll' = poll
  PROVE  DataTypes' /\ KeysSound' /\ ReadsSound' /\ AppliedPerClaim'
<1>1. DataTypes' /\ KeysSound /\ AppliedPerClaim /\ ReadsSound /\ comments \in Seq(Comment)
  BY DEF InboundInv, DataTypes, Grown
<1>2. KeysSound' /\ claimed \subseteq claimed'
  <2>1. CASE claimed' = claimed
    BY <1>1, <2>1, GrownDomain DEF KeysSound
  <2>2. CASE \E k : OtherKey(k) /\ claimed' = claimed \cup {k}
    BY <1>1, <2>2, KeysKept
  <2>3. QED
    BY <2>1, <2>2
<1>3. AppliedPerClaim'
  <2>1. IsFiniteSet(claimed')
    BY <1>2 DEF KeysSound
  <2>2. QED
    BY <1>1, <1>2, <2>1, CountsKept
<1>4. ReadsSound'
  BY PollStays
<1>5. QED
  BY <1>1, <1>2, <1>3, <1>4

\* A step that leaves the comments alone lets them grow by none.
LEMMA SameComments ==
  ASSUME InboundInv, comments' = comments
  PROVE  /\ Grown /\ Len(comments') <= MaxComments
         /\ \A n \in DOMAIN comments' : comments'[n].of <= Len(comments')
         /\ \A n \in DOMAIN comments : comments'[n].applied = comments[n].applied
<1>1. comments \in Seq(Comment) /\ Len(comments) \in Nat
  BY InvFacts
<1>2. QED
  BY <1>1 DEF InboundInv, DataTypes, ReadsSound, Grown

\* A step that adds one comment, which refers to itself or an earlier one.
LEMMA CommentAdded ==
  ASSUME InboundInv, NEW c \in Comment, c.applied = 0, c.of = Len(comments) + 1,
         Len(comments) + 1 <= MaxComments, comments' = Append(comments, c)
  PROVE  /\ Grown /\ Len(comments') = Len(comments) + 1 /\ Len(comments') <= MaxComments
         /\ \A n \in DOMAIN comments' : comments'[n].of <= Len(comments')
         /\ \A n \in DOMAIN comments : comments'[n].applied = comments[n].applied
<1> DEFINE new == Len(comments) + 1
<1>1. Len(comments) \in Nat /\ new \in Nat /\ DOMAIN comments = 1..Len(comments) /\ comments \in Seq(Comment)
      /\ Len(comments) < MaxComments /\ DataTypes
  BY InvFacts DEF InboundInv
<1>2. /\ comments' \in Seq(Comment) /\ Len(comments') = new /\ comments'[new] = c
      /\ \A k \in DOMAIN comments : comments'[k] = comments[k]
  BY <1>1, AppendFacts
<1>3. DOMAIN comments' = 1..new /\ Len(comments) <= new /\ \A k \in 1..new : k \in DOMAIN comments \/ k = new
  BY <1>1, <1>2
<1>4. Grown
  BY <1>2, <1>3 DEF Grown
<1>5. \A n \in DOMAIN comments' : comments'[n].of <= Len(comments')
  <2>1. ASSUME NEW k \in DOMAIN comments PROVE comments'[k].of <= new
    <3>1. comments[k].of <= Len(comments) /\ comments[k].of \in 1..MaxComments /\ MaxComments \in Nat
      BY <1>1, CommentFields, InvFacts DEF InboundInv, ReadsSound
    <3>2. QED
      BY <1>1, <1>2, <3>1
  <2>2. QED
    BY <1>1, <1>2, <1>3, <2>1
<1>6. QED
  BY <1>1, <1>2, <1>4, <1>5

\* The key of what comes first in a delivery.
LEMMA PartKeyFacts ==
  ASSUME InboundInv, NEW m \in net
  PROVE  /\ m.issue \in Issues /\ m.text \in Text /\ m.closed \in BOOLEAN /\ m.n \in 0..Len(comments)
         /\ Head(m.todo) = "comment" => m.n \in DOMAIN comments /\ PartKey(m) = KeyOf(m.n, "create")
         /\ Head(m.todo) # "comment" => m.n = 0 /\ OtherKey(PartKey(m))
<1>1. Deliverable(m, Len(comments)) /\ Len(comments) \in Nat /\ DOMAIN comments = 1..Len(comments)
  BY InvFacts DEF InboundInv, DeliveriesSound
<1>2. m.issue \in Issues /\ m.text \in Text /\ m.closed \in BOOLEAN /\ m.todo \in Seq(Parts) /\ m.todo # <<>>
  BY <1>1 DEF Deliverable, Delivery
<1>3. Head(m.todo) \in Parts /\ 1 \in DOMAIN m.todo /\ Head(m.todo) = m.todo[1]
  BY <1>2
<1>4. m.n \in 0..Len(comments)
  BY <1>1 DEF Deliverable
<1>5. ASSUME Head(m.todo) = "comment"
      PROVE  m.n \in DOMAIN comments /\ PartKey(m) = KeyOf(m.n, "create")
  <2>1. m.n \in DOMAIN comments
    BY <1>1, <1>3, <1>5 DEF Deliverable
  <2>2. PartKey(m) = KeyOf(m.n, "create")
    BY <1>5 DEF PartKey, CommentKey, KeyOf
  <2>3. QED
    BY <2>1, <2>2
<1>6. ASSUME Head(m.todo) # "comment" PROVE m.n = 0 /\ OtherKey(PartKey(m))
  <2>1. m.n = 0
    <3>1. m.todo # <<"comment">>
      BY <1>3, <1>6
    <3>2. QED
      BY <1>1, <3>1 DEF Deliverable
  <2>2. CASE Head(m.todo) = "description"
    <3>1. \/ PartKey(m) = <<"reinject", m.issue, HeadOf(m.text), m.ts>>
          \/ PartKey(m) = <<"description", m.issue, HeadOf(m.text), m.ts>>
      BY <2>2 DEF PartKey
    <3>2. QED
      BY <2>1, <3>1 DEF OtherKey
  <2>3. CASE Head(m.todo) = "state"
    <3>1. PartKey(m) = <<"state", m.issue, m.closed, m.ts>>
      BY <2>3 DEF PartKey
    <3>2. QED
      BY <2>1, <3>1 DEF OtherKey
  <2>4. CASE Head(m.todo) = "labels"
    <3>1. PartKey(m) = <<"labels", m.issue, m.ts>>
      BY <2>4 DEF PartKey
    <3>2. QED
      BY <2>1, <3>1 DEF OtherKey
  <2>5. QED
    BY <1>3, <1>6, <2>1, <2>2, <2>3, <2>4 DEF Parts
<1>7. QED
  BY <1>2, <1>4, <1>5, <1>6

\* A block is applied with a claim that was free.
LEMMA ApplyKeeps ==
  ASSUME InboundInv, NEW i \in Issues, NEW p \in Parsed, NEW n \in 0..Len(comments),
         ApplyVatParsedUpdate(i, p, n), NEW key, key \notin claimed, claimed' = claimed \cup {key},
         \/ n = 0 /\ OtherKey(key)
         \/ n # 0 /\ \E e \in {"create", "Comment.create"} : key = KeyOf(n, e)
  PROVE  KeysSound' /\ AppliedPerClaim'
<1>1. /\ Grown /\ KeysSound /\ AppliedPerClaim /\ comments \in Seq(Comment)
      /\ \A k \in DOMAIN comments :
           \/ comments'[k].applied = comments[k].applied
           \/ n # 0 /\ k = comments[n].of /\ comments'[k].applied = comments[k].applied + 1
  BY ApplyFacts, InvFacts DEF InboundInv
<1>2. n # 0 => n \in DOMAIN comments
  BY InvFacts
<1>3. KeysSound'
  BY <1>1, <1>2, KeysKept
<1>4. AppliedPerClaim'
  <2>1. CASE n = 0
    <3>1. IsFiniteSet(claimed') /\ claimed \subseteq claimed'
      BY <1>3 DEF KeysSound
    <3>2. QED
      BY <1>1, <2>1, <3>1, CountsKept
  <2>2. CASE n # 0
    <3>1. PICK e \in {"create", "Comment.create"} : key = KeyOf(n, e)
      BY <2>2
    <3>2. KeyOf(n, e) \notin claimed /\ claimed' = claimed \cup {KeyOf(n, e)} /\ n \in DOMAIN comments
      BY <1>2, <2>2, <3>1
    <3>3. \A k \in DOMAIN comments :
            comments'[k].applied = comments[k].applied \/
              (k = comments[n].of /\ comments'[k].applied = comments[k].applied + 1)
      BY <1>1
    <3>4. QED
      BY <1>1, <3>2, <3>3, CountsAdd
  <2>3. QED
    BY <2>1, <2>2
<1>5. QED
  BY <1>3, <1>4

\* A duplicate, or a part without a block, is passed over.
LEMMA PassedKeeps ==
  ASSUME InboundInv, NEW m \in net, ReceivePassed(m)
  PROVE  InboundInv'
<1>1. /\ UNCHANGED <<status, link, outbox, state, desc, comments, poll, clock, edits>>
      /\ Handled(m, {})
      /\ claimed' = IF Head(m.todo) = "comment" THEN claimed ELSE claimed \cup {PartKey(m)}
  BY DEF ReceivePassed, findingVars, issueVars
<1>2. claimed' = claimed \/ \E k : OtherKey(k) /\ claimed' = claimed \cup {k}
  BY <1>1, PartKeyFacts
<1>3. DataTypes' /\ KeysSound' /\ ReadsSound' /\ AppliedPerClaim'
  BY <1>1, <1>2, SameComments, NothingApplied
<1>4. (\A x \in net' : Deliverable(x, Len(comments'))) /\ faults' \in 0..MaxFaults
  BY <1>1, InvFacts, HandledKeeps DEF InboundInv
<1>5. PlainTypes'
  BY <1>1, <1>4 DEF InboundInv, PlainTypes, Pending
<1>6. QED
  BY <1>3, <1>4, <1>5 DEF InboundInv, DeliveriesSound

\* A webhook's block is applied under its claim.
LEMMA BlockKeeps ==
  ASSUME InboundInv, NEW m \in net, ReceiveBlock(m)
  PROVE  InboundInv'
<1> DEFINE p == IF Head(m.todo) = "comment" THEN ParseComment(m.issue, m.text) ELSE ParseDescription(m.text)
<1>1. /\ Head(m.todo) \in {"comment", "description"} /\ PartKey(m) \notin claimed /\ p # NoBlock
      /\ claimed' = claimed \cup {PartKey(m)} /\ ApplyVatParsedUpdate(m.issue, p, m.n)
      /\ Handled(m, Echo(m.issue, p)) /\ UNCHANGED <<link, state, desc, poll, edits>>
  BY DEF ReceiveBlock, issueVars, Fresh
<1>2. p \in Parsed /\ m.issue \in Issues /\ m.n \in 0..Len(comments)
  BY <1>1, PartKeyFacts, BlocksParsed
<1> HIDE DEF p
<1>3. \/ m.n = 0 /\ OtherKey(PartKey(m))
      \/ m.n # 0 /\ \E e \in {"create", "Comment.create"} : PartKey(m) = KeyOf(m.n, e)
  BY PartKeyFacts, InvFacts
<1>4. KeysSound' /\ AppliedPerClaim'
  BY <1>1, <1>2, <1>3, ApplyKeeps
<1>5. /\ status' \in [Findings -> Statuses]
      /\ outbox' \subseteq Pending /\ clock' \in Nat
      /\ Grown /\ Len(comments') <= MaxComments
      /\ \A k \in DOMAIN comments' : comments'[k].of <= Len(comments')
      /\ \A x \in Echo(m.issue, p) : Deliverable(x, Len(comments'))
  BY <1>1, <1>2, ApplyFacts
<1>6. Len(comments) <= Len(comments') /\ Len(comments') \in Nat /\ Len(comments) \in Nat
      /\ DeliveriesSound /\ PlainTypes
  BY <1>5, InvFacts, GrownDomain DEF Grown, InboundInv
<1>7. (\A x \in net' : Deliverable(x, Len(comments'))) /\ faults' \in 0..MaxFaults
  BY <1>1, <1>5, <1>6, HandledKeeps
<1>8. PlainTypes'
  BY <1>1, <1>5, <1>7 DEF InboundInv, PlainTypes, Pending
<1>9. DataTypes'
  BY <1>1, <1>5 DEF InboundInv, DataTypes, Grown
<1>10. ReadsSound'
  BY <1>1, <1>5, <1>6, PollStays
<1>11. QED
  BY <1>4, <1>7, <1>8, <1>9, <1>10 DEF InboundInv, DeliveriesSound

\* A template injected into an issue is a comment that was not applied.
LEMMA InjectKeeps ==
  ASSUME InboundInv, NEW m \in net, ReceiveInject(m)
  PROVE  InboundInv'
<1>1. /\ Head(m.todo) \in {"labels", "description"} /\ claimed' = claimed \cup {PartKey(m)}
      /\ Inject(m) /\ UNCHANGED <<status, link, outbox, state, desc, poll, edits>>
  BY DEF ReceiveInject, findingVars, issueVars
<1>2. m.issue \in Issues /\ OtherKey(PartKey(m))
  BY <1>1, PartKeyFacts
<1> DEFINE n   == Len(comments) + 1
           t   == InjectedText(m.issue)
           msg == Message(m.issue, <<"comment">>, n, t, FALSE)
<1>3. /\ Len(comments) \in Nat /\ Len(comments) \in 0..MaxComments /\ MaxComments \in Nat /\ clock \in Nat
      /\ clock + 1 \in Nat /\ n \in Nat /\ Len(comments) <= n /\ DeliveriesSound /\ PlainTypes
  BY InvFacts DEF InboundInv
<1>4. CASE /\ n <= MaxComments /\ clock' = clock + 1
           /\ comments' = Append(comments, NewComment(m.issue, t, "template", n))
           /\ Handled(m, {msg})
  <2> DEFINE c == NewComment(m.issue, t, "template", n)
  <2>1. t \in Text /\ n \in 1..MaxComments
    <3>1. IssueCve[m.issue] \in Names \cup {NoId}
      BY <1>2, InboundAssumption
    <3>2. QED
      BY <1>3, <1>4, <3>1 DEF InjectedText, Text, Forms, Raw
  <2>2. c \in Comment /\ c.of = n /\ c.applied = 0
    BY <1>2, <2>1, NewCommentType
  <2>3. Deliverable(msg, n)
    <3>1. n \in 0..MaxComments /\ n \in 1..n
      BY <1>3, <2>1
    <3>2. \A j \in 1..n : Deliverable(Message(m.issue, <<"comment">>, j, t, FALSE), n)
      BY <1>2, <1>3, <2>1, <3>1, MessageDeliverable
    <3>3. QED
      BY <3>1, <3>2
  <2> HIDE DEF c, msg
  <2>4. /\ Grown /\ Len(comments') = n /\ Len(comments') <= MaxComments
        /\ \A k \in DOMAIN comments' : comments'[k].of <= Len(comments')
        /\ \A k \in DOMAIN comments : comments'[k].applied = comments[k].applied
    BY <1>4, <2>2, CommentAdded DEF c
  <2>5. DataTypes' /\ KeysSound' /\ ReadsSound' /\ AppliedPerClaim'
    BY <1>1, <1>2, <2>4, NothingApplied
  <2>6. (\A x \in net' : Deliverable(x, n)) /\ faults' \in 0..MaxFaults
    BY <1>3, <1>4, <2>3, HandledKeeps
  <2>7. PlainTypes'
    BY <1>1, <1>3, <1>4, <2>6 DEF PlainTypes, Pending
  <2>8. QED
    BY <2>4, <2>5, <2>6, <2>7 DEF InboundInv, DeliveriesSound
<1>5. CASE Fault /\ net' = After(m) /\ UNCHANGED <<comments, clock>>
  <2>1. DataTypes' /\ KeysSound' /\ ReadsSound' /\ AppliedPerClaim'
    BY <1>1, <1>2, <1>5, SameComments, NothingApplied
  <2>2. \A x \in net' : Deliverable(x, Len(comments'))
    BY <1>3, <1>5, DeliveriesKept
  <2>3. PlainTypes'
    BY <1>1, <1>3, <1>5, FaultCounted DEF PlainTypes, Pending
  <2>4. QED
    BY <2>1, <2>2, <2>3 DEF InboundInv, DeliveriesSound
<1>6. QED
  BY <1>1, <1>4, <1>5 DEF Inject

\* A closed issue is claimed and reopened, unless the call fails.
LEMMA ClosedKeeps ==
  ASSUME InboundInv, NEW m \in net, ReceiveClosed(m)
  PROVE  InboundInv'
<1>1. /\ Head(m.todo) = "state" /\ claimed' = claimed \cup {PartKey(m)}
      /\ \/ /\ state' = [state EXCEPT ![m.issue] = "open"] /\ clock' = clock + 1
            /\ Handled(m, {Message(m.issue, <<"state">>, 0, desc[m.issue], FALSE)})
         \/ Fault /\ net' = After(m) /\ UNCHANGED <<state, clock>>
      /\ UNCHANGED <<status, link, outbox, desc, comments, poll, edits>>
  BY DEF ReceiveClosed, findingVars
<1>2. m.issue \in Issues /\ OtherKey(PartKey(m))
  BY <1>1, PartKeyFacts
<1>3. /\ Len(comments) \in Nat /\ Len(comments) \in 0..MaxComments /\ clock \in Nat /\ clock + 1 \in Nat
      /\ DeliveriesSound /\ PlainTypes
  BY InvFacts DEF InboundInv
<1>4. DataTypes' /\ KeysSound' /\ ReadsSound' /\ AppliedPerClaim'
  BY <1>1, <1>2, SameComments, NothingApplied
<1>5. CASE /\ state' = [state EXCEPT ![m.issue] = "open"] /\ clock' = clock + 1
           /\ Handled(m, {Message(m.issue, <<"state">>, 0, desc[m.issue], FALSE)})
  <2> DEFINE msg == Message(m.issue, <<"state">>, 0, desc[m.issue], FALSE)
  <2>1. desc[m.issue] \in Text
    BY <1>2, <1>3 DEF PlainTypes, Pending
  <2>2. Deliverable(msg, Len(comments))
    BY <1>2, <1>3, <2>1, MessageDeliverable DEF PartSets
  <2> HIDE DEF msg
  <2>3. (\A x \in net' : Deliverable(x, Len(comments))) /\ faults' \in 0..MaxFaults
    <3>1. Handled(m, {msg}) /\ \A x \in {msg} : Deliverable(x, Len(comments))
      BY <1>5, <2>2 DEF msg
    <3>2. Len(comments) <= Len(comments)
      BY <1>3
    <3>3. QED
      BY <1>3, <3>1, <3>2, HandledKeeps
  <2>4. PlainTypes'
    BY <1>1, <1>3, <1>5, <2>3 DEF PlainTypes, Pending
  <2>5. QED
    BY <1>1, <1>4, <2>3, <2>4 DEF InboundInv, DeliveriesSound
<1>6. CASE Fault /\ net' = After(m) /\ UNCHANGED <<state, clock>>
  <2>1. \A x \in net' : Deliverable(x, Len(comments))
    BY <1>3, <1>6, DeliveriesKept
  <2>2. PlainTypes'
    BY <1>1, <1>3, <1>6, FaultCounted DEF PlainTypes, Pending
  <2>3. QED
    BY <1>1, <1>4, <2>1, <2>2 DEF InboundInv, DeliveriesSound
<1>7. QED
  BY <1>1, <1>5, <1>6

\* A lost webhook changes nothing but the network.
LEMMA LoseKeeps ==
  ASSUME InboundInv, NEW m \in net, Lose(m)
  PROVE  InboundInv'
<1>1. /\ UNCHANGED <<status, link, outbox, state, desc, comments, claimed, poll, clock, edits>>
      /\ Fault /\ net' = net \ {m}
  BY DEF Lose, findingVars, issueVars
<1>2. DataTypes' /\ KeysSound' /\ ReadsSound' /\ AppliedPerClaim'
  BY <1>1, SameComments, NothingApplied
<1>3. PlainTypes'
  BY <1>1, FaultCounted DEF InboundInv, PlainTypes, Pending
<1>4. DeliveriesSound'
  BY <1>1 DEF InboundInv, DeliveriesSound
<1>5. QED
  BY <1>2, <1>3, <1>4 DEF InboundInv

\* The polls: what they read, and its keys.
LEMMA ItemsFacts ==
  ASSUME InboundInv, NEW i \in Issues
  PROVE  /\ ItemsOf(i) \subseteq Item
         /\ \A x \in ItemsOf(i) : x.n <= Len(comments) /\ ItemBlock(x) # NoBlock
<1>1. ASSUME NEW x \in ItemsOf(i) PROVE x \in Item /\ x.n <= Len(comments) /\ ItemBlock(x) # NoBlock
  <2>0. ItemBlock(x) # NoBlock
    BY DEF ItemsOf
  <2>1. \/ x = [issue |-> i, n |-> 0, text |-> desc[i]]
        \/ \E n \in DOMAIN comments : x = [issue |-> i, n |-> n, text |-> comments[n].text]
    BY DEF ItemsOf
  <2>2. Len(comments) \in 0..MaxComments /\ MaxComments \in Nat /\ DOMAIN comments = 1..Len(comments)
    BY InvFacts
  <2>3. CASE x = [issue |-> i, n |-> 0, text |-> desc[i]]
    <3>1. desc[i] \in Text
      BY DEF InboundInv, PlainTypes, Pending
    <3>2. QED
      BY <2>0, <2>2, <2>3, <3>1 DEF Item
  <2>4. ASSUME NEW n \in DOMAIN comments, x = [issue |-> i, n |-> n, text |-> comments[n].text]
        PROVE  x \in Item /\ x.n <= Len(comments)
    <3>1. comments[n].text \in Text
      BY CommentFields DEF InboundInv, Comment
    <3>2. QED
      BY <2>0, <2>2, <2>4, <3>1 DEF Item
  <2>5. QED
    BY <2>0, <2>1, <2>3, <2>4
<1>2. QED
  BY <1>1

\* An item of a poll has the claim its webhook would have.
LEMMA ItemKeyFacts ==
  ASSUME InboundInv, NEW x \in Item, x.n <= Len(comments)
  PROVE  /\ x.n \in 0..Len(comments) /\ x.issue \in Issues
         /\ ItemBlock(x) # NoBlock => ItemBlock(x) \in Parsed
         /\ \/ x.n = 0 /\ OtherKey(ItemKey(x))
            \/ x.n # 0 /\ \E e \in {"create", "Comment.create"} : ItemKey(x) = KeyOf(x.n, e)
<1>1. x.n \in 0..Len(comments) /\ x.issue \in Issues /\ x.text \in Text
  BY InvFacts DEF Item
<1>2. ItemBlock(x) # NoBlock => ItemBlock(x) \in Parsed
  BY <1>1, BlocksParsed DEF ItemBlock
<1>3. CASE x.n = 0
  <2>1. ItemKey(x) = <<"description", x.issue, HeadOf(x.text), 0>>
    BY <1>3 DEF ItemKey
  <2>2. OtherKey(ItemKey(x))
    BY <2>1 DEF OtherKey
  <2>3. QED
    BY <1>1, <1>2, <1>3, <2>2
<1>4. CASE x.n # 0
  <2>1. ItemKey(x) = KeyOf(x.n, "Comment.create")
    BY <1>4 DEF ItemKey, CommentKey, KeyOf
  <2>2. QED
    BY <1>1, <1>2, <1>4, <2>1
<1>5. QED
  BY <1>3, <1>4

\* A poll starts from what the tracker shows, which is comments that exist.
LEMMA StartPollKeeps ==
  ASSUME InboundInv, StartPoll
  PROVE  InboundInv'
<1> DEFINE found == {i \in Tracked : ItemsOf(i) # {}}
           N == Cardinality(found)
<1>1. UNCHANGED <<status, link, outbox, state, desc, comments, net, claimed, clock, edits, faults>>
  BY DEF StartPoll, findingVars, issueVars
<1>2. PICK order \in [1..N -> found] : poll' = [k \in DOMAIN order |-> ItemsOf(order[k])]
  BY DEF StartPoll
<1>3. N \in Nat
  <2>1. found \in SUBSET Issues
    BY DEF Tracked
  <2>2. QED
    BY <2>1, FS_Subset, FS_CardinalityType, InboundAssumption
<1>4. \A k \in 1..N : order[k] \in Issues
  BY <1>2 DEF Tracked
<1> HIDE DEF N, found
<1>5. poll' = [k \in 1..N |-> ItemsOf(order[k])]
  BY <1>2
<1>6. \A k \in 1..N : /\ ItemsOf(order[k]) \in SUBSET Item
                     /\ \A x \in ItemsOf(order[k]) : x.n <= Len(comments) /\ ItemBlock(x) # NoBlock
  BY <1>4, ItemsFacts
<1>7. poll' \in [1..N -> SUBSET Item]
  BY <1>5, <1>6
<1>8. poll' \in Seq(SUBSET Item)
  BY <1>3, <1>7
<1>9. ReadsSound'
  BY <1>1, <1>5, <1>6 DEF InboundInv, ReadsSound
<1>10. PlainTypes' /\ DataTypes' /\ DeliveriesSound'
  BY <1>1, <1>8 DEF InboundInv, PlainTypes, Pending, DataTypes, DeliveriesSound
<1>11. KeysSound' /\ AppliedPerClaim'
  BY <1>1 DEF InboundInv, KeysSound, AppliedPerClaim
<1>12. QED
  BY <1>9, <1>10, <1>11 DEF InboundInv

\* A function on an initial segment is a sequence.
LEMMA FunctionIsSeq ==
  ASSUME NEW N \in Nat, NEW S, NEW s \in [1..N -> S]
  PROVE  s \in Seq(S)
OBVIOUS

\* What is left of a poll is part of it.
LEMMA RestOfPoll ==
  ASSUME poll \in Seq(SUBSET Item), poll # <<>>, NEW x \in Head(poll),
         poll' = IF Head(poll) = {x} THEN Tail(poll) ELSE [poll EXCEPT ![1] = @ \ {x}]
  PROVE  /\ x \in Item /\ \E k \in DOMAIN poll : x \in poll[k]
         /\ poll' \in Seq(SUBSET Item)
         /\ \A k \in DOMAIN poll' : \E j \in DOMAIN poll : poll'[k] \subseteq poll[j]
<1> DEFINE N == Len(poll)
<1>1. N \in Nat /\ N # 0 /\ DOMAIN poll = 1..N /\ Head(poll) = poll[1] /\ 1 \in 1..N
      /\ poll \in [1..N -> SUBSET Item]
  OBVIOUS
<1>2. poll[1] \in SUBSET Item /\ x \in poll[1] /\ poll[1] \ {x} \in SUBSET Item
  BY <1>1
<1>3. CASE Head(poll) = {x}
  <2>1. poll' = Tail(poll)
    BY <1>3
  <2>2. Tail(poll) \in Seq(SUBSET Item) /\ Len(Tail(poll)) = N - 1
    BY <1>1
  <2>3. DOMAIN Tail(poll) = 1..(N - 1)
    <3>1. DOMAIN Tail(poll) = 1..Len(Tail(poll))
      BY <2>2
    <3>2. QED
      BY <2>2, <3>1
  <2>4. ASSUME NEW k \in 1..(N - 1)
        PROVE  Tail(poll)[k] = poll[k + 1] /\ k + 1 \in 1..N
    BY <1>1, <2>4
  <2> HIDE DEF N
  <2>5. QED
    BY <1>1, <1>2, <2>1, <2>2, <2>3, <2>4
<1>4. CASE Head(poll) # {x}
  <2> HIDE DEF N
  <2>1. poll' = [poll EXCEPT ![1] = poll[1] \ {x}]
    BY <1>4
  <2>2. poll' \in [1..N -> SUBSET Item]
    BY <1>1, <1>2, <2>1
  <2>3. \A k \in 1..N : poll'[k] \subseteq poll[k]
    BY <1>1, <2>1
  <2>4. poll' \in Seq(SUBSET Item)
    BY <1>1, <2>2, FunctionIsSeq
  <2>5. QED
    BY <1>1, <1>2, <2>2, <2>3, <2>4
<1>5. QED
  BY <1>3, <1>4

\* A polled item is applied under its claim, as its webhook would be.
LEMMA PollItemKeeps ==
  ASSUME InboundInv, PollItem
  PROVE  InboundInv'
<1>1. PICK x \in Head(poll) :
        /\ poll' = IF Head(poll) = {x} THEN Tail(poll) ELSE [poll EXCEPT ![1] = @ \ {x}]
        /\ IF ItemKey(x) \in claimed THEN UNCHANGED <<status, outbox, claimed, comments, net, clock>>
           ELSE /\ claimed' = claimed \cup {ItemKey(x)}
                /\ ApplyVatParsedUpdate(x.issue, ItemBlock(x), x.n)
                /\ net' = net \cup Echo(x.issue, ItemBlock(x))
        /\ UNCHANGED <<link, state, desc, edits, faults>>
  BY DEF PollItem, issueVars
<1>2. poll # <<>> /\ poll \in Seq(SUBSET Item)
  BY DEF PollItem, InboundInv, DataTypes
<1>3. /\ x \in Item /\ \E k \in DOMAIN poll : x \in poll[k]
      /\ poll' \in Seq(SUBSET Item)
      /\ \A k \in DOMAIN poll' : \E j \in DOMAIN poll : poll'[k] \subseteq poll[j]
  <2>1. x \in Head(poll) /\ poll' = IF Head(poll) = {x} THEN Tail(poll) ELSE [poll EXCEPT ![1] = @ \ {x}]
    BY <1>1
  <2>2. QED
    BY <1>2, <2>1, RestOfPoll
<1>4. x.n <= Len(comments) /\ ItemBlock(x) # NoBlock
  BY <1>3 DEF InboundInv, ReadsSound
<1>5. \A k \in DOMAIN poll' : \A y \in poll'[k] : y.n <= Len(comments) /\ ItemBlock(y) # NoBlock /\ y \in Item
  BY <1>2, <1>3 DEF InboundInv, ReadsSound
<1>6. CASE ItemKey(x) \in claimed
  <2>1. UNCHANGED <<status, link, outbox, state, desc, comments, net, claimed, clock, edits, faults>>
    BY <1>1, <1>6
  <2>2. ReadsSound'
    BY <1>5, <2>1 DEF InboundInv, ReadsSound
  <2>3. PlainTypes' /\ DataTypes' /\ DeliveriesSound'
    BY <1>3, <2>1 DEF InboundInv, PlainTypes, Pending, DataTypes, DeliveriesSound
  <2>4. KeysSound' /\ AppliedPerClaim'
    BY <2>1 DEF InboundInv, KeysSound, AppliedPerClaim
  <2>5. QED
    BY <2>2, <2>3, <2>4 DEF InboundInv
<1>7. CASE ItemKey(x) \notin claimed
  <2> DEFINE p == ItemBlock(x)
  <2>1. /\ claimed' = claimed \cup {ItemKey(x)} /\ ApplyVatParsedUpdate(x.issue, p, x.n)
        /\ net' = net \cup Echo(x.issue, p)
    BY <1>1, <1>7
  <2>2. /\ x.n \in 0..Len(comments) /\ x.issue \in Issues /\ p \in Parsed
        /\ \/ x.n = 0 /\ OtherKey(ItemKey(x))
           \/ x.n # 0 /\ \E e \in {"create", "Comment.create"} : ItemKey(x) = KeyOf(x.n, e)
    BY <1>3, <1>4, ItemKeyFacts
  <2> HIDE DEF p
  <2>3. KeysSound' /\ AppliedPerClaim'
    BY <1>7, <2>1, <2>2, ApplyKeeps
  <2>4. /\ status' \in [Findings -> Statuses]
        /\ outbox' \subseteq Pending /\ clock' \in Nat
        /\ Grown /\ Len(comments') <= MaxComments
        /\ \A k \in DOMAIN comments' : comments'[k].of <= Len(comments')
        /\ \A y \in Echo(x.issue, p) : Deliverable(y, Len(comments'))
    BY <2>1, <2>2, ApplyFacts
  <2>5. Len(comments) <= Len(comments') /\ Len(comments') \in Nat /\ Len(comments) \in Nat
        /\ DeliveriesSound /\ PlainTypes
    BY <2>4, InvFacts, GrownDomain DEF Grown, InboundInv
  <2>6. \A y \in net' : Deliverable(y, Len(comments'))
    BY <2>1, <2>4, <2>5, DeliveriesKept
  <2>7. PlainTypes' /\ DataTypes'
    BY <1>1, <1>3, <2>4, <2>5 DEF PlainTypes, Pending, DataTypes, Grown
  <2>8. ReadsSound'
    <3>1. \A k \in DOMAIN poll' : \A y \in poll'[k] : y.n <= Len(comments') /\ ItemBlock(y) # NoBlock
      BY <1>5, <2>5, InvFacts DEF Item
    <3>2. QED
      BY <2>4, <3>1 DEF ReadsSound
  <2>9. QED
    BY <2>3, <2>6, <2>7, <2>8 DEF InboundInv, DeliveriesSound
<1>8. QED
  BY <1>6, <1>7

\* A poll that fails drops what it has not handled.
LEMMA PollFailsKeeps ==
  ASSUME InboundInv, PollFails
  PROVE  InboundInv'
<1>1. /\ UNCHANGED <<status, link, outbox, state, desc, comments, net, claimed, clock, edits>>
      /\ Fault /\ poll' = <<>>
  BY DEF PollFails, findingVars, issueVars
<1>2. poll' \in Seq(SUBSET Item) /\ DOMAIN poll' = {}
  BY <1>1
<1>3. PlainTypes'
  BY <1>1, FaultCounted DEF InboundInv, PlainTypes, Pending
<1>4. DataTypes' /\ DeliveriesSound' /\ ReadsSound'
  BY <1>1, <1>2 DEF InboundInv, DataTypes, DeliveriesSound, ReadsSound
<1>5. KeysSound' /\ AppliedPerClaim'
  BY <1>1 DEF InboundInv, KeysSound, AppliedPerClaim
<1>6. QED
  BY <1>3, <1>4, <1>5 DEF InboundInv

(***************************************************************************)
(* What people and the outbound queue do.                                  *)
(***************************************************************************)

\* A counted edit is within the bound.
LEMMA EditCounted ==
  ASSUME PlainTypes, Edited
  PROVE  edits' \in 0..MaxEdits
BY InboundAssumption DEF PlainTypes, Pending, Edited

\* A delivery is added to those there are.
LEMMA MessageAdded ==
  ASSUME InboundInv, Grown, NEW msg, Deliverable(msg, Len(comments')), net' \subseteq net \cup {msg}
  PROVE  DeliveriesSound'
<1>1. /\ DeliveriesSound /\ Len(comments') \in Nat /\ Len(comments) \in Nat
      /\ Len(comments) <= Len(comments')
  BY InvFacts, GrownDomain DEF InboundInv, Grown
<1>2. \A x \in net \cup {msg} : Deliverable(x, Len(comments'))
  <2>1. \A x \in {msg} : Deliverable(x, Len(comments'))
    OBVIOUS
  <2>2. QED
    BY <1>1, <2>1, DeliveriesKept
<1>3. QED
  BY <1>2 DEF DeliveriesSound

\* A person writes a comment, which its webhook names.
LEMMA WriteCommentKeeps ==
  ASSUME InboundInv, NEW i \in Issues, NEW t \in CommentTexts, WriteComment(i, t)
  PROVE  InboundInv'
<1> DEFINE n   == Len(comments) + 1
           c   == NewComment(i, t, "person", n)
           msg == Message(i, <<"comment">>, n, t, FALSE)
<1>1. /\ Edited /\ n <= MaxComments /\ clock' = clock + 1
      /\ comments' = Append(comments, c) /\ net' = net \cup {msg}
      /\ UNCHANGED <<status, link, outbox, state, desc, claimed, poll, faults>>
  BY DEF WriteComment, findingVars, issueVars
<1>2. /\ Len(comments) \in Nat /\ MaxComments \in Nat /\ clock \in Nat /\ clock + 1 \in Nat
      /\ PlainTypes
  BY InvFacts DEF InboundInv
<1>3. t \in Text /\ n \in 1..MaxComments /\ n \in 0..MaxComments /\ n \in 1..n
  BY <1>1, <1>2, InboundAssumption
<1>4. c \in Comment /\ c.of = n /\ c.applied = 0
  BY <1>3, NewCommentType
<1>5. Deliverable(msg, n)
  <2>1. \A j \in 1..n : Deliverable(Message(i, <<"comment">>, j, t, FALSE), n)
    BY <1>2, <1>3, MessageDeliverable
  <2>2. QED
    BY <1>3, <2>1
<1> HIDE DEF c, msg
<1>6. /\ Grown /\ Len(comments') = n /\ Len(comments') <= MaxComments
      /\ \A k \in DOMAIN comments' : comments'[k].of <= Len(comments')
      /\ \A k \in DOMAIN comments : comments'[k].applied = comments[k].applied
  BY <1>1, <1>4, CommentAdded
<1>7. DataTypes' /\ KeysSound' /\ ReadsSound' /\ AppliedPerClaim'
  BY <1>1, <1>6, NothingApplied
<1>8. DeliveriesSound'
  BY <1>1, <1>5, <1>6, MessageAdded
<1>9. PlainTypes'
  BY <1>1, <1>2, EditCounted DEF PlainTypes, Pending
<1>10. QED
  BY <1>7, <1>8, <1>9 DEF InboundInv

\* Nothing that is claimed, commented or polled changes.
LEMMA ReadsStay ==
  ASSUME InboundInv, UNCHANGED <<comments, claimed, poll>>
  PROVE  Grown /\ DataTypes' /\ KeysSound' /\ ReadsSound' /\ AppliedPerClaim'
BY SameComments, NothingApplied

\* A person edits or closes an issue, which one webhook tells of.
LEMMA EditIssueKeeps ==
  ASSUME InboundInv, NEW i \in Issues, NEW parts \in PartSets, NEW t \in DescTexts, EditIssue(i, parts, t)
  PROVE  InboundInv'
<1> DEFINE msg == Message(i, parts, 0, desc'[i], TRUE)
<1>1. /\ Edited /\ clock' = clock + 1
      /\ desc' = desc \/ desc' = [desc EXCEPT ![i] = t]
      /\ state' = state \/ state' = [state EXCEPT ![i] = "closed"]
      /\ net' = net \cup {msg}
      /\ UNCHANGED <<status, link, outbox, comments, claimed, poll, faults>>
  BY DEF EditIssue, findingVars
<1>2. /\ Len(comments) \in 0..MaxComments /\ clock \in Nat /\ clock + 1 \in Nat
      /\ PlainTypes /\ t \in Text
  BY InvFacts, InboundAssumption DEF InboundInv
<1>3. PlainTypes'
  BY <1>1, <1>2, EditCounted DEF PlainTypes, Pending
<1>4. Deliverable(msg, Len(comments'))
  <2>1. desc'[i] \in Text
    BY <1>3 DEF PlainTypes, Pending
  <2>2. Deliverable(msg, Len(comments))
    BY <1>2, <2>1, MessageDeliverable
  <2>3. QED
    BY <1>1, <2>2
<1> HIDE DEF msg
<1>5. Grown /\ DataTypes' /\ KeysSound' /\ ReadsSound' /\ AppliedPerClaim'
  BY <1>1, ReadsStay
<1>6. DeliveriesSound'
  BY <1>1, <1>4, <1>5, MessageAdded
<1>7. QED
  BY <1>3, <1>5, <1>6 DEF InboundInv

\* A reviewer changes a status, which may be owed to the tracker if the finding is linked.
LEMMA ReviewKeeps ==
  ASSUME InboundInv, NEW f \in Findings, NEW st \in {"Open", "Rejected"}, Review(f, st)
  PROVE  InboundInv'
<1>1. Edited /\ UNCHANGED <<link, state, desc, comments, net, claimed, poll, clock, faults>>
  BY DEF Review, issueVars
<1>a. \/ SetStatus(f, st)
      \/ status' = [status EXCEPT ![f] = st] /\ outbox' = outbox
  BY DEF Review
<1>2. PlainTypes /\ st \in Statuses
  BY VerdictFacts DEF InboundInv
<1>3. PlainTypes'
  <2>1. CASE SetStatus(f, st)
    BY <1>1, <1>2, <2>1, StatusSet, EditCounted DEF PlainTypes, Pending
  <2>2. CASE status' = [status EXCEPT ![f] = st] /\ outbox' = outbox
    BY <1>1, <1>2, <2>2, EditCounted DEF PlainTypes, Pending
  <2>3. QED
    BY <1>a, <2>1, <2>2
<1>4. DataTypes' /\ KeysSound' /\ ReadsSound' /\ AppliedPerClaim'
  BY <1>1, ReadsStay
<1>5. DeliveriesSound'
  BY <1>1 DEF InboundInv, DeliveriesSound
<1>6. QED
  BY <1>3, <1>4, <1>5 DEF InboundInv

\* A finding is linked to an issue.
LEMMA LinkFindingKeeps ==
  ASSUME InboundInv, NEW f \in Findings, NEW i \in Issues, LinkFinding(f, i)
  PROVE  InboundInv'
<1> DEFINE e == [finding |-> f, closed |-> Terminal(status[f])]
<1>1. /\ Edited /\ link' = [link EXCEPT ![f] = i] /\ outbox' = outbox \cup {e}
      /\ UNCHANGED <<status, state, desc, comments, net, claimed, poll, clock, faults>>
  BY DEF LinkFinding, issueVars
<1>2. PlainTypes /\ i # NoIssue
  BY InboundAssumption DEF InboundInv
<1>3. link' \in [Findings -> Issues \cup {NoIssue}] /\ link'[f] # NoIssue
      /\ \A g \in Findings : link[g] # NoIssue => link'[g] # NoIssue
  BY <1>1, <1>2 DEF PlainTypes
<1>4. Pending \subseteq Pending' /\ e \in Pending'
  BY <1>3 DEF Pending, Terminal
<1> HIDE DEF e
<1>5. outbox' \subseteq Pending'
  BY <1>1, <1>2, <1>4 DEF PlainTypes
<1>6. PlainTypes'
  BY <1>1, <1>2, <1>3, <1>5, EditCounted DEF PlainTypes
<1>7. DataTypes' /\ KeysSound' /\ ReadsSound' /\ AppliedPerClaim'
  BY <1>1, ReadsStay
<1>8. DeliveriesSound'
  BY <1>1 DEF InboundInv, DeliveriesSound
<1>9. QED
  BY <1>6, <1>7, <1>8 DEF InboundInv

\* An update opens or closes the issue, which a webhook tells of.
LEMMA DeliverUpdateKeeps ==
  ASSUME InboundInv, NEW e \in outbox, DeliverUpdate(e)
  PROVE  InboundInv'
<1> DEFINE i   == link[e.finding]
           msg == Message(i, <<"state">>, 0, desc[i], e.closed)
<1>1. /\ outbox' = outbox \ {e}
      /\ state' = [state EXCEPT ![i] = IF e.closed THEN "closed" ELSE "open"]
      /\ \/ UNCHANGED <<net, clock>>
         \/ net' = net \cup {msg} /\ clock' = clock + 1
      /\ UNCHANGED <<status, link, desc, comments, claimed, poll, edits, faults>>
  BY DEF DeliverUpdate
<1>2. /\ Len(comments) \in 0..MaxComments /\ clock \in Nat /\ clock + 1 \in Nat
      /\ PlainTypes /\ DeliveriesSound
  BY InvFacts DEF InboundInv
<1>3. i \in Issues /\ e.closed \in BOOLEAN
  BY <1>2 DEF PlainTypes, Pending
<1> HIDE DEF i
<1>4. Deliverable(msg, Len(comments'))
  <2>1. desc[i] \in Text
    BY <1>2, <1>3 DEF PlainTypes
  <2>2. Deliverable(msg, Len(comments))
    BY <1>2, <1>3, <2>1, MessageDeliverable DEF PartSets
  <2>3. QED
    BY <1>1, <2>2
<1> HIDE DEF msg
<1>5. Grown /\ DataTypes' /\ KeysSound' /\ ReadsSound' /\ AppliedPerClaim'
  BY <1>1, ReadsStay
<1>6. DeliveriesSound'
  <2>1. net' \subseteq net \cup {msg}
    BY <1>1
  <2>2. QED
    BY <1>4, <1>5, <2>1, MessageAdded
<1>7. PlainTypes'
  <2>1. outbox' \subseteq Pending'
    BY <1>1, <1>2 DEF PlainTypes, Pending
  <2>2. state' \in [Issues -> {"open", "closed"}]
    BY <1>1, <1>2 DEF PlainTypes
  <2>3. QED
    BY <1>1, <1>2, <2>1, <2>2 DEF PlainTypes
<1>8. QED
  BY <1>5, <1>6, <1>7 DEF InboundInv

(***************************************************************************)
(* The theorems.                                                           *)
(***************************************************************************)

\* The inbound invariant holds at the start.
LEMMA InboundStarts == InboundInit => InboundInv
<1> SUFFICES ASSUME InboundInit PROVE InboundInv
  OBVIOUS
<1>1. PICK S \in FirstLinks, j \in Issues : link = [f \in Findings |-> IF f \in S THEN j ELSE NoIssue]
  BY DEF InboundInit
<1>2. /\ status = [f \in Findings |-> "Open"] /\ outbox = {} /\ state = [i \in Issues |-> "open"]
      /\ desc = [i \in Issues |-> Untouched(i)] /\ comments = <<>> /\ net = {} /\ claimed = {}
      /\ poll = <<>> /\ clock = 0 /\ edits = 0 /\ faults = 0
  BY DEF InboundInit
<1>3. \A i \in Issues : Untouched(i) \in Text
  BY InboundAssumption DEF Untouched, Text, Forms, Raw
<1>4. PlainTypes
  BY <1>1, <1>2, <1>3, VerdictFacts, InboundAssumption DEF PlainTypes, Pending
<1>5. DataTypes /\ DOMAIN comments = {} /\ DOMAIN poll = {}
  <2>1. comments \in Seq(Comment) /\ poll \in Seq(SUBSET Item) /\ Len(comments) = 0
        /\ DOMAIN comments = {} /\ DOMAIN poll = {}
    BY <1>2
  <2>2. QED
    BY <2>1, VerdictFacts DEF DataTypes
<1>6. DeliveriesSound /\ KeysSound
  BY <1>2, FS_EmptySet DEF DeliveriesSound, KeysSound
<1>7. ReadsSound /\ AppliedPerClaim
  BY <1>5 DEF ReadsSound, AppliedPerClaim
<1>8. QED
  BY <1>4, <1>5, <1>6, <1>7 DEF InboundInv

\* A step of another part leaves the inbound invariant alone.
LEMMA InboundStays ==
  ASSUME InboundInv, UNCHANGED inboundVars
  PROVE  InboundInv'
<1>1. UNCHANGED <<status, link, outbox, state, desc, comments, net, claimed, poll, clock, edits, faults>>
  BY DEF inboundVars
<1>2. DataTypes' /\ KeysSound' /\ ReadsSound' /\ AppliedPerClaim'
  BY <1>1, ReadsStay
<1>3. PlainTypes' /\ DeliveriesSound'
  BY <1>1 DEF InboundInv, PlainTypes, Pending, DeliveriesSound
<1>4. QED
  BY <1>2, <1>3 DEF InboundInv

\* Every inbound step keeps the invariant.
LEMMA InboundSteps == InboundInv /\ [InboundNext]_inboundVars => InboundInv'
<1> SUFFICES ASSUME InboundInv, [InboundNext]_inboundVars PROVE InboundInv'
  OBVIOUS
<1>1. ASSUME NEW m \in net, Receive(m) PROVE InboundInv'
  BY <1>1, PassedKeeps, BlockKeeps, InjectKeeps, ClosedKeeps DEF Receive
<1>2. ASSUME NEW m \in net, Lose(m) PROVE InboundInv'
  BY <1>2, LoseKeeps
<1>3. CASE PollStep \/ PollFails
  BY <1>3, StartPollKeeps, PollItemKeeps, PollFailsKeeps DEF PollStep
<1>4. ASSUME NEW e \in outbox, DeliverUpdate(e) PROVE InboundInv'
  BY <1>4, DeliverUpdateKeeps
<1>5. ASSUME NEW i \in Issues, NEW t \in CommentTexts, WriteComment(i, t) PROVE InboundInv'
  BY <1>5, WriteCommentKeeps
<1>6. ASSUME NEW i \in Issues, NEW parts \in PartSets, NEW t \in DescTexts, EditIssue(i, parts, t)
      PROVE  InboundInv'
  BY <1>6, EditIssueKeeps
<1>7. ASSUME NEW i \in Issues, NEW f \in Findings, LinkFinding(f, i) PROVE InboundInv'
  BY <1>7, LinkFindingKeeps
<1>8. ASSUME NEW f \in Findings, NEW st \in {"Open", "Rejected"}, Review(f, st) PROVE InboundInv'
  BY <1>8, ReviewKeeps
<1>9. CASE UNCHANGED inboundVars
  BY <1>9, InboundStays
<1>10. QED
  BY <1>1, <1>2, <1>3, <1>4, <1>5, <1>6, <1>7, <1>8, <1>9 DEF InboundNext, Deliveries, Updates

\* What the invariant says of claims and applications.
LEMMA InboundImplies == InboundInv => ClaimsSound
<1> SUFFICES ASSUME InboundInv PROVE ClaimsSound
  OBVIOUS
<1>1. net \subseteq Delivery /\ \A m \in net : m.n <= Len(comments)
  <2>1. ASSUME NEW m \in net PROVE m \in Delivery /\ m.n <= Len(comments)
    BY InvFacts DEF InboundInv, DeliveriesSound, Deliverable
  <2>2. QED
    BY <2>1
<1>2. \A k \in claimed : k[1] \in Parts \cup {"reinject"}
  <2>1. ASSUME NEW k \in claimed PROVE k[1] \in Parts \cup {"reinject"}
    <3>1. CASE OtherKey(k)
      BY <3>1 DEF OtherKey, Parts
    <3>2. CASE ~OtherKey(k)
      BY <3>2, KeyFacts DEF InboundInv, KeysSound, Parts
    <3>3. QED
      BY <3>1, <3>2
  <2>2. QED
    BY <2>1
<1>3. outbox \subseteq [finding : Findings, closed : BOOLEAN]
  BY DEF InboundInv, PlainTypes, Pending
<1>4. InboundTypes
  BY <1>1, <1>2, <1>3 DEF InboundInv, PlainTypes, DataTypes, InboundTypes
<1>5. QED
  BY <1>4 DEF InboundInv, ClaimsSound

\* Deliveries, claims, comments and polls fit together after every step.
THEOREM InboundInvariant == InboundSpec => []InboundInv
<1>1. InboundInit => InboundInv
  BY InboundStarts
<1>2. InboundInv /\ [InboundNext]_inboundVars => InboundInv'
  BY InboundSteps
<1>3. QED
  BY <1>1, <1>2, PTL DEF InboundSpec

\* No text is applied more often than its comment was claimed, whatever is lost, comes
\* again, or is read by a poll that runs beside the webhooks.
THEOREM ClaimsAlwaysSound == InboundSpec => []ClaimsSound
<1>1. InboundInv => ClaimsSound
  BY InboundImplies
<1>2. QED
  BY <1>1, InboundInvariant, PTL

=============================================================================
