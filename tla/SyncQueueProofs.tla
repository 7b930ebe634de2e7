---------------------------- MODULE SyncQueueProofs ----------------------------
(***************************************************************************)
(* The sync queue leaves links, statuses and rows of one piece, and makes  *)
(* no more issues than it was asked for: QueueSound and IssuePerCreate for *)
(* every set of findings, workers and admins, all keys and all bounds.     *)
(***************************************************************************)
EXTENDS SyncQueue, FiniteSetTheorems, NaturalsInduction, WellFoundedInduction, TLAPS

(***************************************************************************)
(* Sets of row numbers: least and greatest elements, places, counting.     *)
(***************************************************************************)

\* A set of numbers has a least one.
LEMMA LeastOf ==
  ASSUME NEW S \in SUBSET Nat, S # {}
  PROVE  \E m \in S : \A k \in S : m <= k
<1>1. PICK m \in S : \A k \in S : ~ (<<k, m>> \in OpToRel(<, Nat))
  BY NatLessThanWellFounded, WFMin, Zenon
<1>2. ASSUME NEW k \in S PROVE m <= k
  <2>1. k \in Nat /\ m \in Nat
    OBVIOUS
  <2>2. ASSUME k < m PROVE <<k, m>> \in OpToRel(<, Nat)
    BY <2>1, <2>2 DEF OpToRel
  <2>3. ~(k < m)
    BY <1>1, <2>2, Zenon
  <2>4. QED
    BY <2>1, <2>3
<1>3. QED
  BY <1>2

\* A bounded set of numbers has a greatest one.
LEMMA GreatestOf ==
  ASSUME NEW N \in Nat, NEW S \in SUBSET (1..N), S # {}
  PROVE  \E m \in S : \A k \in S : k <= m
<1> DEFINE T == {n \in Nat : \E k \in S : n = N - k}
<1>1. T \in SUBSET Nat /\ T # {}
  <2>1. PICK k \in S : TRUE
    OBVIOUS
  <2>2. k \in 1..N /\ N - k \in Nat
    OBVIOUS
  <2>3. QED
    BY <2>2
<1>2. PICK t \in T : \A n \in T : t <= n
  BY <1>1, LeastOf
<1>3. PICK m \in S : t = N - m
  BY <1>2
<1>4. ASSUME NEW k \in S PROVE k <= m
  <2>1. k \in 1..N /\ m \in 1..N /\ N - k \in T
    OBVIOUS
  <2>2. N - m <= N - k
    BY <1>2, <1>3, <2>1
  <2>3. QED
    BY <2>1, <2>2
<1>5. QED
  BY <1>4

\* Different rows of a set have different places.
LEMMA PlaceFacts ==
  ASSUME NEW N \in Nat, NEW S \in SUBSET (1..N)
  PROVE  /\ IsFiniteSet(S) /\ Cardinality(S) \in Nat
         /\ \A i \in S : Place(S, i) \in 1..Cardinality(S)
         /\ \A i, j \in S : Place(S, i) = Place(S, j) => i = j
<1> DEFINE Upto(i) == {j \in S : j <= i}
<1>1. IsFiniteSet(S) /\ Cardinality(S) \in Nat
  <2>1. IsFiniteSet(1..N)
    BY FS_Interval
  <2>2. IsFiniteSet(S)
    BY <2>1, FS_Subset
  <2>3. QED
    BY <2>2, FS_CardinalityType
<1>2. ASSUME NEW i \in S
      PROVE  /\ IsFiniteSet(Upto(i)) /\ Cardinality(Upto(i)) \in 1..Cardinality(S)
  <2>1. Upto(i) \in SUBSET S
    OBVIOUS
  <2>2. IsFiniteSet(Upto(i)) /\ Cardinality(Upto(i)) <= Cardinality(S)
    BY <1>1, <2>1, FS_Subset
  <2>3. i \in Upto(i)
    OBVIOUS
  <2>4. Cardinality(Upto(i)) \in Nat /\ Cardinality(Upto(i)) # 0
    BY <2>2, <2>3, FS_CardinalityType, FS_EmptySet
  <2>5. QED
    BY <1>1, <2>2, <2>4
<1>3. ASSUME NEW i \in S, NEW j \in S, Cardinality(Upto(i)) = Cardinality(Upto(j)), i < j
      PROVE  FALSE
  <2>1. Upto(i) \in SUBSET Upto(j)
    <3>1. \A k \in S : k \in Nat
      OBVIOUS
    <3>2. \A k \in S : k <= i => k <= j
      BY <1>3, <3>1
    <3>3. QED
      BY <3>2
  <2>2. Upto(i) = Upto(j)
    BY <1>2, <1>3, <2>1, FS_Subset
  <2>3. j \in Upto(j) /\ j \notin Upto(i)
    BY <1>3
  <2>4. QED
    BY <2>2, <2>3
<1>4. \A i, j \in S : i < j \/ i = j \/ j < i
  OBVIOUS
<1>5. QED
  BY <1>1, <1>2, <1>3, <1>4 DEF Place

\* Every place up to the size of the set is taken.
LEMMA NthFacts ==
  ASSUME NEW N \in Nat, NEW S \in SUBSET (1..N)
  PROVE  /\ \A n \in 1..Cardinality(S) : Nth(S, n) \in S /\ Place(S, Nth(S, n)) = n
         /\ \A i \in S : Nth(S, Place(S, i)) = i
<1> DEFINE p == [i \in S |-> Place(S, i)]
           C == 1..Cardinality(S)
<1>1. /\ IsFiniteSet(S) /\ Cardinality(S) \in Nat
      /\ \A i \in S : Place(S, i) \in C
      /\ \A i, j \in S : Place(S, i) = Place(S, j) => i = j
  BY PlaceFacts
<1>2. p \in Injection(S, C)
  BY <1>1 DEF Injection, IsInjective
<1>3. IsFiniteSet(C) /\ Cardinality(C) = Cardinality(S)
  BY <1>1, FS_Interval
<1>4. p \in Surjection(S, C)
  BY <1>2, <1>3, FS_Injection
<1>5. \A n \in C : \E i \in S : Place(S, i) = n
  BY <1>4 DEF Surjection
<1>6. QED
  BY <1>1, <1>5 DEF Nth

\* Rows selected by place are at most the rows they are selected from.
LEMMA CountNth ==
  ASSUME NEW N \in Nat, NEW S \in SUBSET (1..N), NEW A \in SUBSET (1..Cardinality(S)),
         NEW B \in SUBSET S, \A n \in A : Nth(S, n) \in B
  PROVE  Cardinality(A) <= Cardinality(B)
<1> DEFINE g == [n \in A |-> Nth(S, n)]
<1>1. IsFiniteSet(S)
  BY PlaceFacts
<1>2. IsFiniteSet(B)
  BY <1>1, FS_Subset
<1>3. g \in Injection(A, B)
  <2>1. \A n \in A : Place(S, g[n]) = n
    BY NthFacts
  <2>2. QED
    BY <2>1 DEF Injection, IsInjective
<1>4. QED
  BY <1>2, <1>3, FS_Injection

\* The rows of two sequences one after the other.
LEMMA CountConcat ==
  ASSUME NEW m \in Nat, NEW n \in Nat, NEW A \in SUBSET (1..(m + n))
  PROVE  Cardinality(A) = Cardinality({i \in 1..m : i \in A})
                            + Cardinality({i \in 1..n : m + i \in A})
<1> DEFINE L == {i \in 1..m : i \in A}
           R == {i \in 1..n : m + i \in A}
           H == {i \in A : i > m}
           g == [i \in R |-> m + i]
<1>1. /\ IsFiniteSet(L) /\ Cardinality(L) \in Nat /\ IsFiniteSet(R) /\ Cardinality(R) \in Nat
  <2>1. IsFiniteSet(1..m) /\ IsFiniteSet(1..n)
    BY FS_Interval
  <2>2. L \in SUBSET (1..m) /\ R \in SUBSET (1..n)
    OBVIOUS
  <2>3. QED
    BY <2>1, <2>2, FS_Subset, FS_CardinalityType
<1>2. g \in Bijection(R, H)
  <2>1. g \in [R -> H]
    OBVIOUS
  <2>2. \A i, j \in R : g[i] = g[j] => i = j
    OBVIOUS
  <2>3. \A h \in H : \E i \in R : g[i] = h
    <3> TAKE h \in H
    <3>1. h - m \in R /\ m + (h - m) = h
      OBVIOUS
    <3>2. QED
      BY <3>1
  <2>4. QED
    BY <2>1, <2>2, <2>3 DEF Bijection, Injection, Surjection, IsInjective
<1>3. IsFiniteSet(H) /\ Cardinality(H) = Cardinality(R)
  BY <1>1, <1>2, FS_Bijection DEF ExistsBijection
<1>4. A = L \cup H /\ L \cap H = {}
  <2>1. \A a \in A : a \in L \/ a \in H
    OBVIOUS
  <2>2. \A a \in L : a \in A /\ a \notin H
    OBVIOUS
  <2>3. QED
    BY <2>1, <2>2
<1> HIDE DEF L, R, H
<1>5. Cardinality(L \cup H) = Cardinality(L) + Cardinality(H) - Cardinality(L \cap H)
  BY <1>1, <1>3, FS_Union
<1>6. Cardinality(L \cap H) = 0
  BY <1>4, FS_EmptySet
<1>7. Cardinality(A) = Cardinality(L) + Cardinality(R)
  BY <1>1, <1>3, <1>4, <1>5, <1>6
<1>8. QED
  BY <1>7 DEF L, R

(***************************************************************************)
(* Sequences of rows, and the creates among them.                          *)
(***************************************************************************)

\* A function on an initial segment is a sequence.
LEMMA SeqOf ==
  ASSUME NEW T, NEW n \in Nat, NEW g \in [1..n -> T]
  PROVE  g \in Seq(T) /\ Len(g) = n /\ DOMAIN g = 1..n
OBVIOUS

\* The rows of a finding that may still make an issue, in any sequence of rows.
Rows(evs, f) ==
  {i \in DOMAIN evs : /\ evs[i].finding = f /\ evs[i].type = "create_issue"
                      /\ evs[i].out.kind # "created"}

\* The issues made for a finding, in any sequence of issues.
MadeFor(iss, f) == {i \in DOMAIN iss : iss[i].for = f}

\* The creates of a finding are finitely many.
LEMMA RowsFinite ==
  ASSUME NEW evs \in Seq(Event), NEW f
  PROVE  /\ Rows(evs, f) \in SUBSET (1..Len(evs)) /\ Len(evs) \in Nat
         /\ IsFiniteSet(Rows(evs, f)) /\ Cardinality(Rows(evs, f)) \in Nat
<1>1. Rows(evs, f) \in SUBSET (1..Len(evs)) /\ Len(evs) \in Nat
  BY DEF Rows
<1>2. QED
  BY <1>1, PlaceFacts

\* The issues made for a finding are finitely many.
LEMMA MadeFinite ==
  ASSUME NEW iss \in Seq(Issue), NEW f
  PROVE  /\ MadeFor(iss, f) \in SUBSET (1..Len(iss)) /\ Len(iss) \in Nat
         /\ IsFiniteSet(MadeFor(iss, f)) /\ Cardinality(MadeFor(iss, f)) \in Nat
<1>1. MadeFor(iss, f) \in SUBSET (1..Len(iss)) /\ Len(iss) \in Nat
  BY DEF MadeFor
<1>2. QED
  BY <1>1, PlaceFacts

\* Creates of two sequences of rows add up.
LEMMA RowsConcat ==
  ASSUME NEW s \in Seq(Event), NEW t \in Seq(Event), NEW f
  PROVE  /\ s \o t \in Seq(Event)
         /\ Cardinality(Rows(s \o t, f)) = Cardinality(Rows(s, f)) + Cardinality(Rows(t, f))
<1> DEFINE A == Rows(s \o t, f)
<1>1. /\ s \o t \in Seq(Event) /\ DOMAIN (s \o t) = 1..(Len(s) + Len(t))
      /\ Len(s) \in Nat /\ Len(t) \in Nat
      /\ \A i \in 1..Len(s) : (s \o t)[i] = s[i]
      /\ \A i \in 1..Len(t) : (s \o t)[Len(s) + i] = t[i]
      /\ DOMAIN s = 1..Len(s) /\ DOMAIN t = 1..Len(t)
  OBVIOUS
<1>2. A \in SUBSET (1..(Len(s) + Len(t)))
  BY <1>1 DEF Rows
<1>3. {i \in 1..Len(s) : i \in A} = Rows(s, f)
  <2>1. \A i \in 1..Len(s) : i \in 1..(Len(s) + Len(t))
    BY <1>1
  <2>2. QED
    BY <1>1, <2>1 DEF Rows
<1>4. {i \in 1..Len(t) : Len(s) + i \in A} = Rows(t, f)
  <2>1. \A i \in 1..Len(t) : Len(s) + i \in 1..(Len(s) + Len(t))
    BY <1>1
  <2>2. QED
    BY <1>1, <2>1 DEF Rows
<1> HIDE DEF A
<1>5. Cardinality(A) = Cardinality({i \in 1..Len(s) : i \in A})
                         + Cardinality({i \in 1..Len(t) : Len(s) + i \in A})
  BY <1>1, <1>2, CountConcat
<1>6. QED
  BY <1>1, <1>3, <1>4, <1>5 DEF A

\* Issues of two sequences add up.
LEMMA MadeConcat ==
  ASSUME NEW s \in Seq(Issue), NEW t \in Seq(Issue), NEW f
  PROVE  Cardinality(MadeFor(s \o t, f)) = Cardinality(MadeFor(s, f)) + Cardinality(MadeFor(t, f))
<1> DEFINE A == MadeFor(s \o t, f)
<1>1. /\ DOMAIN (s \o t) = 1..(Len(s) + Len(t))
      /\ Len(s) \in Nat /\ Len(t) \in Nat
      /\ \A i \in 1..Len(s) : (s \o t)[i] = s[i]
      /\ \A i \in 1..Len(t) : (s \o t)[Len(s) + i] = t[i]
      /\ DOMAIN s = 1..Len(s) /\ DOMAIN t = 1..Len(t)
  OBVIOUS
<1>2. A \in SUBSET (1..(Len(s) + Len(t)))
  BY <1>1 DEF MadeFor
<1>3. {i \in 1..Len(s) : i \in A} = MadeFor(s, f)
  <2>1. \A i \in 1..Len(s) : i \in 1..(Len(s) + Len(t))
    BY <1>1
  <2>2. QED
    BY <1>1, <2>1 DEF MadeFor
<1>4. {i \in 1..Len(t) : Len(s) + i \in A} = MadeFor(t, f)
  <2>1. \A i \in 1..Len(t) : Len(s) + i \in 1..(Len(s) + Len(t))
    BY <1>1
  <2>2. QED
    BY <1>1, <2>1 DEF MadeFor
<1> HIDE DEF A
<1>5. Cardinality(A) = Cardinality({i \in 1..Len(s) : i \in A})
                         + Cardinality({i \in 1..Len(t) : Len(s) + i \in A})
  BY <1>1, <1>2, CountConcat
<1>6. QED
  BY <1>3, <1>4, <1>5 DEF A

\* A new row is typed and nobody's.
LEMMA NewEventFacts ==
  ASSUME NEW f \in Findings, NEW type \in Types, NEW i \in IssueIds
  PROVE  /\ NewEvent(f, type, i) \in Event
         /\ NewEvent(f, type, i).finding = f /\ NewEvent(f, type, i).type = type
         /\ NewEvent(f, type, i).lock = NoSession /\ NewEvent(f, type, i).out = NoOutcome
BY QueueAssumption DEF NewEvent, Event, NoOutcome, Outcomes, IssueIds, NoIssue, Types

\* Every row of the sequence is nobody's.
Fresh(evs) == \A i \in DOMAIN evs : evs[i].lock = NoSession /\ evs[i].out = NoOutcome

\* Rows of other types count as no create.
LEMMA NoCreates ==
  ASSUME NEW evs \in Seq(Event), \A i \in DOMAIN evs : evs[i].type # "create_issue", NEW f
  PROVE  Rows(evs, f) = {} /\ Cardinality(Rows(evs, f)) = 0
<1>1. Rows(evs, f) = {}
  BY DEF Rows
<1>2. QED
  BY <1>1, FS_EmptySet

\* A set in some order has each of its elements once.
LEMMA InOrderFacts ==
  ASSUME NEW S, IsFiniteSet(S)
  PROVE  /\ Cardinality(S) \in Nat /\ InOrder(S) \in [1..Cardinality(S) -> S]
         /\ \A x \in S : \E i \in 1..Cardinality(S) : InOrder(S)[i] = x
         /\ \A i, j \in 1..Cardinality(S) : InOrder(S)[i] = InOrder(S)[j] => i = j
<1> DEFINE n == Cardinality(S)
           g == InOrder(S)
<1>1. n \in Nat /\ ExistsBijection(1..n, S)
  BY FS_CardinalityType
<1>2. PICK h \in Bijection(1..n, S) : TRUE
  BY <1>1 DEF ExistsBijection
<1>3. h \in [1..n -> S] /\ \A x \in S : \E i \in DOMAIN h : h[i] = x
  BY <1>2 DEF Bijection, Surjection, Injection
<1>4. g \in [1..n -> S] /\ \A x \in S : \E i \in DOMAIN g : g[i] = x
  BY <1>3 DEF InOrder
<1>5. g \in Surjection(1..n, S)
  BY <1>4 DEF Surjection
<1>6. IsFiniteSet(1..n) /\ Cardinality(1..n) = n
  BY <1>1, FS_Interval
<1>7. g \in Injection(1..n, S)
  BY <1>5, <1>6, FS_SurjSameCardinalityImpliesInj
<1>8. QED
  BY <1>1, <1>4, <1>7 DEF Injection, IsInjective

\* A set of findings gets one create each.
LEMMA CreatesFacts ==
  ASSUME NEW S \in SUBSET Findings
  PROVE  /\ Creates(S) \in Seq(Event) /\ Fresh(Creates(S))
         /\ \A f \in Findings :
              Cardinality(Rows(Creates(S), f)) = IF f \in S THEN 1 ELSE 0
<1> DEFINE n == Cardinality(S)
           g == InOrder(S)
<1>1. IsFiniteSet(S)
  BY QueueAssumption, FS_Subset
<1>2. /\ n \in Nat /\ g \in [1..n -> S]
      /\ \A x \in S : \E i \in 1..n : g[i] = x
      /\ \A i, j \in 1..n : g[i] = g[j] => i = j
  BY <1>1, InOrderFacts
<1>3. Creates(S) = [i \in 1..n |-> CreateEvent(g[i])]
  BY <1>2 DEF Creates
<1> HIDE DEF n, g
<1>4. ASSUME NEW i \in 1..n
      PROVE  /\ CreateEvent(g[i]) \in Event
             /\ CreateEvent(g[i]).finding = g[i] /\ CreateEvent(g[i]).type = "create_issue"
             /\ CreateEvent(g[i]).lock = NoSession /\ CreateEvent(g[i]).out = NoOutcome
  <2>1. g[i] \in Findings /\ "create_issue" \in Types /\ NoIssue \in IssueIds
    BY <1>2, QueueAssumption DEF Types, NoIssue, IssueIds
  <2>2. QED
    BY <2>1, NewEventFacts DEF CreateEvent
<1>5. Creates(S) \in [1..n -> Event] /\ DOMAIN Creates(S) = 1..n
  BY <1>3, <1>4
<1>6. Creates(S) \in Seq(Event)
  BY <1>2, <1>5, SeqOf
<1>7. Fresh(Creates(S))
  BY <1>3, <1>4 DEF Fresh
<1>8. ASSUME NEW f \in Findings
      PROVE  Cardinality(Rows(Creates(S), f)) = IF f \in S THEN 1 ELSE 0
  <2>1. Rows(Creates(S), f) = {i \in 1..n : g[i] = f}
    <3>1. \A i \in 1..n : Creates(S)[i] = CreateEvent(g[i])
      BY <1>3
    <3>2. NoOutcome.kind # "created"
      BY DEF NoOutcome
    <3>3. QED
      BY <1>4, <1>5, <3>1, <3>2 DEF Rows
  <2>2. CASE f \in S
    <3>1. PICK i \in 1..n : g[i] = f
      BY <1>2, <2>2
    <3>2. {j \in 1..n : g[j] = f} = {i}
      BY <1>2, <3>1
    <3>3. QED
      BY <2>1, <2>2, <3>2, FS_Singleton
  <2>3. CASE f \notin S
    <3>1. {j \in 1..n : g[j] = f} = {}
      BY <1>2, <2>3
    <3>2. QED
      BY <2>1, <2>3, <3>1, FS_EmptySet
  <2>4. QED
    BY <2>2, <2>3
<1>9. QED
  BY <1>6, <1>7, <1>8

\* Updates of the issues of a set of findings: updates is any such sequence.
LEMMA UpdatesFacts ==
  ASSUME NEW S \in SUBSET Findings, NEW h \in [S -> IssueIds],
         NEW u, u = [i \in DOMAIN InOrder(S) |-> UpdateEvent(InOrder(S)[i], h[InOrder(S)[i]])]
  PROVE  /\ u \in Seq(Event) /\ Fresh(u)
         /\ \A i \in DOMAIN u : u[i].type # "create_issue"
<1> DEFINE n == Cardinality(S)
           g == InOrder(S)
<1>1. IsFiniteSet(S)
  BY QueueAssumption, FS_Subset
<1>2. n \in Nat /\ g \in [1..n -> S]
  BY <1>1, InOrderFacts
<1>3. u = [i \in 1..n |-> UpdateEvent(g[i], h[g[i]])]
  BY <1>2
<1> HIDE DEF n, g
<1>4. ASSUME NEW i \in 1..n
      PROVE  /\ UpdateEvent(g[i], h[g[i]]) \in Event
             /\ UpdateEvent(g[i], h[g[i]]).type = "update_issue"
             /\ UpdateEvent(g[i], h[g[i]]).lock = NoSession
             /\ UpdateEvent(g[i], h[g[i]]).out = NoOutcome
  <2>1. g[i] \in Findings /\ "update_issue" \in Types /\ h[g[i]] \in IssueIds
    BY <1>2 DEF Types
  <2>2. QED
    BY <2>1, NewEventFacts DEF UpdateEvent
<1>5. u \in [1..n -> Event] /\ DOMAIN u = 1..n
  BY <1>3, <1>4
<1>6. u \in Seq(Event)
  BY <1>2, <1>5, SeqOf
<1>7. QED
  BY <1>3, <1>4, <1>6 DEF Fresh

(***************************************************************************)
(* What is written to a row leaves it a row.                               *)
(***************************************************************************)

Outcome == [kind : Outcomes, issue : IssueIds]

\* What the types say of a row.
LEMMA Fields ==
  ASSUME NEW e \in Event
  PROVE  /\ e.finding \in Findings /\ e.type \in Types /\ e.issue \in IssueIds
         /\ e.attempts \in 0..MaxAttempts /\ e.lock \in Sessions \cup {NoSession}
         /\ e.out \in Outcome /\ e.out.kind \in Outcomes /\ e.out.issue \in IssueIds
BY DEF Event, Outcome

\* A row whose back-off ends stays the row it was.
LEMMA WithWaiting ==
  ASSUME NEW e \in Event
  PROVE  LET d == [e EXCEPT !.waiting = FALSE]
         IN  /\ d \in Event /\ d.finding = e.finding /\ d.type = e.type
             /\ d.lock = e.lock /\ d.out = e.out
BY DEF Event

\* A row with an answer stays the row it was.
LEMMA WithAnswer ==
  ASSUME NEW e \in Event, NEW o \in Outcome
  PROVE  LET d == [e EXCEPT !.out = o]
         IN  /\ d \in Event /\ d.finding = e.finding /\ d.type = e.type
             /\ d.lock = e.lock /\ d.out = o
BY DEF Event, Outcome

\* A row that is given back has no session and no answer.
LEMMA WithoutLock ==
  ASSUME NEW e \in Event
  PROVE  LET d == [e EXCEPT !.lock = NoSession, !.out = NoOutcome, !.batch = FALSE]
         IN  /\ d \in Event /\ d.finding = e.finding /\ d.type = e.type
             /\ d.lock = NoSession /\ d.out = NoOutcome
<1>1. NoOutcome \in Outcome
  BY QueueAssumption DEF NoOutcome, Outcome, Outcomes, IssueIds, NoIssue
<1>2. QED
  BY <1>1 DEF Event, Outcome

(***************************************************************************)
(* Issues and the findings they answer for.                                *)
(***************************************************************************)

\* find_existing_issue_*: what is found is an issue the finding shares a key with.
LEMMA MatchFacts ==
  ASSUME issues \in Seq(Issue), Len(issues) <= MaxIssues, NEW f \in Findings
  PROVE  /\ Match(f) \in IssueIds
         /\ Match(f) # NoIssue => Match(f) \in DOMAIN issues /\ OwnIssue(f, Match(f))
<1> DEFINE keys == {n \in DOMAIN KeysOf[f] : Hits(f, n) # {}}
<1>1. DOMAIN issues \in SUBSET Nat /\ DOMAIN issues \in SUBSET IssueIds /\ NoIssue \in IssueIds
  <2>1. Len(issues) \in Nat /\ DOMAIN issues = 1..Len(issues) /\ MaxIssues \in Nat
    BY QueueAssumption
  <2>2. \A i \in 1..Len(issues) : i \in 0..MaxIssues
    BY <2>1
  <2>3. QED
    BY <2>1, <2>2 DEF IssueIds, NoIssue
<1>2. CASE keys = {}
  BY <1>1, <1>2 DEF Match
<1>3. CASE keys # {}
  <2>1. keys \in SUBSET Nat
    BY QueueAssumption
  <2>2. First(keys) \in keys
    BY <1>3, <2>1, LeastOf DEF First
  <2> DEFINE n == First(keys)
  <2>3. n \in DOMAIN KeysOf[f] /\ Hits(f, n) # {}
    BY <2>2
  <2>4. Hits(f, n) \in SUBSET Nat
    BY <1>1 DEF Hits
  <2>5. First(Hits(f, n)) \in Hits(f, n)
    BY <2>3, <2>4, LeastOf DEF First
  <2>6. Match(f) = First(Hits(f, n))
    <3> DEFINE found == [k \in keys |-> First(Hits(f, k))]
    <3>1. Match(f) = found[n]
      BY <1>3 DEF Match
    <3> HIDE DEF keys, n
    <3>2. n \in keys
      BY <2>2 DEF n
    <3>3. QED
      BY <3>1, <3>2
  <2>7. Match(f) \in DOMAIN issues /\ Carries(Match(f), f, n)
    BY <2>5, <2>6 DEF Hits
  <2>8. OwnIssue(f, Match(f))
    BY <2>3, <2>7 DEF Carries, OwnIssue
  <2>9. QED
    BY <1>1, <2>7, <2>8
<1>4. QED
  BY <1>2, <1>3

\* The tracker makes issues and deletes them, and never changes what one is for.
IssuesGrow ==
  /\ mode' = mode
  /\ \A i \in DOMAIN issues : i \in DOMAIN issues' /\ issues'[i].for = issues[i].for

\* OwnIssue, of any sequence of issues.
OwnIn(iss, f, i) ==
  LET g == iss[i].for IN f = g \/ \E n \in DOMAIN KeysOf[f] : SharedKey(f, g, n)

\* An issue stays a finding's own, because the tracker never changes what it is for.
LEMMA OwnIssueKept ==
  ASSUME IssuesGrow, NEW f, NEW i \in DOMAIN issues, OwnIssue(f, i)
  PROVE  i \in DOMAIN issues' /\ OwnIn(issues', f, i)
BY DEF IssuesGrow, OwnIssue, OwnIn

(***************************************************************************)
(* The inductive invariant.  What a session would commit to a row is       *)
(* sound: only creates find or make issues, the issue is the finding's     *)
(* own, and a row nobody holds has no outcome.                             *)
(***************************************************************************)
RowSound(e) ==
  /\ e.lock = NoSession => e.out = NoOutcome
  /\ e.out.kind \in {"create", "linked", "created", "left"} => e.type = "create_issue"
  /\ e.out.kind = "done" => e.type # "create_issue"
  /\ e.out.kind \in {"linked", "created"} =>
       e.out.issue \in DOMAIN issues /\ OwnIssue(e.finding, e.out.issue)

RowsSound == \A i \in DOMAIN events : RowSound(events[i])

IInv == QueueSound /\ RowsSound /\ IssuePerCreate

\* The variables whose types a step can only disturb by assigning to them.
Typed ==
  /\ status \in [Findings -> Statuses]
  /\ link \in [Findings -> [issue : IssueIds, uuid : BOOLEAN]]
  /\ sync \in [Findings -> {"none", "pending_sync", "synced", "sync_failed"}]
  /\ corrected \subseteq Findings /\ picked \subseteq Findings
  /\ phase \in [Sessions -> Phases] /\ task \in Stages
  /\ configured \in BOOLEAN /\ mode \in Modes
  /\ faults \in 0..MaxFaults /\ edits \in 0..MaxEdits
Tables ==
  /\ events \in Seq(Event) /\ issues \in Seq(Issue) /\ Len(issues) <= MaxIssues
  /\ granted \in [Findings -> Nat]
Counted == \A f \in Findings : Cardinality(MadeFor(issues, f)) + Cardinality(Rows(events, f)) <= granted[f]

\* The invariant by the variables a step can disturb, in this state and the next.
LEMMA Parts ==
  /\ IInv <=> Typed /\ Tables /\ LinksOwnIssue /\ SyncedMeansLinked /\ RowsSound /\ Counted
  /\ IInv' <=> Typed' /\ Tables' /\ LinksOwnIssue' /\ SyncedMeansLinked' /\ RowsSound' /\ Counted'
<1>1. TypeOK <=> Typed /\ Tables
  BY DEF TypeOK, Typed, Tables
<1>2. TypeOK' <=> Typed' /\ Tables'
  BY DEF TypeOK, Typed, Tables
<1>3. IssuePerCreate <=> Counted
  BY DEF IssuePerCreate, Counted, IssuesFor, CreatesFor, MadeFor, Rows
<1>4. IssuePerCreate' <=> Counted'
  BY DEF IssuePerCreate, Counted, IssuesFor, CreatesFor, MadeFor, Rows
<1>5. QED
  BY <1>1, <1>2, <1>3, <1>4 DEF IInv, QueueSound

\* A row that is sound with the issues there were is sound with those there are.
LEMMA RowSoundKept ==
  ASSUME IssuesGrow, NEW i \in DOMAIN events', RowSound(events'[i])
  PROVE  RowSound(events[i])'
<1> DEFINE e == events'[i]
<1>1. RowSound(e)
  OBVIOUS
<1> HIDE DEF e
<1>2. e.out.kind \in {"linked", "created"} =>
        e.out.issue \in DOMAIN issues' /\ OwnIn(issues', e.finding, e.out.issue)
  BY <1>1, OwnIssueKept DEF RowSound
<1>3. mode' = mode
  BY DEF IssuesGrow
<1>4. QED
  BY <1>1, <1>2, <1>3 DEF RowSound, OwnIssue, OwnIn, SharedKey, e

\* Rows that are sound for the issues of now are so for those of the next state.
LEMMA RowsSoundKept ==
  ASSUME IssuesGrow, \A i \in DOMAIN events' : RowSound(events'[i])
  PROVE  RowsSound'
BY RowSoundKept DEF RowsSound

(***************************************************************************)
(* The kinds of steps.                                                     *)
(***************************************************************************)

\* Rows are enqueued, and every create among them is granted.
LEMMA Enqueued ==
  ASSUME IInv, NEW new \in Seq(Event), Fresh(new),
         events' = events \o new, issues' = issues, mode' = mode,
         granted' \in [Findings -> Nat],
         \A f \in Findings : granted'[f] = granted[f] + Cardinality(Rows(new, f))
  PROVE  Tables' /\ RowsSound' /\ Counted'
<1>1. Tables /\ RowsSound /\ Counted
  BY Parts
<1>2. /\ events \in Seq(Event)
      /\ events' \in Seq(Event) /\ Len(events) \in Nat /\ Len(new) \in Nat
      /\ DOMAIN events' = 1..(Len(events) + Len(new))
      /\ \A i \in 1..Len(events) : events'[i] = events[i]
      /\ \A i \in 1..Len(new) : events'[Len(events) + i] = new[i]
      /\ DOMAIN events = 1..Len(events) /\ DOMAIN new = 1..Len(new)
  BY <1>1 DEF Tables
<1>3. Tables'
  BY <1>1, <1>2 DEF Tables
<1>4. RowsSound'
  <2>1. ASSUME NEW i \in DOMAIN events' PROVE RowSound(events'[i])
    <3>1. CASE i \in 1..Len(events)
      BY <1>1, <1>2, <3>1 DEF RowsSound
    <3>2. CASE i \notin 1..Len(events)
      <4>1. i - Len(events) \in 1..Len(new) /\ Len(events) + (i - Len(events)) = i
        BY <1>2, <3>2
      <4>2. events'[i] = new[i - Len(events)]
        BY <1>2, <4>1
      <4>3. events'[i].lock = NoSession /\ events'[i].out = NoOutcome
        BY <1>2, <4>1, <4>2 DEF Fresh
      <4>4. QED
        BY <4>3 DEF RowSound, NoOutcome
    <3>3. QED
      BY <3>1, <3>2
  <2>2. QED
    BY <2>1, RowsSoundKept DEF IssuesGrow
<1>5. Counted'
  <2>1. ASSUME NEW f \in Findings
        PROVE  Cardinality(MadeFor(issues', f)) + Cardinality(Rows(events', f)) <= granted'[f]
    <3>1. Cardinality(Rows(events', f)) = Cardinality(Rows(events, f)) + Cardinality(Rows(new, f))
      BY <1>2, RowsConcat
    <3>2. /\ Cardinality(Rows(events, f)) \in Nat /\ Cardinality(Rows(new, f)) \in Nat
          /\ Cardinality(MadeFor(issues, f)) \in Nat
      BY <1>1, RowsFinite, MadeFinite DEF Tables
    <3>3. Cardinality(MadeFor(issues, f)) + Cardinality(Rows(events, f)) <= granted[f]
      BY <1>1 DEF Counted
    <3>4. granted[f] \in Nat /\ granted'[f] = granted[f] + Cardinality(Rows(new, f))
      BY <1>1 DEF Tables
    <3>5. issues' = issues
      OBVIOUS
    <3>6. QED
      BY <3>1, <3>2, <3>3, <3>4, <3>5
  <2>2. QED
    BY <2>1 DEF Counted
<1>6. QED
  BY <1>3, <1>4, <1>5

\* No creates are enqueued.
LEMMA EnqueuedOthers ==
  ASSUME IInv, NEW new \in Seq(Event), Fresh(new),
         \A i \in DOMAIN new : new[i].type # "create_issue",
         events' = events \o new, issues' = issues, mode' = mode, granted' = granted
  PROVE  Tables' /\ RowsSound' /\ Counted'
<1>1. granted \in [Findings -> Nat]
  BY Parts DEF Tables
<1>2. \A f \in Findings : granted[f] = granted[f] + Cardinality(Rows(new, f))
  BY <1>1, NoCreates
<1>3. QED
  BY <1>1, <1>2, Enqueued

\* One create is enqueued, and granted.
LEMMA EnqueuedOne ==
  ASSUME IInv, NEW f \in Findings,
         events' = Append(events, CreateEvent(f)), issues' = issues, mode' = mode,
         granted' = [granted EXCEPT ![f] = @ + 1]
  PROVE  Tables' /\ RowsSound' /\ Counted'
<1> DEFINE e == CreateEvent(f)
           new == <<e>>
<1>1. /\ e \in Event /\ e.finding = f /\ e.type = "create_issue"
      /\ e.lock = NoSession /\ e.out = NoOutcome
  <2>1. "create_issue" \in Types /\ NoIssue \in IssueIds
    BY QueueAssumption DEF Types, NoIssue, IssueIds
  <2>2. QED
    BY <2>1, NewEventFacts DEF CreateEvent
<1> HIDE DEF e
<1>2. new \in Seq(Event) /\ DOMAIN new = {1} /\ new[1] = e
  BY <1>1
<1>3. Fresh(new)
  BY <1>1, <1>2 DEF Fresh
<1>4. Tables
  BY Parts
<1>5. events' = events \o new
  BY <1>1, <1>4 DEF Tables, e
<1>6. ASSUME NEW g \in Findings
      PROVE  Cardinality(Rows(new, g)) = IF g = f THEN 1 ELSE 0
  <2>1. CASE g = f
    <3>1. Rows(new, g) = {1}
      BY <1>1, <1>2, <2>1 DEF Rows, NoOutcome
    <3>2. QED
      BY <2>1, <3>1, FS_Singleton
  <2>2. CASE g # f
    <3>1. Rows(new, g) = {}
      BY <1>1, <1>2, <2>2 DEF Rows
    <3>2. QED
      BY <2>2, <3>1, FS_EmptySet
  <2>3. QED
    BY <2>1, <2>2
<1> HIDE DEF new
<1>7. granted' \in [Findings -> Nat]
  BY <1>4 DEF Tables
<1>8. \A g \in Findings : granted'[g] = granted[g] + Cardinality(Rows(new, g))
  BY <1>4, <1>6 DEF Tables
<1>9. QED
  BY <1>2, <1>3, <1>5, <1>7, <1>8, Enqueued

\* A set of findings is enqueued, and granted.
LEMMA EnqueuedSet ==
  ASSUME IInv, NEW S \in SUBSET Findings,
         events' = events \o Creates(S), issues' = issues, mode' = mode,
         granted' = [f \in Findings |-> IF f \in S THEN granted[f] + 1 ELSE granted[f]]
  PROVE  Tables' /\ RowsSound' /\ Counted'
<1>1. /\ Creates(S) \in Seq(Event) /\ Fresh(Creates(S))
      /\ \A f \in Findings :
           Cardinality(Rows(Creates(S), f)) = IF f \in S THEN 1 ELSE 0
  BY CreatesFacts
<1>2. granted \in [Findings -> Nat]
  BY Parts DEF Tables
<1>3. granted' \in [Findings -> Nat]
  BY <1>2
<1>4. \A f \in Findings : granted'[f] = granted[f] + Cardinality(Rows(Creates(S), f))
  BY <1>1, <1>2
<1>5. QED
  BY <1>1, <1>3, <1>4, Enqueued

\* The rows stay where they are; none makes an issue it has made before.
LEMMA InPlace ==
  ASSUME IInv, events' \in [DOMAIN events -> Event],
         issues' = issues, mode' = mode, granted' = granted,
         \A i \in DOMAIN events : RowSound(events'[i]),
         \A i \in DOMAIN events : /\ events'[i].finding = events[i].finding
                                  /\ events'[i].type = events[i].type,
         \A i \in DOMAIN events : events[i].out.kind = "created" => events'[i].out.kind = "created"
  PROVE  Tables' /\ RowsSound' /\ Counted'
<1>1. Tables /\ RowsSound /\ Counted
  BY Parts
<1>2. DOMAIN events' = DOMAIN events /\ events' \in Seq(Event)
  <2>1. Len(events) \in Nat /\ DOMAIN events = 1..Len(events)
    BY <1>1 DEF Tables
  <2>2. QED
    BY <2>1, SeqOf
<1>3. Tables'
  BY <1>1, <1>2 DEF Tables
<1>4. RowsSound'
  BY <1>2, RowsSoundKept DEF IssuesGrow
<1>5. Counted'
  <2>1. ASSUME NEW f \in Findings
        PROVE  Cardinality(MadeFor(issues', f)) + Cardinality(Rows(events', f)) <= granted'[f]
    <3>1. Rows(events', f) \in SUBSET Rows(events, f)
      BY <1>2 DEF Rows
    <3>2. /\ Cardinality(Rows(events, f)) \in Nat /\ Cardinality(MadeFor(issues, f)) \in Nat
          /\ IsFiniteSet(Rows(events, f))
      BY <1>1, RowsFinite, MadeFinite DEF Tables
    <3>3. /\ Cardinality(Rows(events', f)) <= Cardinality(Rows(events, f))
          /\ Cardinality(Rows(events', f)) \in Nat
      BY <3>1, <3>2, FS_Subset, FS_CardinalityType
    <3>4. Cardinality(MadeFor(issues, f)) + Cardinality(Rows(events, f)) <= granted[f]
      BY <1>1 DEF Counted
    <3>5. granted[f] \in Nat /\ granted' = granted /\ issues' = issues
      BY <1>1 DEF Tables
    <3>6. QED
      BY <3>2, <3>3, <3>4, <3>5
  <2>2. QED
    BY <2>1 DEF Counted
<1>6. QED
  BY <1>3, <1>4, <1>5

\* A step that touches neither rows nor issues.
LEMMA TablesKept ==
  ASSUME IInv, UNCHANGED <<events, issues, granted, mode>>
  PROVE  Tables' /\ RowsSound' /\ Counted'
<1>1. Tables /\ RowsSound /\ Counted
  BY Parts
<1>2. Tables' /\ Counted'
  BY <1>1 DEF Tables, Counted
<1>3. \A i \in DOMAIN events' : RowSound(events'[i])
  BY <1>1 DEF RowsSound
<1>4. QED
  BY <1>2, <1>3, RowsSoundKept DEF IssuesGrow

\* Links that stay, go, or point at an own issue.
LEMMA LinksKept ==
  ASSUME LinksOwnIssue, IssuesGrow,
         \A f \in Findings :
           \/ link'[f] = link[f] \/ link'[f] = NoLink
           \/ link'[f].issue \in DOMAIN issues /\ OwnIssue(f, link'[f].issue)
  PROVE  LinksOwnIssue'
<1>1. ASSUME NEW f \in Findings, link'[f] # NoLink
      PROVE  link'[f].issue \in DOMAIN issues' /\ OwnIssue(f, link[f].issue)'
  <2> DEFINE i == link'[f].issue
  <2>1. i \in DOMAIN issues /\ OwnIssue(f, i)
    <3>1. CASE link'[f] = link[f]
      BY <1>1, <3>1 DEF LinksOwnIssue, Linked
    <3>2. CASE i \in DOMAIN issues /\ OwnIssue(f, i)
      BY <3>2
    <3>3. QED
      BY <1>1, <3>1, <3>2
  <2> HIDE DEF i
  <2>2. i \in DOMAIN issues' /\ OwnIn(issues', f, i)
    BY <2>1, OwnIssueKept
  <2>3. mode' = mode
    BY DEF IssuesGrow
  <2>4. QED
    BY <2>2, <2>3 DEF OwnIssue, OwnIn, SharedKey, i
<1>2. QED
  BY <1>1 DEF LinksOwnIssue, Linked

\* Links stay, and nothing becomes synced.
LEMMA LinksSame ==
  ASSUME IInv, IssuesGrow, link' = link,
         \A f \in Findings : sync'[f] = "synced" => sync[f] = "synced"
  PROVE  LinksOwnIssue' /\ SyncedMeansLinked'
<1>1. LinksOwnIssue /\ SyncedMeansLinked
  BY Parts
<1>2. LinksOwnIssue'
  BY <1>1, LinksKept
<1>3. SyncedMeansLinked'
  BY <1>1 DEF SyncedMeansLinked, Linked
<1>4. QED
  BY <1>2, <1>3

(***************************************************************************)
(* Imports, reviewers and admins.                                          *)
(***************************************************************************)

\* A new finding gets at most the one create it is granted.
LEMMA NewFindingKeeps ==
  ASSUME IInv, NEW f \in Findings, NewFinding(f)
  PROVE  IInv'
<1>1. Typed
  BY Parts
<1>2. /\ status' = [status EXCEPT ![f] = "Open"]
      /\ UNCHANGED <<link, corrected, issues, phase, task, picked, configured, mode, faults, edits>>
      /\ \/ /\ events' = Append(events, CreateEvent(f))
            /\ sync' = [sync EXCEPT ![f] = "pending_sync"]
            /\ granted' = [granted EXCEPT ![f] = @ + 1]
         \/ UNCHANGED <<events, sync, granted>>
  BY DEF NewFinding, sessionVars, settingVars
<1>3. Tables' /\ RowsSound' /\ Counted'
  BY <1>2, EnqueuedOne, TablesKept
<1>4. sync' \in [Findings -> {"none", "pending_sync", "synced", "sync_failed"}]
      /\ \A g \in Findings : sync'[g] = "synced" => sync[g] = "synced"
  BY <1>1, <1>2 DEF Typed
<1>5. Typed'
  BY <1>1, <1>2, <1>4 DEF Typed, Statuses
<1>6. LinksOwnIssue' /\ SyncedMeansLinked'
  BY <1>2, <1>4, LinksSame DEF IssuesGrow
<1>7. QED
  BY <1>3, <1>5, <1>6, Parts

\* Rows that are typed, nobody's and no creates.
Others(evs) ==
  evs \in Seq(Event) /\ Fresh(evs) /\ \A i \in DOMAIN evs : evs[i].type # "create_issue"

\* Rows that are no creates, one sequence after the other.
LEMMA OthersConcat ==
  ASSUME NEW s, NEW t, Others(s), Others(t)
  PROVE  Others(s \o t)
<1>1. /\ s \in Seq(Event) /\ t \in Seq(Event) /\ s \o t \in Seq(Event)
      /\ Len(s) \in Nat /\ Len(t) \in Nat
      /\ DOMAIN (s \o t) = 1..(Len(s) + Len(t))
      /\ \A i \in 1..Len(s) : (s \o t)[i] = s[i]
      /\ \A i \in 1..Len(t) : (s \o t)[Len(s) + i] = t[i]
      /\ DOMAIN s = 1..Len(s) /\ DOMAIN t = 1..Len(t)
  BY DEF Others
<1>2. ASSUME NEW i \in 1..(Len(s) + Len(t))
      PROVE  (\E j \in DOMAIN s : (s \o t)[i] = s[j]) \/ (\E j \in DOMAIN t : (s \o t)[i] = t[j])
  <2>1. CASE i \in 1..Len(s)
    BY <1>1, <2>1
  <2>2. CASE i \notin 1..Len(s)
    <3>1. i - Len(s) \in 1..Len(t) /\ Len(s) + (i - Len(s)) = i
      BY <1>1, <2>2
    <3>2. QED
      BY <1>1, <3>1
  <2>3. QED
    BY <2>1, <2>2
<1>3. QED
  BY <1>1, <1>2 DEF Others, Fresh

\* One new row that is no create.
LEMMA OthersOne ==
  ASSUME NEW f \in Findings, NEW type \in Types, type # "create_issue", NEW i \in IssueIds
  PROVE  Others(<<NewEvent(f, type, i)>>)
<1> DEFINE e == NewEvent(f, type, i)
<1>1. e \in Event /\ e.type = type /\ e.lock = NoSession /\ e.out = NoOutcome
  BY NewEventFacts
<1> HIDE DEF e
<1>2. Others(<<e>>)
  BY <1>1 DEF Others, Fresh
<1>3. QED
  BY <1>2 DEF e

\* No row is no create.
LEMMA OthersNone == Others(<< >>)
BY DEF Others, Fresh

\* Enqueueing rows that are no creates disturbs neither the counts nor the rows there are.
LEMMA OthersEnqueued ==
  ASSUME IInv, NEW new, Others(new),
         events' = events \o new, issues' = issues, mode' = mode, granted' = granted
  PROVE  Tables' /\ RowsSound' /\ Counted'
BY EnqueuedOthers DEF Others

\* A reviewer's change enqueues a comment, an update or a source event, and no create.
LEMMA UpdateFindingKeeps ==
  ASSUME IInv, NEW f \in Findings, NEW st \in {"Open", "Decided"},
         NEW updates \in {UpdateEvents(f), <<>>}, UpdateFinding(f, st, updates)
  PROVE  IInv'
<1> DEFINE new == DecisionEvents(f, st) \o SourceEvents(f, st) \o updates
<1>1. Typed
  BY Parts
<1>2. /\ status' = [status EXCEPT ![f] = st] /\ edits' = edits + 1 /\ edits < MaxEdits
      /\ events' = events \o new
      /\ UNCHANGED <<link, sync, corrected, issues, phase, task, picked, configured, mode, granted,
                     faults>>
  BY DEF UpdateFinding, Edited, sessionVars, settingVars
<1>3. link[f].issue \in IssueIds /\ NoIssue \in IssueIds
  BY <1>1, QueueAssumption DEF Typed, NoIssue, IssueIds
<1>4. Others(DecisionEvents(f, st))
  <2>1. "post_decision" \in Types
    BY DEF Types
  <2>2. QED
    BY <1>3, <2>1, OthersOne, OthersNone DEF DecisionEvents
<1>5. Others(SourceEvents(f, st))
  <2>1. "source_ignore" \in Types /\ "source_unignore" \in Types
    BY DEF Types
  <2>2. QED
    BY <1>3, <2>1, OthersOne, OthersNone DEF SourceEvents
<1>6. Others(updates)
  <2>1. "update_issue" \in Types
    BY DEF Types
  <2>2. Others(UpdateEvents(f)) /\ Others(<<>>)
    BY <1>3, <2>1, OthersOne, OthersNone DEF UpdateEvents, UpdateEvent
  <2>3. QED
    BY <2>2
<1>7. Others(new)
  BY <1>4, <1>5, <1>6, OthersConcat
<1> HIDE DEF new
<1>8. Tables' /\ RowsSound' /\ Counted'
  BY <1>2, <1>7, OthersEnqueued
<1>9. Typed'
  BY <1>1, <1>2, QueueAssumption DEF Typed, Statuses
<1>10. LinksOwnIssue' /\ SyncedMeansLinked'
  BY <1>2, LinksSame DEF IssuesGrow
<1>11. QED
  BY <1>8, <1>9, <1>10, Parts

\* Syncing one finding grants it the create it enqueues.
LEMMA SyncSingleKeeps ==
  ASSUME IInv, NEW f \in Findings, SyncSingle(f)
  PROVE  IInv'
<1>1. Typed /\ Tables
  BY Parts
<1>2. /\ edits' = edits + 1 /\ edits < MaxEdits
      /\ UNCHANGED <<status, link, corrected, issues, phase, task, picked, configured, mode, faults>>
      /\ \/ /\ events' = Append(events, UpdateEvent(f, link[f].issue))
            /\ UNCHANGED <<sync, granted>>
         \/ /\ events' = Append(events, CreateEvent(f))
            /\ sync' = [sync EXCEPT ![f] = "pending_sync"]
            /\ granted' = [granted EXCEPT ![f] = @ + 1]
  BY DEF SyncSingle, Edited, sessionVars, settingVars
<1>3. Tables' /\ RowsSound' /\ Counted'
  <2>1. CASE /\ events' = Append(events, UpdateEvent(f, link[f].issue))
             /\ UNCHANGED <<sync, granted>>
    <3> DEFINE e == UpdateEvent(f, link[f].issue)
    <3>1. link[f].issue \in IssueIds /\ "update_issue" \in Types
      BY <1>1 DEF Typed, Types
    <3>2. Others(<<e>>) /\ e \in Event
      BY <3>1, OthersOne, NewEventFacts DEF UpdateEvent
    <3> HIDE DEF e
    <3>3. events' = events \o <<e>>
      BY <1>1, <2>1, <3>2 DEF Tables, e
    <3>4. QED
      BY <1>2, <2>1, <3>2, <3>3, OthersEnqueued
  <2>2. CASE /\ events' = Append(events, CreateEvent(f))
             /\ granted' = [granted EXCEPT ![f] = @ + 1]
    BY <1>2, <2>2, EnqueuedOne
  <2>3. QED
    BY <1>2, <2>1, <2>2
<1>4. sync' \in [Findings -> {"none", "pending_sync", "synced", "sync_failed"}]
      /\ \A g \in Findings : sync'[g] = "synced" => sync[g] = "synced"
  BY <1>1, <1>2 DEF Typed
<1>5. Typed'
  BY <1>1, <1>2, <1>4, QueueAssumption DEF Typed
<1>6. LinksOwnIssue' /\ SyncedMeansLinked'
  BY <1>2, <1>4, LinksSame DEF IssuesGrow
<1>7. QED
  BY <1>3, <1>5, <1>6, Parts

\* reset_failed_tracker_events: attempts start anew, no row is added.
LEMMA ResetKeeps ==
  ASSUME IInv, ResetRows, issues' = issues, mode' = mode, granted' = granted, link' = link
  PROVE  /\ Tables' /\ RowsSound' /\ Counted' /\ LinksOwnIssue' /\ SyncedMeansLinked'
         /\ sync' \in [Findings -> {"none", "pending_sync", "synced", "sync_failed"}]
<1>1. Typed /\ Tables /\ RowsSound
  BY Parts
<1>2. /\ events' = [i \in DOMAIN events |->
                     IF i \in Failed
                     THEN [events[i] EXCEPT !.status = "pending", !.attempts = 0]
                     ELSE events[i]]
      /\ \A f \in Findings : sync'[f] \in {"pending_sync", sync[f]}
      /\ sync' \in [Findings -> {"none", "pending_sync", "synced", "sync_failed"}]
  BY <1>1 DEF ResetRows, Typed
<1>3. ASSUME NEW i \in DOMAIN events
      PROVE  /\ events'[i] \in Event /\ events'[i].lock = events[i].lock
             /\ events'[i].out = events[i].out /\ events'[i].type = events[i].type
             /\ events'[i].finding = events[i].finding
  <2>1. events[i] \in Event
    BY <1>1 DEF Tables
  <2>2. 0 \in 0..MaxAttempts
    BY QueueAssumption
  <2>3. CASE i \in Failed
    <3>1. events'[i] = [events[i] EXCEPT !.status = "pending", !.attempts = 0]
      BY <1>2, <2>3
    <3>2. QED
      BY <2>1, <2>2, <3>1 DEF Event
  <2>4. CASE i \notin Failed
    BY <1>2, <2>1, <2>4
  <2>5. QED
    BY <2>3, <2>4
<1>4. events' \in [DOMAIN events -> Event]
  BY <1>2, <1>3
<1>5. \A i \in DOMAIN events : RowSound(events'[i])
  BY <1>1, <1>3 DEF RowsSound, RowSound
<1>6. Tables' /\ RowsSound' /\ Counted'
  BY <1>3, <1>4, <1>5, InPlace
<1>7. LinksOwnIssue' /\ SyncedMeansLinked'
  BY <1>2, LinksSame DEF IssuesGrow
<1>8. QED
  BY <1>2, <1>6, <1>7

\* Failed rows that are retried stay the rows they were.
LEMMA RetryKeeps ==
  ASSUME IInv, RetryFailed
  PROVE  IInv'
<1>1. /\ ResetRows /\ edits' = edits + 1 /\ edits < MaxEdits
      /\ UNCHANGED <<status, link, corrected, issues, phase, task, picked, configured, mode, granted,
                     faults>>
  BY DEF RetryFailed, Edited, sessionVars, settingVars
<1>2. /\ Tables' /\ RowsSound' /\ Counted' /\ LinksOwnIssue' /\ SyncedMeansLinked'
      /\ sync' \in [Findings -> {"none", "pending_sync", "synced", "sync_failed"}]
  BY <1>1, ResetKeeps
<1>3. Typed
  BY Parts
<1>4. Typed'
  BY <1>1, <1>2, <1>3, QueueAssumption DEF Typed
<1>5. QED
  BY <1>2, <1>4, Parts

\* Saving credentials resets failed rows.
LEMMA SaveTrackerKeeps ==
  ASSUME IInv, SaveTracker
  PROVE  IInv'
<1>1. /\ edits' = edits + 1 /\ edits < MaxEdits /\ configured' \in BOOLEAN
      /\ UNCHANGED <<status, link, corrected, issues, phase, task, picked, mode, granted, faults>>
      /\ ResetRows \/ UNCHANGED <<events, sync>>
  BY DEF SaveTracker, Edited, sessionVars
<1>2. Typed
  BY Parts
<1>3. /\ Tables' /\ RowsSound' /\ Counted' /\ LinksOwnIssue' /\ SyncedMeansLinked'
      /\ sync' \in [Findings -> {"none", "pending_sync", "synced", "sync_failed"}]
  <2>1. CASE ResetRows
    BY <1>1, <2>1, ResetKeeps
  <2>2. CASE UNCHANGED <<events, sync>>
    <3>1. Tables' /\ RowsSound' /\ Counted'
      BY <1>1, <2>2, TablesKept
    <3>2. LinksOwnIssue' /\ SyncedMeansLinked'
      BY <1>1, <2>2, LinksSame DEF IssuesGrow
    <3>3. QED
      BY <1>2, <2>2, <3>1, <3>2 DEF Typed
  <2>3. QED
    BY <1>1, <2>1, <2>2
<1>4. Typed'
  BY <1>1, <1>2, <1>3, QueueAssumption DEF Typed
<1>5. QED
  BY <1>3, <1>4, Parts

\* link_linear_issues_to_findings: what is linked is linked to an own issue.
LEMMA LinkMatchedKeeps ==
  ASSUME IInv, LinkMatched, issues' = issues, mode' = mode, granted' = granted
  PROVE  /\ Tables' /\ RowsSound' /\ Counted' /\ LinksOwnIssue' /\ SyncedMeansLinked'
         /\ link' \in [Findings -> [issue : IssueIds, uuid : BOOLEAN]]
         /\ sync' \in [Findings -> {"none", "pending_sync", "synced", "sync_failed"}]
<1> DEFINE g == InOrder(Matched)
           h == [f \in Matched |-> Match(f)]
           u == [i \in DOMAIN g |-> UpdateEvent(g[i], Match(g[i]))]
<1>1. Typed /\ Tables /\ LinksOwnIssue /\ SyncedMeansLinked
  BY Parts
<1>2. /\ link' = [f \in Findings |->
                    IF f \in Matched THEN [issue |-> Match(f), uuid |-> TRUE] ELSE link[f]]
      /\ sync' = [f \in Findings |-> IF f \in Matched THEN "synced" ELSE sync[f]]
      /\ events' = events \o u
  BY DEF LinkMatched
<1>3. \A f \in Matched : /\ f \in Findings /\ Match(f) # NoIssue /\ Match(f) \in IssueIds
                         /\ Match(f) \in DOMAIN issues /\ OwnIssue(f, Match(f))
  BY <1>1, MatchFacts DEF Matched, Tables
<1>4. Matched \in SUBSET Findings /\ h \in [Matched -> IssueIds]
  BY <1>3
<1>5. u = [i \in DOMAIN InOrder(Matched) |->
             UpdateEvent(InOrder(Matched)[i], h[InOrder(Matched)[i]])]
  <2>1. IsFiniteSet(Matched)
    BY <1>4, QueueAssumption, FS_Subset
  <2>2. \A i \in DOMAIN g : g[i] \in Matched
    BY <2>1, InOrderFacts
  <2>3. \A i \in DOMAIN g : h[g[i]] = Match(g[i])
    BY <2>2
  <2>4. QED
    BY <2>3
<1> HIDE DEF u, h, g
<1>6. Others(u)
  BY <1>4, <1>5, UpdatesFacts DEF Others
<1>7. Tables' /\ RowsSound' /\ Counted'
  BY <1>2, <1>6, OthersEnqueued
<1>8. link' \in [Findings -> [issue : IssueIds, uuid : BOOLEAN]]
  BY <1>1, <1>2, <1>3 DEF Typed
<1>9. sync' \in [Findings -> {"none", "pending_sync", "synced", "sync_failed"}]
  BY <1>1, <1>2 DEF Typed
<1>10. LinksOwnIssue'
  BY <1>1, <1>2, <1>3, LinksKept DEF IssuesGrow
<1>11. SyncedMeansLinked'
  <2>1. ASSUME NEW f \in Findings, sync'[f] = "synced" PROVE link'[f] # NoLink
    <3>1. CASE f \in Matched
      BY <1>2, <1>3, <3>1 DEF NoLink
    <3>2. CASE f \notin Matched
      BY <1>1, <1>2, <2>1, <3>2 DEF SyncedMeansLinked, Linked
    <3>3. QED
      BY <3>1, <3>2
  <2>2. QED
    BY <2>1 DEF SyncedMeansLinked, Linked
<1>12. QED
  BY <1>7, <1>8, <1>9, <1>10, <1>11

\* Linking gives findings issues that carry a key of theirs.
LEMMA LinkExistingKeeps ==
  ASSUME IInv, LinkExisting
  PROVE  IInv'
<1>1. /\ LinkMatched /\ edits' = edits + 1 /\ edits < MaxEdits
      /\ UNCHANGED <<status, corrected, issues, phase, task, picked, configured, mode, granted,
                     faults>>
  BY DEF LinkExisting, Edited, sessionVars, settingVars
<1>2. /\ Tables' /\ RowsSound' /\ Counted' /\ LinksOwnIssue' /\ SyncedMeansLinked'
      /\ link' \in [Findings -> [issue : IssueIds, uuid : BOOLEAN]]
      /\ sync' \in [Findings -> {"none", "pending_sync", "synced", "sync_failed"}]
  BY <1>1, LinkMatchedKeeps
<1>3. Typed'
  BY <1>1, <1>2, Parts, QueueAssumption DEF Typed
<1>4. QED
  BY <1>2, <1>3, Parts

\* backfill_unsynced_findings.
LEMMA EnqueueCreatesKeeps ==
  ASSUME IInv, NEW S \in SUBSET Findings, EnqueueCreates(S),
         issues' = issues, mode' = mode, link' = link
  PROVE  /\ Tables' /\ RowsSound' /\ Counted' /\ LinksOwnIssue' /\ SyncedMeansLinked'
         /\ sync' \in [Findings -> {"none", "pending_sync", "synced", "sync_failed"}]
<1>1. /\ events' = events \o Creates(S)
      /\ sync' = [f \in Findings |-> IF f \in S THEN "pending_sync" ELSE sync[f]]
      /\ granted' = [f \in Findings |-> IF f \in S THEN granted[f] + 1 ELSE granted[f]]
  BY DEF EnqueueCreates
<1>2. Tables' /\ RowsSound' /\ Counted'
  BY <1>1, EnqueuedSet
<1>3. sync' \in [Findings -> {"none", "pending_sync", "synced", "sync_failed"}]
  BY <1>1, Parts DEF Typed
<1>4. LinksOwnIssue' /\ SyncedMeansLinked'
  BY <1>1, LinksSame DEF IssuesGrow
<1>5. QED
  BY <1>2, <1>3, <1>4

\* A backfill grants the creates it enqueues.
LEMMA AdminBackfillKeeps ==
  ASSUME IInv, AdminBackfill
  PROVE  IInv'
<1>1. /\ EnqueueCreates(ToCreate(Unsynced)) /\ edits' = edits + 1 /\ edits < MaxEdits
      /\ UNCHANGED <<status, link, corrected, issues, phase, task, picked, configured, mode, faults>>
  BY DEF AdminBackfill, Edited, sessionVars, settingVars
<1>2. ToCreate(Unsynced) \in SUBSET Findings
  BY DEF Unsynced, Page, ToCreate
<1>3. /\ Tables' /\ RowsSound' /\ Counted' /\ LinksOwnIssue' /\ SyncedMeansLinked'
      /\ sync' \in [Findings -> {"none", "pending_sync", "synced", "sync_failed"}]
  BY <1>1, <1>2, EnqueueCreatesKeeps
<1>4. Typed'
  BY <1>1, <1>3, Parts, QueueAssumption DEF Typed
<1>5. QED
  BY <1>3, <1>4, Parts

(***************************************************************************)
(* The Celery task.                                                        *)
(***************************************************************************)

\* The workers may deliver.
LEMMA WorkersReady ==
  ASSUME phase \in [Sessions -> Phases]
  PROVE  [s \in Sessions |-> IF s \in Workers THEN "ready" ELSE phase[s]] \in [Sessions -> Phases]
BY DEF Phases

\* The task first unlinks what the tracker has deleted.
LEMMA StartTaskKeeps ==
  ASSUME IInv, StartTask
  PROVE  IInv'
<1> DEFINE gone == {f \in Findings : link[f].uuid /\ ~Exists(link[f].issue)}
<1>1. Typed /\ LinksOwnIssue /\ SyncedMeansLinked
  BY Parts
<1>2. /\ UNCHANGED <<corrected, picked, events, issues, configured, mode, granted, faults, edits>>
      /\ task' \in {"batches", "link"}
  BY DEF StartTask, settingVars
<1>3. \/ /\ phase' = [s \in Sessions |-> IF s \in Workers THEN "ready" ELSE phase[s]]
         /\ UNCHANGED <<status, link, sync>>
      \/ /\ link' = [f \in Findings |-> IF f \in gone THEN NoLink ELSE link[f]]
         /\ status' = [f \in Findings |-> IF f \in gone THEN "Open" ELSE status[f]]
         /\ sync' = [f \in Findings |-> IF f \in gone THEN "pending_sync" ELSE sync[f]]
         /\ UNCHANGED phase
  BY DEF StartTask
<1> HIDE DEF gone
<1>4. Tables' /\ RowsSound' /\ Counted'
  BY <1>2, TablesKept
<1>5. /\ link' \in [Findings -> [issue : IssueIds, uuid : BOOLEAN]]
      /\ status' \in [Findings -> Statuses]
      /\ sync' \in [Findings -> {"none", "pending_sync", "synced", "sync_failed"}]
      /\ phase' \in [Sessions -> Phases]
  <2>1. NoLink \in [issue : IssueIds, uuid : BOOLEAN]
    BY QueueAssumption DEF NoLink, NoIssue, IssueIds
  <2>2. QED
    BY <1>1, <1>3, <2>1, WorkersReady DEF Typed, Statuses
<1>6. Typed'
  BY <1>1, <1>2, <1>5 DEF Typed, Stages
<1>7. LinksOwnIssue'
  BY <1>1, <1>2, <1>3, LinksKept DEF IssuesGrow
<1>8. SyncedMeansLinked'
  BY <1>1, <1>3 DEF SyncedMeansLinked, Linked
<1>9. QED
  BY <1>4, <1>6, <1>7, <1>8, Parts

\* The task links, and reads what it will backfill.
LEMMA TaskLinkKeeps ==
  ASSUME IInv, TaskLink \/ TaskBackfill
  PROVE  IInv'
<1>1. /\ UNCHANGED <<status, corrected, issues, phase, configured, mode, granted, faults, edits>>
      /\ LinkMatched \/ UNCHANGED <<link, sync, events>>
      /\ picked' \subseteq Findings /\ task' \in {"corrections", "enqueue"}
  <2>1. /\ picked \subseteq Findings
        /\ \A rows : rows \subseteq Findings => ToCreate(rows) \subseteq Findings
        /\ Unsynced \subseteq Findings
    BY Parts DEF Typed, Unsynced, Page, ToCreate
  <2>2. QED
    BY <2>1 DEF TaskLink, TaskBackfill, settingVars
<1>2. Typed
  BY Parts
<1>3. /\ Tables' /\ RowsSound' /\ Counted' /\ LinksOwnIssue' /\ SyncedMeansLinked'
      /\ link' \in [Findings -> [issue : IssueIds, uuid : BOOLEAN]]
      /\ sync' \in [Findings -> {"none", "pending_sync", "synced", "sync_failed"}]
  <2>1. CASE LinkMatched
    BY <1>1, <2>1, LinkMatchedKeeps
  <2>2. CASE UNCHANGED <<link, sync, events>>
    <3>1. Tables' /\ RowsSound' /\ Counted'
      BY <1>1, <2>2, TablesKept
    <3>2. LinksOwnIssue' /\ SyncedMeansLinked'
      BY <1>1, <2>2, LinksSame DEF IssuesGrow
    <3>3. QED
      BY <1>2, <2>2, <3>1, <3>2 DEF Typed
  <2>3. QED
    BY <1>1, <2>1, <2>2
<1>4. Typed'
  BY <1>1, <1>2, <1>3 DEF Typed, Stages
<1>5. QED
  BY <1>3, <1>4, Parts

\* Corrections are updates.
LEMMA TaskCorrectionsKeeps ==
  ASSUME IInv, TaskCorrections
  PROVE  IInv'
<1> DEFINE g == InOrder(Uncorrected)
           h == [f \in Uncorrected |-> link[f].issue]
           u == [i \in DOMAIN g |-> UpdateEvent(g[i], link[g[i]].issue)]
<1>1. Typed
  BY Parts
<1>2. /\ UNCHANGED <<status, link, sync, corrected, issues, phase, picked, configured, mode, granted,
                     faults, edits>>
      /\ task' = "backfill" /\ (events' = events \o u \/ events' = events)
  BY DEF TaskCorrections, findingVars, settingVars
<1>3. Uncorrected \in SUBSET Findings /\ h \in [Uncorrected -> IssueIds]
  BY <1>1 DEF Uncorrected, Typed
<1>4. u = [i \in DOMAIN InOrder(Uncorrected) |->
             UpdateEvent(InOrder(Uncorrected)[i], h[InOrder(Uncorrected)[i]])]
  <2>1. IsFiniteSet(Uncorrected)
    BY <1>3, QueueAssumption, FS_Subset
  <2>2. \A i \in DOMAIN g : g[i] \in Uncorrected
    BY <2>1, InOrderFacts
  <2>3. \A i \in DOMAIN g : h[g[i]] = link[g[i]].issue
    BY <2>2
  <2>4. QED
    BY <2>3
<1> HIDE DEF u, h, g
<1>5. Others(u)
  BY <1>3, <1>4, UpdatesFacts DEF Others
<1>6. Tables' /\ RowsSound' /\ Counted'
  BY <1>2, <1>5, OthersEnqueued, TablesKept
<1>7. Typed'
  BY <1>1, <1>2 DEF Typed, Stages
<1>8. LinksOwnIssue' /\ SyncedMeansLinked'
  BY <1>2, LinksSame DEF IssuesGrow
<1>9. QED
  BY <1>6, <1>7, <1>8, Parts

\* The task's backfill grants the creates it enqueues, whatever it has read before.
LEMMA TaskEnqueueKeeps ==
  ASSUME IInv, TaskEnqueue
  PROVE  IInv'
<1>1. /\ EnqueueCreates(picked) /\ task' = "batches" /\ picked' = {}
      /\ phase' = [s \in Sessions |-> IF s \in Workers THEN "ready" ELSE phase[s]]
      /\ UNCHANGED <<status, link, corrected, issues, configured, mode, faults, edits>>
  BY DEF TaskEnqueue, settingVars
<1>2. Typed /\ picked \in SUBSET Findings
  BY Parts DEF Typed
<1>3. /\ Tables' /\ RowsSound' /\ Counted' /\ LinksOwnIssue' /\ SyncedMeansLinked'
      /\ sync' \in [Findings -> {"none", "pending_sync", "synced", "sync_failed"}]
  BY <1>1, <1>2, EnqueueCreatesKeeps
<1>4. phase' \in [Sessions -> Phases]
  BY <1>1, <1>2, WorkersReady DEF Typed
<1>5. Typed'
  BY <1>1, <1>2, <1>3, <1>4 DEF Typed, Stages
<1>6. QED
  BY <1>3, <1>5, Parts

\* The task ends when its sessions are done.
LEMMA EndTaskKeeps ==
  ASSUME IInv, EndTask
  PROVE  IInv'
<1>1. /\ task' = "idle"
      /\ UNCHANGED <<status, link, sync, corrected, events, issues, phase, picked, configured, mode,
                     granted, faults, edits>>
  BY DEF EndTask, findingVars, settingVars
<1>2. Tables' /\ RowsSound' /\ Counted'
  BY <1>1, TablesKept
<1>3. Typed'
  BY <1>1, Parts DEF Typed, Stages
<1>4. LinksOwnIssue' /\ SyncedMeansLinked'
  BY <1>1, LinksSame DEF IssuesGrow
<1>5. QED
  BY <1>2, <1>3, <1>4, Parts

(***************************************************************************)
(* A delivery session: claiming, looking up, delivering, dying.            *)
(***************************************************************************)

\* Every row is typed and sound.
LEMMA EventsTyped ==
  ASSUME IInv
  PROVE  /\ events \in Seq(Event) /\ Len(events) \in Nat /\ DOMAIN events = 1..Len(events)
         /\ \A i \in DOMAIN events : events[i] \in Event /\ RowSound(events[i])
BY Parts DEF Tables, RowsSound

\* A claim takes rows that nobody holds.
LEMMA ClaimKeeps ==
  ASSUME IInv, NEW s \in Sessions, Claim(s)
  PROVE  IInv'
<1>1. /\ phase' = [phase EXCEPT ![s] = "work"]
      /\ UNCHANGED <<status, link, sync, corrected, issues, task, picked, configured, mode, granted,
                     faults>>
      /\ events' = [i \in DOMAIN events |->
           IF i \notin Due THEN events[i]
           ELSE [events[i] EXCEPT !.lock = s,
                   !.out.kind = IF ~configured /\ events[i].type \in TrackerTypes
                                THEN "skip" ELSE "todo"]]
  BY DEF Claim, findingVars, settingVars
<1>2. ASSUME NEW i \in DOMAIN events
      PROVE  /\ events'[i] \in Event /\ RowSound(events'[i])
             /\ events'[i].finding = events[i].finding /\ events'[i].type = events[i].type
             /\ events[i].out.kind = "created" => events'[i].out.kind = "created"
  <2>1. events[i] \in Event /\ RowSound(events[i])
    BY EventsTyped
  <2>2. CASE i \notin Due
    BY <1>1, <2>1, <2>2
  <2>3. CASE i \in Due
    <3> DEFINE k == IF ~configured /\ events[i].type \in TrackerTypes THEN "skip" ELSE "todo"
               d == [events[i] EXCEPT !.lock = s, !.out.kind = k]
    <3>1. k \in {"skip", "todo"} /\ k \in Outcomes
      BY DEF Outcomes
    <3>2. events'[i] = d
      BY <1>1, <2>3
    <3> HIDE DEF k
    <3>3. /\ d \in Event /\ d.finding = events[i].finding /\ d.type = events[i].type
          /\ d.lock = s /\ d.out.kind = k
      BY <2>1, <3>1 DEF Event
    <3> HIDE DEF d
    <3>4. events[i].lock = NoSession
      BY <2>3 DEF Due
    <3>5. events[i].out.kind # "created"
      BY <2>1, <3>4 DEF RowSound, NoOutcome
    <3>6. RowSound(d)
      BY <3>1, <3>3, QueueAssumption DEF RowSound
    <3>7. QED
      BY <3>2, <3>3, <3>5, <3>6
  <2>4. QED
    BY <2>2, <2>3
<1>3. events' \in [DOMAIN events -> Event]
  <2>1. DOMAIN events' = DOMAIN events /\ events' = [i \in DOMAIN events |-> events'[i]]
    BY <1>1
  <2>2. QED
    BY <1>2, <2>1
<1>4. Tables' /\ RowsSound' /\ Counted'
  BY <1>1, <1>2, <1>3, InPlace
<1>5. Typed
  BY Parts
<1>6. phase' \in [Sessions -> Phases]
  BY <1>1, <1>5 DEF Typed, Phases
<1>7. edits' \in 0..MaxEdits
  <2>1. edits \in 0..MaxEdits /\ MaxEdits \in Nat
    BY <1>5, QueueAssumption DEF Typed
  <2>2. edits' = edits \/ (edits' = edits + 1 /\ edits < MaxEdits)
    BY DEF Claim, Edited
  <2>3. QED
    BY <2>1, <2>2
<1>8. Typed'
  BY <1>1, <1>5, <1>6, <1>7 DEF Typed
<1>9. LinksOwnIssue' /\ SyncedMeansLinked'
  BY <1>1, LinksSame DEF IssuesGrow
<1>10. QED
  BY <1>4, <1>8, <1>9, Parts

\* The rows the loop takes next are rows the session has yet to handle.
LEMMA HeadRunFacts ==
  ASSUME IInv, NEW s \in Sessions, Todo(s) # {}
  PROVE  /\ HeadRun(s) \in SUBSET Todo(s)
         /\ events[Next1(s)].type = "create_issue" =>
              \A i \in HeadRun(s) : events[i].type = "create_issue"
         /\ events[Next1(s)].type # "create_issue" =>
              \A i \in HeadRun(s) : events[i].type # "create_issue"
<1>1. Todo(s) \in SUBSET Nat
  <2>1. DOMAIN events \in SUBSET Nat
    BY EventsTyped
  <2>2. QED
    BY <2>1 DEF Todo, Mine
<1>2. Next1(s) \in Todo(s)
  BY <1>1, LeastOf DEF Next1, First
<1>3. HeadRun(s) \in SUBSET Todo(s)
  BY <1>2 DEF HeadRun
<1>4. ASSUME events[Next1(s)].type = "create_issue", NEW i \in HeadRun(s)
      PROVE  events[i].type = "create_issue"
  <2>1. i \in Todo(s) /\ i <= i
    BY <1>1, <1>3
  <2>2. HeadRun(s) = {j \in Todo(s) : \A k \in Todo(s) :
                        k <= j => events[k].type = events[Next1(s)].type}
    BY <1>4 DEF HeadRun, Batched
  <2>3. QED
    BY <1>4, <2>1, <2>2
<1>5. ASSUME events[Next1(s)].type # "create_issue", NEW i \in HeadRun(s)
      PROVE  events[i].type # "create_issue"
  <2>1. i \in Todo(s) /\ i <= i
    BY <1>1, <1>3
  <2>2. CASE events[Next1(s)].type \in Batched
    <3>1. HeadRun(s) = {j \in Todo(s) : \A k \in Todo(s) :
                          k <= j => events[k].type = events[Next1(s)].type}
      BY <2>2 DEF HeadRun
    <3>2. QED
      BY <1>5, <2>1, <3>1
  <2>3. CASE events[Next1(s)].type \notin Batched
    BY <1>5, <2>3 DEF HeadRun
  <2>4. QED
    BY <2>2, <2>3
<1>6. QED
  BY <1>3, <1>4, <1>5

\* A row to do is the session's and has no answer yet.
LEMMA TodoFacts ==
  ASSUME NEW s \in Sessions, NEW i \in Todo(s)
  PROVE  i \in DOMAIN events /\ events[i].lock = s /\ events[i].out.kind = "todo"
BY DEF Todo, Mine

\* A look-up answers a create with an issue that carries a key of its finding, or with none.
LEMMA LookKeeps ==
  ASSUME IInv, NEW s \in Sessions, Look(s)
  PROVE  IInv'
<1> DEFINE run == HeadRun(s)
           hit(f) == IF mode = "groups" THEN Match(f) ELSE NoIssue
           out(f) == IF hit(f) = NoIssue THEN [kind |-> "create", issue |-> NoIssue]
                     ELSE [kind |-> "linked", issue |-> hit(f)]
<1>1. /\ phase' = [phase EXCEPT ![s] = "found"]
      /\ UNCHANGED <<status, link, sync, corrected, issues, task, picked, configured, mode, granted,
                     faults, edits>>
      /\ Todo(s) # {} /\ events[Next1(s)].type = "create_issue"
  BY DEF Look, findingVars, settingVars
<1>2. events' = [i \in DOMAIN events |->
           IF i \in run THEN [events[i] EXCEPT !.batch = Cardinality(run) > 1,
                                               !.out = out(events[i].finding)]
           ELSE events[i]]
  BY DEF Look
<1>3. \A i \in run : /\ i \in DOMAIN events /\ events[i].lock = s
                     /\ events[i].out.kind = "todo" /\ events[i].type = "create_issue"
  BY <1>1, HeadRunFacts, TodoFacts
<1> HIDE DEF run
<1>4. ASSUME NEW f \in Findings
      PROVE  /\ out(f) \in Outcome /\ out(f).kind \in {"create", "linked"}
             /\ out(f).kind = "linked" =>
                  out(f).issue \in DOMAIN issues /\ OwnIssue(f, out(f).issue)
  <2>1. /\ Match(f) \in IssueIds
        /\ Match(f) # NoIssue => Match(f) \in DOMAIN issues /\ OwnIssue(f, Match(f))
    BY Parts, MatchFacts DEF Tables
  <2>2. NoIssue \in IssueIds
    BY QueueAssumption DEF NoIssue, IssueIds
  <2>3. CASE hit(f) = NoIssue
    BY <2>2, <2>3 DEF Outcome, Outcomes
  <2>4. CASE hit(f) # NoIssue
    <3>1. hit(f) = Match(f)
      BY <2>4
    <3>2. QED
      BY <2>1, <2>4, <3>1 DEF Outcome, Outcomes
  <2>5. QED
    BY <2>3, <2>4
<1> HIDE DEF out
<1>5. ASSUME NEW i \in DOMAIN events
      PROVE  /\ events'[i] \in Event /\ RowSound(events'[i])
             /\ events'[i].finding = events[i].finding /\ events'[i].type = events[i].type
             /\ events[i].out.kind = "created" => events'[i].out.kind = "created"
  <2>1. events[i] \in Event /\ RowSound(events[i])
    BY EventsTyped
  <2>2. CASE i \notin run
    BY <1>2, <2>1, <2>2
  <2>3. CASE i \in run
    <3> DEFINE b == Cardinality(run) > 1
               o == out(events[i].finding)
               d == [events[i] EXCEPT !.batch = b, !.out = o]
    <3>1. events'[i] = d
      BY <1>2, <2>3
    <3>2. events[i].finding \in Findings
      BY <2>1, Fields
    <3>3. /\ o \in Outcome /\ o.kind \in {"create", "linked"}
          /\ o.kind = "linked" => o.issue \in DOMAIN issues /\ OwnIssue(events[i].finding, o.issue)
      BY <1>4, <3>2
    <3>4. b \in BOOLEAN
      OBVIOUS
    <3> HIDE DEF b, o
    <3>d. d = [events[i] EXCEPT !.batch = b, !.out = o]
      OBVIOUS
    <3> HIDE DEF d
    <3>5. /\ d \in Event /\ d.finding = events[i].finding /\ d.type = events[i].type
          /\ d.lock = events[i].lock /\ d.out = o
      <4>1. events[i] \in Event /\ o \in Outcome /\ b \in BOOLEAN
        BY <2>1, <3>3, <3>4
      <4>2. QED
        BY <4>1, <3>d DEF Event, Outcome
    <3>6. RowSound(d)
      BY <1>3, <2>3, <3>3, <3>5, QueueAssumption DEF RowSound
    <3>7. QED
      BY <1>3, <2>3, <3>1, <3>5, <3>6
  <2>4. QED
    BY <2>2, <2>3
<1>6. events' \in [DOMAIN events -> Event]
  <2>1. DOMAIN events' = DOMAIN events /\ events' = [i \in DOMAIN events |-> events'[i]]
    BY <1>2
  <2>2. QED
    BY <1>5, <2>1
<1>7. Tables' /\ RowsSound' /\ Counted'
  BY <1>1, <1>5, <1>6, InPlace
<1>8. Typed'
  BY <1>1, Parts DEF Typed, Phases
<1>9. LinksOwnIssue' /\ SyncedMeansLinked'
  BY <1>1, LinksSame DEF IssuesGrow
<1>10. QED
  BY <1>7, <1>8, <1>9, Parts

\* A counted fault is within the bound.
LEMMA FaultKeeps ==
  ASSUME faults \in 0..MaxFaults, Fault \/ UNCHANGED faults
  PROVE  faults' \in 0..MaxFaults
BY QueueAssumption DEF Fault

\* A delivered update or comment makes no issue.
LEMMA DeliverKeeps ==
  ASSUME IInv, NEW s \in Sessions, Deliver(s)
  PROVE  IInv'
<1> DEFINE run == HeadRun(s)
<1>1. /\ Todo(s) # {}
      /\ UNCHANGED <<status, link, sync, corrected, issues, phase, task, picked, configured, mode,
                     granted, edits>>
      /\ Fault \/ UNCHANGED faults
      /\ events[Next1(s)].type # "create_issue"
  BY DEF Deliver, findingVars, settingVars
<1>2. PICK bad : events' = [i \in DOMAIN events |->
                IF i \in run
                THEN [events[i] EXCEPT !.batch = Cardinality(run) > 1,
                        !.out.kind = IF i \in bad THEN "error" ELSE "done"]
                ELSE events[i]]
  BY DEF Deliver
<1>3. \A i \in run : /\ i \in DOMAIN events /\ events[i].lock = s
                     /\ events[i].out.kind = "todo" /\ events[i].type # "create_issue"
  BY <1>1, HeadRunFacts, TodoFacts
<1> HIDE DEF run
<1>4. ASSUME NEW i \in DOMAIN events
      PROVE  /\ events'[i] \in Event /\ RowSound(events'[i])
             /\ events'[i].finding = events[i].finding /\ events'[i].type = events[i].type
             /\ events[i].out.kind = "created" => events'[i].out.kind = "created"
  <2>1. events[i] \in Event /\ RowSound(events[i])
    BY EventsTyped
  <2>2. CASE i \notin run
    BY <1>2, <2>1, <2>2
  <2>3. CASE i \in run
    <3> DEFINE b == Cardinality(run) > 1
               k == IF i \in bad THEN "error" ELSE "done"
               d == [events[i] EXCEPT !.batch = b, !.out.kind = k]
    <3>1. events'[i] = d
      BY <1>2, <2>3
    <3>2. b \in BOOLEAN /\ k \in {"error", "done"} /\ k \in Outcomes
      BY DEF Outcomes
    <3> HIDE DEF b, k
    <3>3. /\ d \in Event /\ d.finding = events[i].finding /\ d.type = events[i].type
          /\ d.lock = events[i].lock /\ d.out.kind = k
      BY <2>1, <3>2 DEF Event
    <3> HIDE DEF d
    <3>4. RowSound(d)
      BY <1>3, <2>3, <3>2, <3>3, QueueAssumption DEF RowSound
    <3>5. QED
      BY <1>3, <2>3, <3>1, <3>3, <3>4
  <2>4. QED
    BY <2>2, <2>3
<1>5. events' \in [DOMAIN events -> Event]
  <2>1. DOMAIN events' = DOMAIN events /\ events' = [i \in DOMAIN events |-> events'[i]]
    BY <1>2
  <2>2. QED
    BY <1>4, <2>1
<1>6. Tables' /\ RowsSound' /\ Counted'
  BY <1>1, <1>4, <1>5, InPlace
<1>7. Typed'
  BY <1>1, Parts, FaultKeeps DEF Typed
<1>8. LinksOwnIssue' /\ SyncedMeansLinked'
  BY <1>1, LinksSame DEF IssuesGrow
<1>9. QED
  BY <1>6, <1>7, <1>8, Parts

\* The end of a back-off makes waiting rows due.
LEMMA BackoffKeeps ==
  ASSUME IInv, BackoffElapses
  PROVE  IInv'
<1>1. /\ events' = [i \in DOMAIN events |-> [events[i] EXCEPT !.waiting = FALSE]]
      /\ UNCHANGED <<status, link, sync, corrected, issues, phase, task, picked, configured, mode,
                     granted, faults, edits>>
  BY DEF BackoffElapses, findingVars, sessionVars, settingVars
<1>2. ASSUME NEW i \in DOMAIN events
      PROVE  /\ events'[i] \in Event /\ RowSound(events'[i])
             /\ events'[i].finding = events[i].finding /\ events'[i].type = events[i].type
             /\ events[i].out.kind = "created" => events'[i].out.kind = "created"
  <2> DEFINE d == [events[i] EXCEPT !.waiting = FALSE]
  <2>1. events[i] \in Event /\ RowSound(events[i])
    BY EventsTyped
  <2>2. events'[i] = d
    BY <1>1
  <2>3. /\ d \in Event /\ d.finding = events[i].finding /\ d.type = events[i].type
        /\ d.lock = events[i].lock /\ d.out = events[i].out
    BY <2>1, WithWaiting
  <2> HIDE DEF d
  <2>4. RowSound(d)
    BY <2>1, <2>3 DEF RowSound
  <2>5. QED
    BY <2>2, <2>3, <2>4
<1>3. events' \in [DOMAIN events -> Event]
  <2>1. DOMAIN events' = DOMAIN events /\ events' = [i \in DOMAIN events |-> events'[i]]
    BY <1>1
  <2>2. QED
    BY <1>2, <2>1
<1>4. Tables' /\ RowsSound' /\ Counted'
  BY <1>1, <1>2, <1>3, InPlace
<1>5. Typed'
  BY <1>1, Parts DEF Typed
<1>6. LinksOwnIssue' /\ SyncedMeansLinked'
  BY <1>1, LinksSame DEF IssuesGrow
<1>7. QED
  BY <1>4, <1>5, <1>6, Parts

\* A deleted issue stays in its place.
LEMMA DeleteIssueKeeps ==
  ASSUME IInv, NEW n \in DOMAIN issues, DeleteIssue(n)
  PROVE  IInv'
<1>1. /\ issues' = [issues EXCEPT ![n].deleted = TRUE] /\ Fault
      /\ UNCHANGED <<status, link, sync, corrected, events, phase, task, picked, configured, mode,
                     granted, edits>>
  BY DEF DeleteIssue, findingVars, sessionVars, settingVars
<1>2. Tables /\ RowsSound /\ Counted
  BY Parts
<1>3. /\ DOMAIN issues = 1..Len(issues) /\ Len(issues) \in Nat
      /\ \A i \in DOMAIN issues : issues[i] \in Issue
  BY <1>2 DEF Tables
<1>4. /\ DOMAIN issues' = DOMAIN issues
      /\ \A i \in DOMAIN issues : issues'[i] \in Issue /\ issues'[i].for = issues[i].for
  BY <1>1, <1>3 DEF Issue
<1>5. issues' \in Seq(Issue) /\ Len(issues') = Len(issues)
  <2>1. issues' \in [1..Len(issues) -> Issue]
    <3>1. issues' = [i \in DOMAIN issues |-> issues'[i]]
      BY <1>1
    <3>2. QED
      BY <1>3, <1>4, <3>1
  <2>2. QED
    BY <1>3, <2>1, SeqOf
<1>6. IssuesGrow
  BY <1>1, <1>4 DEF IssuesGrow
<1>7. Tables'
  BY <1>1, <1>2, <1>5 DEF Tables
<1>8. RowsSound'
  BY <1>1, <1>2, <1>6, RowsSoundKept DEF RowsSound
<1>9. Counted'
  <2>1. \A f : MadeFor(issues', f) = MadeFor(issues, f)
    BY <1>4 DEF MadeFor
  <2>2. QED
    BY <1>1, <1>2, <2>1 DEF Counted
<1>10. Typed'
  BY <1>1, Parts, FaultKeeps DEF Typed
<1>11. LinksOwnIssue' /\ SyncedMeansLinked'
  BY <1>1, <1>6, LinksSame
<1>12. QED
  BY <1>7, <1>8, <1>9, <1>10, <1>11, Parts

\* A session that dies leaves its issues behind, and its rows may make others: that
\* is what is granted.
LEMMA AbortKeeps ==
  ASSUME IInv, NEW s \in Sessions, Abort(s)
  PROVE  IInv'
<1> DEFINE lost(f) == {i \in Mine(s) : events[i].finding = f /\ events[i].out.kind = "created"}
<1>1. /\ Fault /\ phase' = [phase EXCEPT ![s] = "idle"]
      /\ UNCHANGED <<status, link, sync, corrected, issues, task, picked, configured, mode, edits>>
      /\ events' = [i \in DOMAIN events |->
           IF events[i].lock = s
           THEN [events[i] EXCEPT !.lock = NoSession, !.out = NoOutcome, !.batch = FALSE]
           ELSE events[i]]
      /\ granted' = [f \in Findings |-> granted[f] + Cardinality(lost(f))]
  BY DEF Abort, findingVars, settingVars
<1>2. Tables /\ Counted
  BY Parts
<1>3. ASSUME NEW i \in DOMAIN events
      PROVE  /\ events'[i] \in Event /\ RowSound(events'[i])
             /\ events'[i].finding = events[i].finding /\ events'[i].type = events[i].type
             /\ events[i].lock # s => events'[i] = events[i]
  <2>1. events[i] \in Event /\ RowSound(events[i])
    BY EventsTyped
  <2>2. CASE events[i].lock # s
    BY <1>1, <2>1, <2>2
  <2>3. CASE events[i].lock = s
    <3> DEFINE d == [events[i] EXCEPT !.lock = NoSession, !.out = NoOutcome, !.batch = FALSE]
    <3>1. events'[i] = d
      BY <1>1, <2>3
    <3>2. /\ d \in Event /\ d.finding = events[i].finding /\ d.type = events[i].type
          /\ d.lock = NoSession /\ d.out = NoOutcome
      BY <2>1, WithoutLock
    <3> HIDE DEF d
    <3>3. RowSound(d)
      BY <3>2 DEF RowSound, NoOutcome
    <3>4. QED
      BY <2>3, <3>1, <3>2, <3>3
  <2>4. QED
    BY <2>2, <2>3
<1>4. DOMAIN events' = DOMAIN events /\ events' \in Seq(Event)
  <2>1. DOMAIN events' = DOMAIN events /\ events' = [i \in DOMAIN events |-> events'[i]]
    BY <1>1
  <2>2. events' \in [1..Len(events) -> Event]
    BY <1>3, <2>1, EventsTyped
  <2>3. QED
    BY <2>1, <2>2, EventsTyped, SeqOf
<1>5. ASSUME NEW f \in Findings
      PROVE  /\ Cardinality(lost(f)) \in Nat
             /\ Cardinality(Rows(events', f)) <= Cardinality(Rows(events, f)) + Cardinality(lost(f))
             /\ Cardinality(Rows(events', f)) \in Nat /\ Cardinality(Rows(events, f)) \in Nat
  <2> DEFINE L == lost(f)
  <2>1. L \in SUBSET (1..Len(events)) /\ Len(events) \in Nat
    BY EventsTyped DEF Mine
  <2>2. IsFiniteSet(L) /\ Cardinality(L) \in Nat
    BY <2>1, PlaceFacts
  <2>3. /\ IsFiniteSet(Rows(events, f)) /\ Cardinality(Rows(events, f)) \in Nat
        /\ Cardinality(Rows(events', f)) \in Nat
    BY <1>4, RowsFinite, EventsTyped
  <2>4. Rows(events', f) \in SUBSET (Rows(events, f) \cup L)
    <3>1. ASSUME NEW i \in Rows(events', f) PROVE i \in Rows(events, f) \/ i \in L
      <4>1. /\ i \in DOMAIN events /\ events'[i].finding = f
            /\ events'[i].type = "create_issue" /\ events'[i].out.kind # "created"
        BY <1>4, <3>1 DEF Rows
      <4>2. events[i].finding = f /\ events[i].type = "create_issue"
        BY <1>3, <4>1
      <4>3. CASE events[i].lock # s
        BY <1>3, <4>1, <4>2, <4>3 DEF Rows
      <4>4. CASE events[i].lock = s
        BY <4>1, <4>2, <4>4 DEF Rows, Mine
      <4>5. QED
        BY <4>3, <4>4
    <3>2. QED
      BY <3>1
  <2> HIDE DEF L
  <2>5. /\ IsFiniteSet(Rows(events, f) \cup L)
        /\ Cardinality(Rows(events, f) \cup L) =
             Cardinality(Rows(events, f)) + Cardinality(L) - Cardinality(Rows(events, f) \cap L)
    BY <2>2, <2>3, FS_Union
  <2>6. Cardinality(Rows(events, f) \cap L) \in Nat
    BY <2>3, FS_Intersection, FS_CardinalityType
  <2>7. Cardinality(Rows(events', f)) <= Cardinality(Rows(events, f) \cup L)
    BY <2>4, <2>5, FS_Subset
  <2>8. QED
    BY <2>2, <2>3, <2>5, <2>6, <2>7 DEF L
<1> HIDE DEF lost
<1>6. granted' \in [Findings -> Nat]
  <2>1. \A f \in Findings : granted[f] + Cardinality(lost(f)) \in Nat
    BY <1>2, <1>5 DEF Tables
  <2>2. QED
    BY <1>1, <2>1
<1>7. Tables'
  BY <1>1, <1>2, <1>4, <1>6 DEF Tables
<1>8. RowsSound'
  BY <1>1, <1>3, <1>4, RowsSoundKept DEF IssuesGrow
<1>9. Counted'
  <2>1. ASSUME NEW f \in Findings
        PROVE  Cardinality(MadeFor(issues', f)) + Cardinality(Rows(events', f)) <= granted'[f]
    <3>1. Cardinality(MadeFor(issues, f)) \in Nat /\ granted[f] \in Nat
      BY <1>2, MadeFinite DEF Tables
    <3>2. Cardinality(MadeFor(issues, f)) + Cardinality(Rows(events, f)) <= granted[f]
      BY <1>2 DEF Counted
    <3>3. granted'[f] = granted[f] + Cardinality(lost(f)) /\ issues' = issues
      BY <1>1
    <3>4. QED
      BY <1>5, <3>1, <3>2, <3>3
  <2>2. QED
    BY <2>1 DEF Counted
<1>10. Typed'
  BY <1>1, Parts, FaultKeeps DEF Typed, Phases
<1>11. LinksOwnIssue' /\ SyncedMeansLinked'
  BY <1>1, LinksSame DEF IssuesGrow
<1>12. QED
  BY <1>7, <1>8, <1>9, <1>10, <1>11, Parts

(***************************************************************************)
(* create_issues_batch: the rows sent are answered by the issues made.     *)
(***************************************************************************)

\* The rows sent to the tracker are creates that the session holds.
LEMMA SentFacts ==
  ASSUME IInv, NEW s \in Sessions
  PROVE  /\ Sent(s) \in SUBSET Wants(s) /\ Wants(s) \in SUBSET DOMAIN events
         /\ Sent(s) \in SUBSET (1..Len(events)) /\ Cardinality(Sent(s)) \in Nat
         /\ \A i \in Wants(s) : /\ events[i].lock = s /\ events[i].out.kind = "create"
                                /\ events[i].type = "create_issue"
<1>1. Sent(s) \in SUBSET Wants(s) /\ Wants(s) \in SUBSET DOMAIN events
  BY DEF Sent, Wants, Mine
<1>2. ASSUME NEW i \in Wants(s)
      PROVE  /\ events[i].lock = s /\ events[i].out.kind = "create"
             /\ events[i].type = "create_issue"
  <2>1. events[i].lock = s /\ events[i].out.kind = "create" /\ i \in DOMAIN events
    BY DEF Wants, Mine
  <2>2. QED
    BY <2>1, EventsTyped DEF RowSound
<1>3. Sent(s) \in SUBSET (1..Len(events)) /\ Len(events) \in Nat
  BY <1>1, EventsTyped
<1>4. QED
  BY <1>1, <1>2, <1>3, PlaceFacts

\* An answer is written to the rows that were sent, and to no other: the n-th of them
\* gets the n-th new issue.
LEMMA AnsweredFacts ==
  ASSUME IInv, NEW s \in Sessions, NEW kind \in {"created", "error"},
         kind = "created" => Len(issues) + Cardinality(Sent(s)) <= MaxIssues,
         events' = Answered(s, kind)
  PROVE  /\ DOMAIN events' = DOMAIN events /\ events' \in Seq(Event)
         /\ events' \in [DOMAIN events -> Event]
         /\ \A i \in DOMAIN events :
              /\ events'[i].finding = events[i].finding /\ events'[i].type = events[i].type
              /\ events'[i].lock = events[i].lock
              /\ i \notin Sent(s) => RowSound(events'[i])
              /\ i \in Sent(s) =>
                   events'[i].out = [kind |-> kind, issue |->
                     IF kind = "created" THEN Len(issues) + Place(Sent(s), i) ELSE NoIssue]
              /\ events[i].out.kind = "created" => events'[i].out.kind = "created"
<1> DEFINE o(i) == [kind |-> kind, issue |->
                      IF kind = "created" THEN Len(issues) + Place(Sent(s), i) ELSE NoIssue]
<1>1. events' = [i \in DOMAIN events |->
           IF i \in Sent(s) THEN [events[i] EXCEPT !.out = o(i)]
           ELSE IF i \in Wants(s) THEN [events[i] EXCEPT !.out.kind = "left"]
           ELSE events[i]]
  BY DEF Answered
<1>2. ASSUME NEW i \in Sent(s) PROVE o(i) \in Outcome /\ o(i).kind = kind
  <2>1. kind \in Outcomes /\ NoIssue \in IssueIds
    BY QueueAssumption DEF Outcomes, IssueIds, NoIssue
  <2>2. CASE kind = "error"
    BY <2>1, <2>2 DEF Outcome
  <2>3. CASE kind = "created"
    <3>1. Place(Sent(s), i) \in 1..Cardinality(Sent(s)) /\ Cardinality(Sent(s)) \in Nat
      BY SentFacts, EventsTyped, PlaceFacts
    <3>2. Len(issues) \in Nat /\ MaxIssues \in Nat
      BY Parts, QueueAssumption DEF Tables
    <3>3. Len(issues) + Place(Sent(s), i) \in IssueIds
      BY <2>3, <3>1, <3>2 DEF IssueIds
    <3>4. QED
      BY <2>1, <2>3, <3>3 DEF Outcome
  <2>4. QED
    BY <2>2, <2>3
<1> HIDE DEF o
<1>3. ASSUME NEW i \in DOMAIN events
      PROVE  /\ events'[i] \in Event
             /\ events'[i].finding = events[i].finding /\ events'[i].type = events[i].type
             /\ events'[i].lock = events[i].lock
             /\ i \notin Sent(s) => RowSound(events'[i])
             /\ i \in Sent(s) => events'[i].out = o(i)
             /\ events[i].out.kind = "created" => events'[i].out.kind = "created"
  <2>1. events[i] \in Event /\ RowSound(events[i])
    BY EventsTyped
  <2>2. CASE i \in Sent(s)
    <3> DEFINE d == [events[i] EXCEPT !.out = o(i)]
    <3>1. events'[i] = d
      BY <1>1, <2>2
    <3>2. o(i) \in Outcome
      BY <1>2, <2>2
    <3>3. /\ d \in Event /\ d.finding = events[i].finding /\ d.type = events[i].type
          /\ d.lock = events[i].lock /\ d.out = o(i)
      BY <2>1, <3>2, WithAnswer
    <3> HIDE DEF d
    <3>4. events[i].out.kind = "create"
      BY <2>2, SentFacts
    <3>5. QED
      BY <2>2, <3>1, <3>3, <3>4
  <2>3. CASE i \notin Sent(s) /\ i \in Wants(s)
    <3> DEFINE d == [events[i] EXCEPT !.out.kind = "left"]
    <3>1. events'[i] = d
      BY <1>1, <2>3
    <3>2. "left" \in Outcomes
      BY DEF Outcomes
    <3>3. /\ d \in Event /\ d.finding = events[i].finding /\ d.type = events[i].type
          /\ d.lock = events[i].lock /\ d.out.kind = "left"
      BY <2>1, <3>2 DEF Event
    <3> HIDE DEF d
    <3>4. events[i].lock = s /\ events[i].out.kind = "create" /\ events[i].type = "create_issue"
      BY <2>3, SentFacts
    <3>5. RowSound(d)
      BY <3>3, <3>4, QueueAssumption DEF RowSound
    <3>6. QED
      BY <2>3, <3>1, <3>3, <3>4, <3>5
  <2>4. CASE i \notin Sent(s) /\ i \notin Wants(s)
    BY <1>1, <2>1, <2>4
  <2>5. QED
    BY <2>2, <2>3, <2>4
<1>4. DOMAIN events' = DOMAIN events /\ events' \in [DOMAIN events -> Event]
  <2>1. DOMAIN events' = DOMAIN events /\ events' = [i \in DOMAIN events |-> events'[i]]
    BY <1>1
  <2>2. QED
    BY <1>3, <2>1
<1>5. events' \in Seq(Event)
  BY <1>4, EventsTyped, SeqOf
<1>6. QED
  BY <1>3, <1>4, <1>5 DEF o

\* The rows sent for a finding.
SentFor(s, f) == {i \in Sent(s) : events[i].finding = f}

\* One issue is made per row sent, for the finding of that row.
LEMMA NewIssuesFacts ==
  ASSUME IInv, NEW s \in Sessions
  PROVE  /\ NewIssues(s) \in Seq(Issue) /\ Len(NewIssues(s)) = Cardinality(Sent(s))
         /\ \A i \in Sent(s) : /\ Place(Sent(s), i) \in 1..Cardinality(Sent(s))
                               /\ NewIssues(s)[Place(Sent(s), i)].for = events[i].finding
         /\ \A f \in Findings :
              Cardinality(MadeFor(NewIssues(s), f)) <= Cardinality(SentFor(s, f))
<1> DEFINE S == Sent(s)
           m == Cardinality(S)
<1>1. S \in SUBSET (1..Len(events)) /\ Len(events) \in Nat /\ m \in Nat
      /\ S \in SUBSET DOMAIN events
  BY SentFacts, EventsTyped
<1>2. /\ \A n \in 1..m : Nth(S, n) \in S /\ Place(S, Nth(S, n)) = n
      /\ \A i \in S : Nth(S, Place(S, i)) = i
      /\ \A i \in S : Place(S, i) \in 1..m
  BY <1>1, NthFacts, PlaceFacts
<1>3. NewIssues(s) = [n \in 1..m |-> [for |-> events[Nth(S, n)].finding, deleted |-> FALSE]]
  BY DEF NewIssues
<1> HIDE DEF S, m
<1>4. ASSUME NEW n \in 1..m
      PROVE  [for |-> events[Nth(S, n)].finding, deleted |-> FALSE] \in Issue
  <2>1. Nth(S, n) \in DOMAIN events
    BY <1>1, <1>2
  <2>2. events[Nth(S, n)].finding \in Findings
    BY <2>1, EventsTyped, Fields
  <2>3. QED
    BY <2>2 DEF Issue
<1>5. NewIssues(s) \in Seq(Issue) /\ Len(NewIssues(s)) = m /\ DOMAIN NewIssues(s) = 1..m
  <2>1. NewIssues(s) \in [1..m -> Issue]
    BY <1>3, <1>4
  <2>2. QED
    BY <1>1, <2>1, SeqOf
<1>6. \A n \in 1..m : NewIssues(s)[n].for = events[Nth(S, n)].finding
  BY <1>3
<1>7. \A i \in S : NewIssues(s)[Place(S, i)].for = events[i].finding
  BY <1>2, <1>6
<1>8. ASSUME NEW f \in Findings
      PROVE  Cardinality(MadeFor(NewIssues(s), f)) <= Cardinality(SentFor(s, f))
  <2>1. MadeFor(NewIssues(s), f) \in SUBSET (1..Cardinality(S))
    BY <1>5 DEF MadeFor, m
  <2>2. SentFor(s, f) \in SUBSET S
    BY DEF SentFor, S
  <2>3. \A n \in MadeFor(NewIssues(s), f) : Nth(S, n) \in SentFor(s, f)
    BY <1>2, <1>5, <1>6 DEF MadeFor, SentFor, S
  <2>4. QED
    BY <1>1, <2>1, <2>2, <2>3, CountNth
<1>9. QED
  BY <1>2, <1>5, <1>7, <1>8 DEF S, m

\* The rows sent may still make an issue, until they are answered.
LEMMA SentForFacts ==
  ASSUME IInv, NEW s \in Sessions, NEW f \in Findings
  PROVE  /\ SentFor(s, f) \in SUBSET Rows(events, f)
         /\ IsFiniteSet(SentFor(s, f)) /\ Cardinality(SentFor(s, f)) \in Nat
<1>1. SentFor(s, f) \in SUBSET Rows(events, f)
  BY SentFacts DEF SentFor, Rows
<1>2. IsFiniteSet(Rows(events, f))
  BY EventsTyped, RowsFinite
<1>3. QED
  BY <1>1, <1>2, FS_Subset, FS_CardinalityType

\* The issues made follow those there are.
LEMMA IssuesMade ==
  ASSUME IInv, NEW s \in Sessions, issues' = issues \o NewIssues(s), mode' = mode,
         Len(issues) + Cardinality(Sent(s)) <= MaxIssues
  PROVE  /\ IssuesGrow /\ issues' \in Seq(Issue) /\ Len(issues') <= MaxIssues
         /\ \A i \in Sent(s) : /\ Len(issues) + Place(Sent(s), i) \in DOMAIN issues'
                               /\ issues'[Len(issues) + Place(Sent(s), i)].for = events[i].finding
         /\ \A f \in Findings :
              /\ Cardinality(MadeFor(issues', f)) <=
                   Cardinality(MadeFor(issues, f)) + Cardinality(SentFor(s, f))
              /\ Cardinality(MadeFor(issues', f)) \in Nat
<1> DEFINE t == NewIssues(s)
<1>1. /\ issues \in Seq(Issue) /\ t \in Seq(Issue) /\ Len(t) = Cardinality(Sent(s))
      /\ issues' = issues \o t
  BY Parts, NewIssuesFacts DEF Tables
<1>2. \A i \in Sent(s) : Place(Sent(s), i) \in 1..Len(t) /\ t[Place(Sent(s), i)].for = events[i].finding
  BY <1>1, NewIssuesFacts
<1>3. \A f \in Findings : Cardinality(MadeFor(t, f)) <= Cardinality(SentFor(s, f))
  BY NewIssuesFacts
<1> HIDE DEF t
<1>4. /\ issues' \in Seq(Issue) /\ Len(issues') = Len(issues) + Len(t)
      /\ Len(issues) \in Nat /\ Len(t) \in Nat
      /\ DOMAIN issues = 1..Len(issues) /\ DOMAIN issues' = 1..(Len(issues) + Len(t))
      /\ \A i \in 1..Len(issues) : issues'[i] = issues[i]
      /\ \A i \in 1..Len(t) : issues'[Len(issues) + i] = t[i]
  <2> DEFINE u == issues \o t
  <2>1. issues \in Seq(Issue) /\ t \in Seq(Issue)
    BY <1>1
  <2>2. /\ u \in Seq(Issue) /\ Len(u) = Len(issues) + Len(t)
        /\ Len(issues) \in Nat /\ Len(t) \in Nat
        /\ DOMAIN issues = 1..Len(issues) /\ DOMAIN u = 1..(Len(issues) + Len(t))
    BY <2>1
  <2>3. \A i \in 1..Len(issues) : u[i] = issues[i]
    BY <2>1
  <2>4. \A i \in 1..Len(t) : u[Len(issues) + i] = t[i]
    BY <2>1
  <2>5. issues' = u
    BY <1>1
  <2> HIDE DEF u
  <2>6. QED
    BY <2>2, <2>3, <2>4, <2>5
<1>5. IssuesGrow
  BY <1>4 DEF IssuesGrow
<1>6. ASSUME NEW i \in Sent(s)
      PROVE  /\ Len(issues) + Place(Sent(s), i) \in DOMAIN issues'
             /\ issues'[Len(issues) + Place(Sent(s), i)].for = events[i].finding
  <2>1. Place(Sent(s), i) \in 1..Len(t)
    BY <1>2
  <2>2. QED
    BY <1>2, <1>4, <2>1
<1>7. ASSUME NEW f \in Findings
      PROVE  /\ Cardinality(MadeFor(issues', f)) <=
                  Cardinality(MadeFor(issues, f)) + Cardinality(SentFor(s, f))
             /\ Cardinality(MadeFor(issues', f)) \in Nat
  <2>1. Cardinality(MadeFor(issues', f)) = Cardinality(MadeFor(issues, f)) + Cardinality(MadeFor(t, f))
    BY <1>1, MadeConcat
  <2>2. /\ Cardinality(MadeFor(issues, f)) \in Nat /\ Cardinality(MadeFor(t, f)) \in Nat
        /\ Cardinality(MadeFor(issues', f)) \in Nat
    BY <1>1, <1>4, MadeFinite
  <2>3. Cardinality(SentFor(s, f)) \in Nat
    BY SentForFacts
  <2>4. QED
    BY <1>3, <2>1, <2>2, <2>3
<1>8. QED
  BY <1>1, <1>4, <1>5, <1>6, <1>7

\* A call makes an issue for each row it sends, and each of those rows is one create less.
LEMMA CreateKeeps ==
  ASSUME IInv, NEW s \in Sessions, Create(s)
  PROVE  IInv'
<1>1. /\ phase' = [phase EXCEPT ![s] = "work"]
      /\ UNCHANGED <<status, link, sync, corrected, task, picked, configured, mode, edits>>
      /\ Fault \/ UNCHANGED faults
  BY DEF Create, findingVars, settingVars
<1>2. Tables /\ Counted
  BY Parts
<1>3. Tables' /\ RowsSound' /\ Counted' /\ IssuesGrow
  \* The tracker made the issues and answered.
  <2>1. CASE /\ Len(issues) + Cardinality(Sent(s)) <= MaxIssues
             /\ issues' = issues \o NewIssues(s) /\ events' = Answered(s, "created")
             /\ UNCHANGED granted
    <3>1. /\ DOMAIN events' = DOMAIN events /\ events' \in Seq(Event)
          /\ \A i \in DOMAIN events :
               /\ events'[i].finding = events[i].finding /\ events'[i].type = events[i].type
               /\ events'[i].lock = events[i].lock
               /\ i \notin Sent(s) => RowSound(events'[i])
               /\ i \in Sent(s) =>
                    events'[i].out = [kind |-> "created", issue |-> Len(issues) + Place(Sent(s), i)]
               /\ events[i].out.kind = "created" => events'[i].out.kind = "created"
      BY <2>1, AnsweredFacts
    <3>2. /\ IssuesGrow /\ issues' \in Seq(Issue) /\ Len(issues') <= MaxIssues
          /\ \A i \in Sent(s) : /\ Len(issues) + Place(Sent(s), i) \in DOMAIN issues'
                                /\ issues'[Len(issues) + Place(Sent(s), i)].for = events[i].finding
          /\ \A f \in Findings :
               /\ Cardinality(MadeFor(issues', f)) <=
                    Cardinality(MadeFor(issues, f)) + Cardinality(SentFor(s, f))
               /\ Cardinality(MadeFor(issues', f)) \in Nat
      BY <1>1, <2>1, IssuesMade
    <3>3. Tables'
      BY <1>2, <2>1, <3>1, <3>2 DEF Tables
    <3>4. RowsSound'
      <4>1. ASSUME NEW i \in DOMAIN events, i \in Sent(s) PROVE RowSound(events[i])'
        <5> DEFINE e == events'[i]
                   n == Len(issues) + Place(Sent(s), i)
        <5>1. e.out = [kind |-> "created", issue |-> n] /\ e.finding = events[i].finding
              /\ e.lock = s /\ e.type = "create_issue"
          BY <3>1, <4>1, SentFacts
        <5>2. n \in DOMAIN issues' /\ issues'[n].for = events[i].finding
          BY <3>2, <4>1
        <5> HIDE DEF e, n
        <5>3. e.out.kind = "created" /\ e.out.issue = n
          BY <5>1
        <5>4. e.lock # NoSession
          BY <5>1, QueueAssumption
        <5>5. QED
          BY <5>1, <5>2, <5>3, <5>4 DEF RowSound, OwnIssue, e
      <4>2. QED
        BY <3>1, <3>2, <4>1, RowSoundKept DEF RowsSound
    <3>5. Counted'
      <4>1. ASSUME NEW f \in Findings
            PROVE  Cardinality(MadeFor(issues', f)) + Cardinality(Rows(events', f)) <= granted'[f]
        <5> DEFINE R == Rows(events, f)
                   F == SentFor(s, f)
        <5>1. /\ F \in SUBSET R /\ IsFiniteSet(R) /\ Cardinality(R) \in Nat
              /\ Cardinality(F) \in Nat
          BY EventsTyped, RowsFinite, SentForFacts
        <5>2. ASSUME NEW i \in Rows(events', f) PROVE i \in R \ F
          <6>1. /\ i \in DOMAIN events /\ events'[i].finding = f
                /\ events'[i].type = "create_issue" /\ events'[i].out.kind # "created"
            BY <3>1 DEF Rows
          <6>2. i \in R
            BY <3>1, <6>1 DEF Rows
          <6>3. ASSUME i \in Sent(s) PROVE FALSE
            <7>1. events'[i].out = [kind |-> "created", issue |-> Len(issues) + Place(Sent(s), i)]
              BY <3>1, <6>1, <6>3
            <7>2. events'[i].out.kind = "created"
              BY <7>1
            <7>3. QED
              BY <6>1, <7>2
          <6>4. QED
            BY <6>2, <6>3 DEF SentFor
        <5>3. IsFiniteSet(R \ F) /\ Cardinality(R \ F) = Cardinality(R) - Cardinality(R \cap F)
          BY <5>1, FS_Difference
        <5>4. R \cap F = F
          BY <5>1
        <5>5. /\ Cardinality(Rows(events', f)) <= Cardinality(R \ F)
              /\ Cardinality(Rows(events', f)) \in Nat
          BY <5>2, <5>3, FS_Subset, FS_CardinalityType
        <5>6. /\ Cardinality(MadeFor(issues, f)) + Cardinality(R) <= granted[f]
              /\ Cardinality(MadeFor(issues, f)) \in Nat /\ granted[f] \in Nat
          BY <1>2, MadeFinite DEF Counted, Tables
        <5>7. /\ Cardinality(MadeFor(issues', f)) <=
                   Cardinality(MadeFor(issues, f)) + Cardinality(F)
              /\ Cardinality(MadeFor(issues', f)) \in Nat
          BY <3>2
        <5>8. granted'[f] = granted[f]
          BY <2>1
        <5> HIDE DEF R, F
        <5>9. Cardinality(R \ F) = Cardinality(R) - Cardinality(F)
          BY <5>3, <5>4
        <5>10. Cardinality(Rows(events', f)) <= Cardinality(R) - Cardinality(F)
          BY <5>5, <5>9
        <5>11. QED
          BY <5>1, <5>5, <5>6, <5>7, <5>8, <5>10
      <4>2. QED
        BY <4>1 DEF Counted
    <3>6. QED
      BY <3>2, <3>3, <3>4, <3>5
  \* The call failed.
  <2>2. CASE events' = Answered(s, "error") /\ UNCHANGED <<issues, granted>>
    <3>1. /\ events' \in [DOMAIN events -> Event]
          /\ \A i \in DOMAIN events :
               /\ events'[i].finding = events[i].finding /\ events'[i].type = events[i].type
               /\ RowSound(events'[i])
               /\ events[i].out.kind = "created" => events'[i].out.kind = "created"
      <4>1. /\ events' \in [DOMAIN events -> Event]
            /\ \A i \in DOMAIN events :
               /\ events'[i].finding = events[i].finding /\ events'[i].type = events[i].type
               /\ events'[i].lock = events[i].lock
               /\ i \notin Sent(s) => RowSound(events'[i])
               /\ i \in Sent(s) => events'[i].out = [kind |-> "error", issue |-> NoIssue]
               /\ events[i].out.kind = "created" => events'[i].out.kind = "created"
        BY <2>2, AnsweredFacts
      <4>2. ASSUME NEW i \in Sent(s), i \in DOMAIN events PROVE RowSound(events'[i])
        BY <4>1, <4>2, SentFacts, QueueAssumption DEF RowSound
      <4>3. QED
        BY <4>1, <4>2
    <3>2. Tables' /\ RowsSound' /\ Counted'
      BY <1>1, <2>2, <3>1, InPlace
    <3>3. QED
      BY <1>1, <2>2, <3>2 DEF IssuesGrow
  \* The answer was lost: the issues are there, and the rows may make them again.
  <2>3. CASE /\ Len(issues) + Cardinality(Sent(s)) <= MaxIssues
             /\ issues' = issues \o NewIssues(s) /\ events' = Answered(s, "error")
             /\ granted' = [f \in Findings |->
                  granted[f] + Cardinality({i \in Sent(s) : events[i].finding = f})]
    <3>1. /\ DOMAIN events' = DOMAIN events /\ events' \in Seq(Event)
          /\ \A i \in DOMAIN events :
               /\ events'[i].finding = events[i].finding /\ events'[i].type = events[i].type
               /\ events'[i].lock = events[i].lock
               /\ i \notin Sent(s) => RowSound(events'[i])
               /\ i \in Sent(s) => events'[i].out = [kind |-> "error", issue |-> NoIssue]
               /\ events[i].out.kind = "created" => events'[i].out.kind = "created"
      BY <2>3, AnsweredFacts
    <3>2. /\ IssuesGrow /\ issues' \in Seq(Issue) /\ Len(issues') <= MaxIssues
          /\ \A f \in Findings :
               /\ Cardinality(MadeFor(issues', f)) <=
                    Cardinality(MadeFor(issues, f)) + Cardinality(SentFor(s, f))
               /\ Cardinality(MadeFor(issues', f)) \in Nat
      BY <1>1, <2>3, IssuesMade
    <3>3. granted' = [f \in Findings |-> granted[f] + Cardinality(SentFor(s, f))]
      BY <2>3 DEF SentFor
    <3>4. \A f \in Findings : Cardinality(SentFor(s, f)) \in Nat /\ granted[f] \in Nat
      BY <1>2, SentForFacts DEF Tables
    <3>5. Tables'
      <4>1. granted' \in [Findings -> Nat]
        BY <3>3, <3>4
      <4>2. QED
        BY <3>1, <3>2, <4>1 DEF Tables
    <3>6. RowsSound'
      <4>1. ASSUME NEW i \in Sent(s), i \in DOMAIN events PROVE RowSound(events'[i])
        BY <3>1, <4>1, SentFacts, QueueAssumption DEF RowSound
      <4>2. QED
        BY <3>1, <3>2, <4>1, RowsSoundKept
    <3>7. Counted'
      <4>1. ASSUME NEW f \in Findings
            PROVE  Cardinality(MadeFor(issues', f)) + Cardinality(Rows(events', f)) <= granted'[f]
        <5>1. Rows(events', f) \in SUBSET Rows(events, f)
          BY <3>1 DEF Rows
        <5>2. /\ IsFiniteSet(Rows(events, f)) /\ Cardinality(Rows(events, f)) \in Nat
              /\ Cardinality(Rows(events', f)) \in Nat
          BY <3>1, EventsTyped, RowsFinite
        <5>3. Cardinality(Rows(events', f)) <= Cardinality(Rows(events, f))
          BY <5>1, <5>2, FS_Subset
        <5>4. /\ Cardinality(MadeFor(issues, f)) + Cardinality(Rows(events, f)) <= granted[f]
              /\ Cardinality(MadeFor(issues, f)) \in Nat
          BY <1>2, MadeFinite DEF Counted, Tables
        <5>5. granted'[f] = granted[f] + Cardinality(SentFor(s, f))
          BY <3>3
        <5>6. QED
          BY <3>2, <3>4, <5>2, <5>3, <5>4, <5>5
      <4>2. QED
        BY <4>1 DEF Counted
    <3>8. QED
      BY <3>2, <3>5, <3>6, <3>7
  <2>4. QED
    BY <2>1, <2>2, <2>3 DEF Create
<1>4. Typed'
  BY <1>1, Parts, FaultKeeps DEF Typed, Phases
<1>5. LinksOwnIssue' /\ SyncedMeansLinked'
  BY <1>1, <1>3, LinksSame
<1>6. QED
  BY <1>3, <1>4, <1>5, Parts

(***************************************************************************)
(* The commit of a delivery session.                                       *)
(***************************************************************************)

\* A committed row is nobody's again.
LEMMA SettledFacts ==
  ASSUME NEW e \in Event
  PROVE  /\ Settled(e) \in Event /\ Settled(e).finding = e.finding /\ Settled(e).type = e.type
         /\ Settled(e).lock = NoSession /\ Settled(e).out = NoOutcome
<1> DEFINE free == [e EXCEPT !.lock = NoSession, !.out = NoOutcome, !.batch = FALSE]
           st == IF GivesUp(e) THEN "failed" ELSE "pending"
           w == ~GivesUp(e)
           n == Tried(e, IF e.batch /\ e.type = "create_issue" THEN 2 ELSE 1)
           left == [free EXCEPT !.status = "processing", !.attempts = Tried(e, 1)]
           error == [free EXCEPT !.status = st, !.waiting = w, !.attempts = n]
<1>1. /\ free \in Event /\ free.finding = e.finding /\ free.type = e.type
      /\ free.lock = NoSession /\ free.out = NoOutcome
  BY WithoutLock
<1>2. ASSUME NEW m \in {1, 2} PROVE Tried(e, m) \in 0..MaxAttempts
  <2>1. e.attempts \in 0..MaxAttempts /\ MaxAttempts \in Nat
    BY QueueAssumption, Fields
  <2>2. QED
    BY <2>1 DEF Tried
<1>3. /\ Tried(e, 1) \in 0..MaxAttempts /\ n \in 0..MaxAttempts
      /\ st \in {"pending", "processing", "failed"} /\ w \in BOOLEAN
  BY <1>2 DEF GivesUp
<1>4. \/ e.out.kind = "left" /\ Settled(e) = left
      \/ e.out.kind = "error" /\ Settled(e) = error
      \/ e.out.kind \notin {"left", "error"} /\ Settled(e) = free
  BY DEF Settled
<1> HIDE DEF free, st, w, n
<1>5. /\ left \in Event /\ left.finding = free.finding /\ left.type = free.type
      /\ left.lock = free.lock /\ left.out = free.out
  <2>1. free \in Event /\ "processing" \in {"pending", "processing", "failed"}
    BY <1>1
  <2>2. QED
    BY <1>3, <2>1 DEF Event
<1>6. /\ error \in Event /\ error.finding = free.finding /\ error.type = free.type
      /\ error.lock = free.lock /\ error.out = free.out
  <2>1. free \in Event
    BY <1>1
  <2>2. QED
    BY <1>3, <2>1 DEF Event
<1> HIDE DEF left, error
<1>7. QED
  BY <1>1, <1>4, <1>5, <1>6

\* The rows that stay are the rows there were, and what a session has settled is
\* nobody's again: a create that has made its issue does not stay.
LEMMA KeptRowsFacts ==
  ASSUME IInv, NEW s \in Sessions
  PROVE  /\ KeptRows(s) \in Seq(Event)
         /\ \A n \in DOMAIN KeptRows(s) : RowSound(KeptRows(s)[n])
         /\ \A f \in Findings : Cardinality(Rows(KeptRows(s), f)) <= Cardinality(Rows(events, f))
<1> DEFINE K == Kept(s)
           m == Cardinality(K)
           row(i) == IF events[i].lock = s THEN Settled(events[i]) ELSE events[i]
<1>1. K \in SUBSET (1..Len(events)) /\ Len(events) \in Nat /\ K \in SUBSET DOMAIN events
  BY EventsTyped DEF Kept
<1>2. m \in Nat /\ \A n \in 1..m : Nth(K, n) \in K
  BY <1>1, NthFacts, PlaceFacts
<1>3. KeptRows(s) = [n \in 1..m |-> row(Nth(K, n))]
  BY DEF KeptRows
<1>4. ASSUME NEW i \in K
      PROVE  /\ row(i) \in Event /\ RowSound(row(i))
             /\ row(i).finding = events[i].finding /\ row(i).type = events[i].type
             /\ row(i).out.kind # "created" => events[i].out.kind # "created"
  <2>1. events[i] \in Event /\ RowSound(events[i])
    BY <1>1, EventsTyped
  <2>2. CASE events[i].lock = s
    <3>1. row(i) = Settled(events[i])
      BY <2>2
    <3>2. /\ row(i) \in Event /\ row(i).finding = events[i].finding
          /\ row(i).type = events[i].type /\ row(i).out = NoOutcome
      BY <2>1, <3>1, SettledFacts
    <3>3. events[i].out.kind # "created"
      BY <2>2 DEF Kept, Finished
    <3> HIDE DEF row
    <3>4. RowSound(row(i))
      BY <3>2 DEF RowSound, NoOutcome
    <3>5. QED
      BY <3>2, <3>3, <3>4
  <2>3. CASE events[i].lock # s
    BY <2>1, <2>3
  <2>4. QED
    BY <2>2, <2>3
<1> HIDE DEF K, m, row
<1>5. KeptRows(s) \in Seq(Event) /\ Len(KeptRows(s)) = m /\ DOMAIN KeptRows(s) = 1..m
  <2>1. KeptRows(s) \in [1..m -> Event]
    BY <1>2, <1>3, <1>4
  <2>2. QED
    BY <1>2, <2>1, SeqOf
<1>6. \A n \in 1..m : KeptRows(s)[n] = row(Nth(K, n))
  BY <1>3
<1>7. \A n \in DOMAIN KeptRows(s) : RowSound(KeptRows(s)[n])
  BY <1>2, <1>4, <1>5, <1>6
<1>8. ASSUME NEW f \in Findings
      PROVE  Cardinality(Rows(KeptRows(s), f)) <= Cardinality(Rows(events, f))
  <2> DEFINE A == Rows(KeptRows(s), f)
             R == Rows(events, f)
             B == K \cap R
  <2>1. A \in SUBSET (1..Cardinality(K))
    BY <1>5 DEF Rows, m
  <2>2. ASSUME NEW n \in A PROVE Nth(K, n) \in B
    <3>1. /\ n \in 1..m /\ KeptRows(s)[n].finding = f
          /\ KeptRows(s)[n].type = "create_issue" /\ KeptRows(s)[n].out.kind # "created"
      BY <1>5 DEF Rows
    <3>2. Nth(K, n) \in K /\ KeptRows(s)[n] = row(Nth(K, n))
      BY <1>2, <1>6, <3>1
    <3>3. /\ events[Nth(K, n)].finding = f /\ events[Nth(K, n)].type = "create_issue"
          /\ events[Nth(K, n)].out.kind # "created"
      BY <1>4, <3>1, <3>2
    <3>4. QED
      BY <1>1, <3>2, <3>3 DEF Rows
  <2>3. B \in SUBSET K /\ B \in SUBSET R
    OBVIOUS
  <2>4. IsFiniteSet(R) /\ Cardinality(R) \in Nat
    BY EventsTyped, RowsFinite
  <2> HIDE DEF A, B, R
  <2>5. Cardinality(A) <= Cardinality(B)
    BY <1>1, <2>1, <2>2, <2>3, CountNth
  <2>6. IsFiniteSet(B) /\ Cardinality(B) <= Cardinality(R)
    BY <2>3, <2>4, FS_Subset
  <2>7. Cardinality(A) \in Nat /\ Cardinality(B) \in Nat
    <3>1. Cardinality(A) \in Nat
      BY <1>5, RowsFinite DEF A
    <3>2. QED
      BY <2>6, <3>1, FS_CardinalityType
  <2>8. Cardinality(A) <= Cardinality(R)
    BY <2>4, <2>5, <2>6, <2>7
  <2>9. QED
    BY <2>8 DEF A, R
<1>9. QED
  BY <1>5, <1>7, <1>8

\* What a commit asks for are updates.
LEMMA FoundRowsFacts ==
  ASSUME IInv, NEW s \in Sessions
  PROVE  Others(FoundRows(s))
<1> DEFINE K == Found(s)
           m == Cardinality(K)
           row(i) == UpdateEvent(events[i].finding, events[i].out.issue)
<1>1. K \in SUBSET (1..Len(events)) /\ Len(events) \in Nat /\ K \in SUBSET DOMAIN events
  BY EventsTyped DEF Found, Mine
<1>2. m \in Nat /\ \A n \in 1..m : Nth(K, n) \in K
  BY <1>1, NthFacts, PlaceFacts
<1>3. FoundRows(s) = [n \in 1..m |-> row(Nth(K, n))]
  BY DEF FoundRows
<1>4. ASSUME NEW i \in K
      PROVE  /\ row(i) \in Event /\ row(i).type = "update_issue"
             /\ row(i).lock = NoSession /\ row(i).out = NoOutcome
  <2>1. events[i] \in Event
    BY <1>1, EventsTyped
  <2>2. events[i].finding \in Findings /\ events[i].out.issue \in IssueIds
    BY <2>1, Fields
  <2>3. "update_issue" \in Types
    BY DEF Types
  <2>4. QED
    BY <2>2, <2>3, NewEventFacts DEF UpdateEvent
<1> HIDE DEF K, m, row
<1>5. FoundRows(s) \in [1..m -> Event] /\ DOMAIN FoundRows(s) = 1..m
  BY <1>2, <1>3, <1>4
<1>6. FoundRows(s) \in Seq(Event)
  BY <1>2, <1>5, SeqOf
<1>7. \A n \in 1..m : FoundRows(s)[n] = row(Nth(K, n))
  BY <1>3
<1>8. QED
  BY <1>2, <1>4, <1>5, <1>6, <1>7 DEF Others, Fresh

\* A create that is finished names an issue of its finding.
LEMMA WroteFacts ==
  ASSUME IInv, NEW s \in Sessions, NEW f \in Findings
  PROVE  /\ Wrote(s, f) \in SUBSET (1..Len(events)) /\ Len(events) \in Nat
         /\ \A i \in Wrote(s, f) : Finished(events[i]) =>
              /\ events[i].out.issue \in DOMAIN issues /\ events[i].out.issue \in IssueIds
              /\ OwnIssue(f, events[i].out.issue)
<1>1. Wrote(s, f) \in SUBSET (1..Len(events)) /\ Len(events) \in Nat
  BY EventsTyped DEF Wrote, Mine
<1>2. ASSUME NEW i \in Wrote(s, f), Finished(events[i])
      PROVE  /\ events[i].out.issue \in DOMAIN issues /\ events[i].out.issue \in IssueIds
             /\ OwnIssue(f, events[i].out.issue)
  <2>1. events[i] \in Event /\ RowSound(events[i])
    BY <1>1, EventsTyped
  <2>2. events[i].finding = f /\ events[i].type = "create_issue"
    BY DEF Wrote
  <2>3. events[i].out.kind \in {"linked", "created"}
    BY <1>2, <2>1, <2>2 DEF RowSound, Finished
  <2>4. QED
    BY <2>1, <2>2, <2>3, Fields DEF RowSound
<1>3. QED
  BY <1>1, <1>2

\* A commit links findings to the issues of their rows and gives the rest back.
LEMMA CommitKeeps ==
  ASSUME IInv, NEW s \in Sessions, Commit(s)
  PROVE  IInv'
<1> DEFINE links(f) == {i \in Wrote(s, f) : Finished(events[i])}
           new(f) == LET e == events[Last(links(f))]
                     IN  [issue |-> e.out.issue, uuid |-> e.out.kind = "created"]
<1>1. /\ events' = KeptRows(s) \o FoundRows(s)
      /\ phase' = [phase EXCEPT ![s] = "idle"]
      /\ UNCHANGED <<status, issues, task, picked, configured, mode, granted, faults, edits>>
  BY DEF Commit, settingVars
<1>2. link' = [f \in Findings |-> IF links(f) = {} THEN link[f] ELSE new(f)]
  BY DEF Commit
<1>3. sync' = [f \in Findings |->
           IF Wrote(s, f) = {} THEN sync[f]
           ELSE IF Finished(events[Last(Wrote(s, f))]) THEN "synced" ELSE "sync_failed"]
  BY DEF Commit
<1>4. corrected' \subseteq Findings
  <2>1. corrected' = corrected \cup {events[i].finding : i \in
           {j \in Mine(s) : \/ events[j].out.kind = "created"
                            \/ events[j].type = "update_issue" /\ Finished(events[j])}}
    BY DEF Commit
  <2>2. \A i \in Mine(s) : events[i].finding \in Findings
    <3>1. \A i \in Mine(s) : events[i] \in Event
      BY EventsTyped DEF Mine
    <3>2. QED
      BY <3>1, Fields
  <2>3. corrected \subseteq Findings
    BY Parts DEF Typed
  <2>4. QED
    BY <2>1, <2>2, <2>3
<1>5. Tables /\ Counted
  BY Parts
<1>6. IssuesGrow
  BY <1>1 DEF IssuesGrow
<1>7. KeptRows(s) \in Seq(Event) /\ FoundRows(s) \in Seq(Event) /\ Fresh(FoundRows(s))
      /\ \A i \in DOMAIN FoundRows(s) : FoundRows(s)[i].type # "create_issue"
  BY KeptRowsFacts, FoundRowsFacts DEF Others
<1>8. events' \in Seq(Event)
  BY <1>1, <1>7, RowsConcat
<1>9. Tables'
  BY <1>1, <1>5, <1>8 DEF Tables
<1>10. RowsSound'
  <2> DEFINE a == KeptRows(s)
             b == FoundRows(s)
  <2>1. /\ a \in Seq(Event) /\ b \in Seq(Event) /\ events' = a \o b
        /\ \A n \in DOMAIN a : RowSound(a[n])
        /\ \A n \in DOMAIN b : b[n].out = NoOutcome
    BY <1>1, <1>7, KeptRowsFacts DEF Fresh
  <2> HIDE DEF a, b
  <2>2. /\ DOMAIN events' = 1..(Len(a) + Len(b)) /\ Len(a) \in Nat /\ Len(b) \in Nat
        /\ \A i \in 1..Len(a) : events'[i] = a[i]
        /\ \A i \in 1..Len(b) : events'[Len(a) + i] = b[i]
        /\ DOMAIN a = 1..Len(a) /\ DOMAIN b = 1..Len(b)
    <3> DEFINE u == a \o b
    <3>1. /\ DOMAIN u = 1..(Len(a) + Len(b)) /\ Len(a) \in Nat /\ Len(b) \in Nat
          /\ DOMAIN a = 1..Len(a) /\ DOMAIN b = 1..Len(b)
      BY <2>1
    <3>2. \A i \in 1..Len(a) : u[i] = a[i]
      BY <2>1
    <3>3. \A i \in 1..Len(b) : u[Len(a) + i] = b[i]
      BY <2>1
    <3>4. events' = u
      BY <2>1
    <3> HIDE DEF u
    <3>5. QED
      BY <3>1, <3>2, <3>3, <3>4
  <2>3. ASSUME NEW i \in DOMAIN events' PROVE RowSound(events'[i])
    <3>1. CASE i \in 1..Len(a)
      BY <2>1, <2>2, <3>1
    <3>2. CASE i \notin 1..Len(a)
      <4>1. i - Len(a) \in 1..Len(b) /\ Len(a) + (i - Len(a)) = i
        BY <2>2, <3>2
      <4>2. events'[i] = b[i - Len(a)]
        BY <2>2, <4>1
      <4>3. events'[i].out = NoOutcome
        BY <2>1, <2>2, <4>1, <4>2
      <4>4. QED
        BY <4>3 DEF RowSound, NoOutcome
    <3>3. QED
      BY <3>1, <3>2
  <2>4. QED
    BY <1>6, <2>3, RowsSoundKept
<1>11. Counted'
  <2>1. ASSUME NEW f \in Findings
        PROVE  Cardinality(MadeFor(issues', f)) + Cardinality(Rows(events', f)) <= granted'[f]
    <3>1. Cardinality(Rows(events', f)) =
            Cardinality(Rows(KeptRows(s), f)) + Cardinality(Rows(FoundRows(s), f))
      BY <1>1, <1>7, RowsConcat
    <3>2. Cardinality(Rows(FoundRows(s), f)) = 0
      BY <1>7, NoCreates
    <3>3. Cardinality(Rows(KeptRows(s), f)) <= Cardinality(Rows(events, f))
      BY KeptRowsFacts
    <3>4. Cardinality(Rows(KeptRows(s), f)) \in Nat /\ Cardinality(Rows(events, f)) \in Nat
      BY <1>7, EventsTyped, RowsFinite
    <3>5. /\ Cardinality(MadeFor(issues, f)) + Cardinality(Rows(events, f)) <= granted[f]
          /\ Cardinality(MadeFor(issues, f)) \in Nat /\ granted[f] \in Nat
      BY <1>5, MadeFinite DEF Counted, Tables
    <3>6. issues' = issues /\ granted' = granted
      BY <1>1
    <3>7. QED
      BY <3>1, <3>2, <3>3, <3>4, <3>5, <3>6
  <2>2. QED
    BY <2>1 DEF Counted
<1>12. ASSUME NEW f \in Findings, links(f) # {}
       PROVE  /\ new(f) \in [issue : IssueIds, uuid : BOOLEAN]
              /\ new(f).issue \in DOMAIN issues /\ OwnIssue(f, new(f).issue)
  <2>1. links(f) \in SUBSET (1..Len(events)) /\ Len(events) \in Nat
    BY WroteFacts
  <2>2. Last(links(f)) \in links(f)
    BY <1>12, <2>1, GreatestOf DEF Last
  <2>3. /\ events[Last(links(f))].out.issue \in DOMAIN issues
        /\ events[Last(links(f))].out.issue \in IssueIds
        /\ OwnIssue(f, events[Last(links(f))].out.issue)
    BY <2>2, WroteFacts
  <2>4. QED
    BY <2>3
<1>13. ASSUME NEW f \in Findings, sync'[f] = "synced" PROVE sync[f] = "synced" \/ links(f) # {}
  <2>1. CASE Wrote(s, f) = {}
    BY <1>3, <1>13, <2>1
  <2>2. CASE Wrote(s, f) # {}
    <3>1. Last(Wrote(s, f)) \in Wrote(s, f)
      BY <2>2, WroteFacts, GreatestOf DEF Last
    <3>2. Finished(events[Last(Wrote(s, f))])
      BY <1>3, <1>13, <2>2
    <3>3. QED
      BY <3>1, <3>2
  <2>3. QED
    BY <2>1, <2>2
<1> HIDE DEF links, new
<1>14. LinksOwnIssue'
  <2>1. ASSUME NEW f \in Findings
        PROVE  \/ link'[f] = link[f]
               \/ link'[f].issue \in DOMAIN issues /\ OwnIssue(f, link'[f].issue)
    BY <1>2, <1>12
  <2>2. LinksOwnIssue
    BY Parts
  <2>3. QED
    BY <1>6, <2>1, <2>2, LinksKept
<1>15. SyncedMeansLinked'
  <2>1. ASSUME NEW f \in Findings, sync'[f] = "synced" PROVE link'[f] # NoLink
    <3>1. CASE links(f) = {}
      <4>1. sync[f] = "synced" /\ link'[f] = link[f]
        BY <1>2, <1>13, <2>1, <3>1
      <4>2. QED
        BY <4>1, Parts DEF SyncedMeansLinked, Linked
    <3>2. CASE links(f) # {}
      <4>1. link'[f] = new(f)
        BY <1>2, <3>2
      <4>2. new(f).issue \in DOMAIN issues
        BY <1>12, <3>2
      <4>3. new(f).issue # 0
        <5>1. DOMAIN issues = 1..Len(issues) /\ Len(issues) \in Nat
          BY <1>5 DEF Tables
        <5>2. QED
          BY <4>2, <5>1
      <4>4. QED
        BY <4>1, <4>3 DEF NoLink, NoIssue
    <3>3. QED
      BY <3>1, <3>2
  <2>2. QED
    BY <2>1 DEF SyncedMeansLinked, Linked
<1>16. Typed'
  <2>1. Typed
    BY Parts
  <2>2. link' \in [Findings -> [issue : IssueIds, uuid : BOOLEAN]]
    <3>1. ASSUME NEW f \in Findings
          PROVE  (IF links(f) = {} THEN link[f] ELSE new(f)) \in [issue : IssueIds, uuid : BOOLEAN]
      <4>1. link[f] \in [issue : IssueIds, uuid : BOOLEAN]
        BY <2>1 DEF Typed
      <4>2. QED
        BY <1>12, <4>1
    <3>2. QED
      BY <1>2, <3>1
  <2>3. sync' \in [Findings -> {"none", "pending_sync", "synced", "sync_failed"}]
    BY <1>3, <2>1 DEF Typed
  <2>4. phase' \in [Sessions -> Phases]
    BY <1>1, <2>1 DEF Typed, Phases
  <2>5. QED
    BY <1>1, <1>4, <2>1, <2>2, <2>3, <2>4 DEF Typed
<1>17. QED
  BY <1>9, <1>10, <1>11, <1>14, <1>15, <1>16, Parts

(***************************************************************************)
(* The theorems.                                                           *)
(***************************************************************************)

\* The invariant holds at the start.
LEMMA InitKeeps ==
  ASSUME Init
  PROVE  IInv
<1>1. Typed
  BY QueueAssumption
  DEF Init, Typed, Statuses, NoLink, NoIssue, IssueIds, Phases, Stages
<1>2. Tables
  BY QueueAssumption DEF Init, Tables
<1>3. events = << >> /\ issues = << >> /\ link = [f \in Findings |-> NoLink]
      /\ sync = [f \in Findings |-> "none"] /\ granted = [f \in Findings |-> 0]
  BY DEF Init
<1>4. LinksOwnIssue /\ SyncedMeansLinked /\ RowsSound
  BY <1>3 DEF LinksOwnIssue, SyncedMeansLinked, RowsSound, Linked
<1>5. Counted
  <2>1. ASSUME NEW f \in Findings PROVE MadeFor(issues, f) = {} /\ Rows(events, f) = {}
    BY <1>3 DEF MadeFor, Rows
  <2>2. Cardinality({}) = 0
    BY FS_EmptySet
  <2>3. ASSUME NEW f \in Findings
        PROVE  Cardinality(MadeFor(issues, f)) + Cardinality(Rows(events, f)) <= granted[f]
    <3>1. granted[f] = 0
      BY <1>3
    <3>2. Cardinality(MadeFor(issues, f)) = 0 /\ Cardinality(Rows(events, f)) = 0
      BY <2>1, <2>2
    <3>3. QED
      BY <3>1, <3>2
  <2>4. QED
    BY <2>3 DEF Counted
<1>6. QED
  BY <1>1, <1>2, <1>4, <1>5, Parts

\* Stuttering keeps it.
LEMMA StutterKeeps ==
  ASSUME IInv, UNCHANGED vars
  PROVE  IInv'
<1>1. UNCHANGED <<status, link, sync, corrected, events, issues, phase, task, picked,
                  configured, mode, granted, faults, edits>>
  BY DEF vars
<1>2. Tables' /\ RowsSound' /\ Counted'
  BY <1>1, TablesKept
<1>3. Typed'
  BY <1>1, Parts DEF Typed
<1>4. LinksOwnIssue' /\ SyncedMeansLinked'
  BY <1>1, LinksSame DEF IssuesGrow
<1>5. QED
  BY <1>2, <1>3, <1>4, Parts

\* Every step keeps the invariant.
LEMMA StepKeeps ==
  ASSUME IInv, [Next]_vars
  PROVE  IInv'
<1>1. ASSUME NEW f \in Findings, NewFinding(f) PROVE IInv'
  BY <1>1, NewFindingKeeps
<1>2. ASSUME NEW f \in Findings, SyncSingle(f) PROVE IInv'
  BY <1>2, SyncSingleKeeps
<1>3. ASSUME NEW f \in Findings, NEW st \in {"Open", "Decided"},
             NEW updates \in {UpdateEvents(f), <<>>}, UpdateFinding(f, st, updates)
      PROVE  IInv'
  BY <1>3, UpdateFindingKeeps
<1>4. CASE SaveTracker \/ RetryFailed \/ LinkExisting \/ AdminBackfill
  BY <1>4, SaveTrackerKeeps, RetryKeeps, LinkExistingKeeps, AdminBackfillKeeps
<1>5. CASE TaskStep
  BY <1>5, StartTaskKeeps, TaskLinkKeeps, TaskCorrectionsKeeps,
     TaskEnqueueKeeps, EndTaskKeeps DEF TaskStep
<1>6. ASSUME NEW s \in Sessions, Deliveries(s) \/ Abort(s) PROVE IInv'
  BY <1>6, ClaimKeeps, LookKeeps, CreateKeeps, DeliverKeeps, CommitKeeps, AbortKeeps DEF Deliveries
<1>7. CASE BackoffElapses
  BY <1>7, BackoffKeeps
<1>8. ASSUME NEW n \in DOMAIN issues, DeleteIssue(n) PROVE IInv'
  BY <1>8, DeleteIssueKeeps
<1>9. CASE UNCHANGED vars
  BY <1>9, StutterKeeps
<1>10. QED
  BY <1>1, <1>2, <1>3, <1>4, <1>5, <1>6, <1>7, <1>8, <1>9 DEF Next

\* What holds of the queue as one piece, at every step.
THEOREM QueueInvariant == Spec => []IInv
<1>1. Init => IInv
  BY InitKeeps
<1>2. IInv /\ [Next]_vars => IInv'
  BY StepKeeps
<1>3. QED
  BY <1>1, <1>2, PTL DEF Spec

\* Whatever the order in which sessions claim, deliver, die and commit: a link
\* always names an issue that was made for the finding or for one it shares a key
\* with, and a finding shown as synced has a link.
THEOREM SyncQueueAlwaysSound == Spec => []QueueSound
<1>1. IInv => QueueSound
  BY DEF IInv
<1>2. QED
  BY <1>1, QueueInvariant, PTL

\* A create_issue row makes at most one issue: no session, batch or retry makes
\* more issues for a finding than were enqueued for it or lost with an answer.
THEOREM OneIssuePerCreate == Spec => []IssuePerCreate
<1>1. IInv => IssuePerCreate
  BY DEF IInv
<1>2. QED
  BY <1>1, QueueInvariant, PTL
=============================================================================
