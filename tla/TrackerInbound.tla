--------------------------- MODULE TrackerInbound ---------------------------
(***************************************************************************)
(* What flows back from the issue tracker: Linear webhooks and the poll    *)
(* that catches missed ones parse [VAT] blocks in comments and issue       *)
(* descriptions and apply them to findings, inject the [VAT] template, and *)
(* reopen issues that were closed while their finding is open.             *)
(*                                                                         *)
(* A delivery may be lost, repeated or late, and its parts are handled in  *)
(* transactions of their own.  claim_webhook inserts the idempotency key   *)
(* in the transaction of the side effect, and update_finding commits both, *)
(* so a part is one step; what it then posts to the tracker is another.    *)
(***************************************************************************)
EXTENDS Naturals, Sequences, FiniteSets

CONSTANTS
  Issues,
  Findings,
  NoIssue,
  CreatedOrder,   \* the findings, oldest first
  CveOf,          \* the CVE of a finding
  IssueCve,       \* the CVE in the title of an issue
  Names,            \* what a block may name: CVEs and findings
  NoId,
  Verdicts,       \* statuses a block may ask for
  CommentTexts,   \* what people write in comments and descriptions
  DescTexts,
  FirstLinks,     \* findings that may be linked at the start
  LongBody,       \* the block lies beyond the 200 characters the key takes
  PostCanonical,  \* linear_post_canonical_on_parse
  MaxComments,    \* bound on comments
  MaxEdits,       \* bound on what people do
  MaxFaults       \* bound on lost or repeated deliveries and failed calls

Forms == {"block", "compact", "flexible", "keyvalue", "prose"}
Raw   == Verdicts \cup {"options", "blank", "unknown"}
Text  == [form : Forms, id : Names \cup {NoId}, raw : Raw]
Statuses == {"Open", "Rejected"} \cup Verdicts

ASSUME InboundAssumption ==
  /\ IsFiniteSet(Issues) /\ NoIssue \notin Issues
  /\ CreatedOrder \in Seq(Findings) /\ \A f \in Findings : \E n \in DOMAIN CreatedOrder : CreatedOrder[n] = f
  /\ NoId \notin Names /\ CveOf \in [Findings -> Names] /\ IssueCve \in [Issues -> Names \cup {NoId}]
  /\ "FalsePositive" \in Verdicts /\ "Open" \notin Verdicts
  /\ CommentTexts \subseteq Text /\ DescTexts \subseteq Text
  /\ FirstLinks \subseteq SUBSET Findings
  /\ LongBody \in BOOLEAN /\ PostCanonical \in BOOLEAN
  /\ MaxComments \in Nat /\ MaxEdits \in Nat /\ MaxFaults \in Nat

VARIABLES
  status,    \* of a finding
  link,      \* the issue of a finding
  outbox,    \* update_issue events not yet delivered, with the status they carry
  state,     \* "open" or "closed", of an issue
  desc,      \* its description
  comments,  \* comments of the tracker, by id
  net,       \* webhook deliveries
  claimed,   \* idempotency keys in webhook_events
  poll,      \* the blocks a poll has fetched and not yet handled, by issue
  clock,     \* timestamp of the last delivery
  edits,     \* history: what people did so far
  faults     \* history: faults so far

inboundVars == <<status, link, outbox, state, desc, comments, net, claimed, poll,
                 clock, edits, faults>>

Parts == {"labels", "description", "state", "comment"}
Delivery == [issue : Issues, all : Seq(Parts), todo : Seq(Parts), n : 0..MaxComments,
             text : Text, closed : BOOLEAN, ts : Nat, copy : {1, 2}]
Comment == [issue : Issues, text : Text, by : {"person", "template", "echo"},
            of : 1..MaxComments, applied : Nat, to : SUBSET Findings]
Item    == [issue : Issues, n : 0..MaxComments, text : Text]

InboundTypes ==
  /\ status \in [Findings -> Statuses] /\ link \in [Findings -> Issues \cup {NoIssue}]
  /\ outbox \subseteq [finding : Findings, closed : BOOLEAN]
  /\ state \in [Issues -> {"open", "closed"}] /\ desc \in [Issues -> Text]
  /\ comments \in Seq(Comment) /\ Len(comments) <= MaxComments
  /\ net \subseteq Delivery /\ \A m \in net : m.n <= Len(comments)
  /\ \A k \in claimed : k[1] \in Parts \cup {"reinject"}
  /\ poll \in Seq(SUBSET Item)
  /\ clock \in Nat /\ edits \in 0..MaxEdits /\ faults \in 0..MaxFaults

\* _build_issue_body with the default template: a block with nothing filled in.
Untouched(i) == [form |-> "block", id |-> IssueCve[i], raw |-> "blank"]

InboundInit ==
  /\ status = [f \in Findings |-> "Open"]
  /\ \E S \in FirstLinks, i \in Issues : link = [f \in Findings |-> IF f \in S THEN i ELSE NoIssue]
  /\ outbox = {} /\ state = [i \in Issues |-> "open"]
  /\ desc = [i \in Issues |-> Untouched(i)]
  /\ comments = <<>> /\ net = {} /\ claimed = {}
  /\ poll = <<>> /\ clock = 0 /\ edits = 0 /\ faults = 0

findingVars == <<status, link, outbox>>
issueVars   == <<state, desc>>
Edited == edits < MaxEdits /\ edits' = edits + 1
Fault  == faults < MaxFaults /\ faults' = faults + 1

(***************************************************************************)
(* Parsing a [VAT] block.                                                  *)
(***************************************************************************)

NoBlock == [id |-> NoId, status |-> "Open"]

\* _extract_status: the first word that is a status, so of the template's list of
\* options the first one; _normalize_status takes the text as a whole.
Extracted(raw)  == IF raw = "options" THEN "FalsePositive"
                   ELSE IF raw \in Verdicts THEN raw ELSE "Open"
Normalized(raw) == IF raw \in Verdicts THEN raw ELSE "Open"

\* _parse_vat_block: a block or a compact line names its finding; status and
\* justification lines without the prefix take it from the hint, other keys from the
\* hint or the text.
ParseVatBlock(t, hint) ==
  LET id == CASE t.form \in {"block", "compact"} -> t.id
              [] t.form = "flexible"             -> hint
              [] t.form = "keyvalue"             -> IF hint # NoId THEN hint ELSE t.id
              [] OTHER                           -> NoId
      st == IF t.form = "keyvalue" THEN Normalized(t.raw) ELSE Extracted(t.raw)
  IN  IF id # NoId /\ st # "Open" THEN [id |-> id, status |-> st] ELSE NoBlock

\* A comment is read with the CVE of its issue as the hint, a description with its own.
ParseComment(i, t) == ParseVatBlock(t, IssueCve[i])
ParseDescription(t) == ParseVatBlock(t, t.id)

(***************************************************************************)
(* Applying a parsed block.                                                *)
(***************************************************************************)

\* find_finding_by_external_id: the newest finding with the link.
LinkedTo(i) == {f \in Findings : link[f] = i}
Newest(S) == CreatedOrder[CHOOSE n \in DOMAIN CreatedOrder :
                            /\ CreatedOrder[n] \in S
                            /\ \A m \in DOMAIN CreatedOrder : CreatedOrder[m] \in S => m <= n]

\* The finding of an issue, else some finding of the CVE, else the finding named.
Targets(i, id) ==
  LET byCve == {f \in Findings : CveOf[f] = id}
  IN  IF LinkedTo(i) # {} THEN {Newest(LinkedTo(i))}
      ELSE IF byCve # {} THEN byCve ELSE {f \in Findings : f = id}

\* FINDING_TERMINAL_STATUSES, the same statuses that close an issue.
Terminal(st) == st # "Open"

\* The finding an issue answers for is not terminal.
Unanswered(i) == \E f \in LinkedTo(i) : f = Newest(LinkedTo(i)) /\ ~Terminal(status[f])

\* update_finding: a changed status is also sent to the tracker.
SetStatus(f, st) ==
  /\ status' = [status EXCEPT ![f] = st]
  /\ outbox' = IF st # status[f] /\ link[f] # NoIssue
               THEN outbox \cup {[finding |-> f, closed |-> Terminal(st)]} ELSE outbox

\* A webhook delivery, and a comment of the tracker.
Message(i, parts, n, t, closed) ==
  [issue |-> i, all |-> parts, todo |-> parts, n |-> n, text |-> t, closed |-> closed,
   ts |-> clock + 1, copy |-> 1]
NewComment(i, t, by, of) ==
  [issue |-> i, text |-> t, by |-> by, of |-> of, applied |-> 0, to |-> {}]

\* post_canonical_if_enabled: after the commit, what was understood is posted as a
\* comment of its own, which Linear delivers like any other.
Canonical(p) == [form |-> "block", id |-> p.id, raw |-> p.status]
Echo(i, p) ==
  IF PostCanonical /\ Targets(i, p.id) # {} /\ Len(comments) < MaxComments
  THEN {Message(i, <<"comment">>, Len(comments) + 1, Canonical(p), FALSE)} ELSE {}

\* apply_vat_parsed_update, in the transaction that has claimed the key; n is the
\* comment, or 0 for a description.  A block for no finding keeps the claim.
Marked(n, f) == IF n = 0 THEN comments
                ELSE [comments EXCEPT ![comments[n].of].applied = @ + 1, ![n].to = @ \cup {f}]
ApplyVatParsedUpdate(i, p, n) ==
  LET new == Len(comments) + 1
      of  == IF n = 0 THEN new ELSE comments[n].of
  IN  /\ clock' = clock + Cardinality(Echo(i, p))
      /\ IF Targets(i, p.id) = {} THEN UNCHANGED <<status, outbox, comments>>
         ELSE \E f \in Targets(i, p.id) :
                /\ SetStatus(f, p.status)
                /\ comments' = IF Echo(i, p) = {} THEN Marked(n, f)
                               ELSE Append(Marked(n, f), NewComment(i, Canonical(p), "echo", of))

\* Idempotency keys.  A comment's webhook says create, the poll Comment.create; a
\* webhook about a description has its timestamp in the key, the poll has none.
HeadOf(t) == IF LongBody THEN NoId ELSE t
\* Mutant: the webhook and the poll share one key.
CommentKeyShared(n, event) == <<"comment", n, "Comment.create">>

CommentKey(n, event) == <<"comment", n, event>>
\* Mutant: the key of a state change has no timestamp.
PartKeyUntimed(m) ==
  CASE Head(m.todo) = "description" /\ ParseDescription(m.text) = NoBlock ->
         <<"reinject", m.issue, HeadOf(m.text), m.ts>>
    [] Head(m.todo) = "description" -> <<"description", m.issue, HeadOf(m.text), m.ts>>
    [] Head(m.todo) = "state"       -> <<"state", m.issue, m.closed>>
    [] Head(m.todo) = "labels"      -> <<"labels", m.issue, m.ts>>
    [] OTHER                        -> CommentKey(m.n, "create")

PartKey(m) ==
  CASE Head(m.todo) = "description" /\ ParseDescription(m.text) = NoBlock ->
         <<"reinject", m.issue, HeadOf(m.text), m.ts>>
    [] Head(m.todo) = "description" -> <<"description", m.issue, HeadOf(m.text), m.ts>>
    [] Head(m.todo) = "state"       -> <<"state", m.issue, m.closed, m.ts>>
    [] Head(m.todo) = "labels"      -> <<"labels", m.issue, m.ts>>
    [] OTHER                        -> CommentKey(m.n, "create")

(***************************************************************************)
(* Webhooks.                                                               *)
(***************************************************************************)

\* What is left of a delivery after its first part.  One whose answer was lost is
\* sent once more, from the start.
After(m) == (net \ {m}) \cup (IF Len(m.todo) > 1 THEN {[m EXCEPT !.todo = Tail(@)]} ELSE {})
Repeated(m) == [m EXCEPT !.todo = m.all, !.copy = 2]
Handled(m, sent) ==
  \/ net' = After(m) \cup sent /\ UNCHANGED faults
  \/ m.copy = 1 /\ Len(m.todo) = 1 /\ Fault /\ net' = After(m) \cup sent \cup {Repeated(m)}

\* inject_vat_template_on_issue: the default template names a field that the call does
\* not supply, so the required block, with its list of options, is posted.
InjectedText(i) == [form |-> "block", id |-> IssueCve[i], raw |-> "options"]
Inject(m) ==
  LET i == m.issue
      n == Len(comments) + 1
  IN  \/ /\ n <= MaxComments /\ clock' = clock + 1
         /\ comments' = Append(comments, NewComment(i, InjectedText(i), "template", n))
         /\ Handled(m, {Message(i, <<"comment">>, n, InjectedText(i), FALSE)})
      \/ Fault /\ net' = After(m) /\ UNCHANGED <<comments, clock>>

\* handle_issue_label_update: the issue as it is now has no block.
WantsTemplate(i) == desc[i].form \notin {"block", "compact"}
\* handle_template_reinject: neither a block nor the keys of one.
Stripped(t) == t.form = "prose"

\* Mutant: a repeated delivery is taken for a new one.
FreshAlways(m) == PartKey(m) \notin claimed \/ m.copy = 2

Fresh(m) == PartKey(m) \notin claimed

\* A part of Issue.update, or a Comment.create, that does nothing but claim its key.
Passes(m) ==
  CASE Head(m.todo) = "labels"      -> ~WantsTemplate(m.issue)
    [] Head(m.todo) = "description" -> ParseDescription(m.text) = NoBlock /\ ~Stripped(m.text)
    [] Head(m.todo) = "state"       -> ~m.closed \/ ~Unanswered(m.issue)
    [] OTHER                        -> ParseComment(m.issue, m.text) = NoBlock

\* A duplicate is passed over; a comment without a block is not even claimed.
ReceivePassed(m) ==
  /\ ~Fresh(m) \/ Passes(m)
  /\ Handled(m, {})
  /\ claimed' = IF Head(m.todo) = "comment" THEN claimed ELSE claimed \cup {PartKey(m)}
  /\ UNCHANGED <<findingVars, issueVars, comments, poll, clock, edits>>

\* Comment.create, and Issue.update with a description that parses.
ReceiveBlock(m) ==
  LET p == IF Head(m.todo) = "comment" THEN ParseComment(m.issue, m.text)
           ELSE ParseDescription(m.text)
  IN  /\ Head(m.todo) \in {"comment", "description"} /\ Fresh(m) /\ p # NoBlock
      /\ claimed' = claimed \cup {PartKey(m)}
      /\ ApplyVatParsedUpdate(m.issue, p, m.n)
      /\ Handled(m, Echo(m.issue, p))
      /\ UNCHANGED <<link, issueVars, poll, edits>>

\* A watched label was added, or the block removed from the description.
ReceiveInject(m) ==
  /\ Head(m.todo) \in {"labels", "description"} /\ Fresh(m) /\ ~Passes(m)
  /\ Head(m.todo) = "description" => ParseDescription(m.text) = NoBlock
  /\ claimed' = claimed \cup {PartKey(m)}
  /\ Inject(m)
  /\ UNCHANGED <<findingVars, issueVars, poll, edits>>

\* handle_tracker_issue_closed_without_vat: reopen_issue, which may fail; the claim
\* stands all the same.
ReceiveClosed(m) ==
  /\ Head(m.todo) = "state" /\ Fresh(m) /\ ~Passes(m)
  /\ claimed' = claimed \cup {PartKey(m)}
  /\ \/ /\ state' = [state EXCEPT ![m.issue] = "open"] /\ clock' = clock + 1
        /\ Handled(m, {Message(m.issue, <<"state">>, 0, desc[m.issue], FALSE)})
     \/ Fault /\ net' = After(m) /\ UNCHANGED <<state, clock>>
  /\ UNCHANGED <<findingVars, desc, comments, poll, edits>>

Receive(m) == ReceivePassed(m) \/ ReceiveBlock(m) \/ ReceiveInject(m) \/ ReceiveClosed(m)

\* The delivery is lost, or refused: no secret, a bad signature, or older than 300 s.
Lose(m) ==
  /\ Fault /\ net' = net \ {m}
  /\ UNCHANGED <<findingVars, issueVars, comments, claimed, poll, clock, edits>>

(***************************************************************************)
(* poll_linear_for_updates, run by Beat as reconcile_linear.               *)
(***************************************************************************)

ItemKey(x) == IF x.n = 0 THEN <<"description", x.issue, HeadOf(x.text), 0>>
              ELSE CommentKey(x.n, "Comment.create")
ItemBlock(x) == IF x.n = 0 THEN ParseDescription(x.text) ELSE ParseComment(x.issue, x.text)

\* Tracked issues, each with its description and its comments as they are now.  What
\* does not parse or is claimed already is passed over later, and left out at once.
Tracked == {i \in Issues : LinkedTo(i) # {}}
ItemsOf(i) ==
  {x \in {[issue |-> i, n |-> 0, text |-> desc[i]]} \cup
         {[issue |-> i, n |-> n, text |-> comments[n].text] :
            n \in {k \in DOMAIN comments : comments[k].issue = i}} :
     ItemBlock(x) # NoBlock /\ ItemKey(x) \notin claimed}
StartPoll ==
  LET found == {i \in Tracked : ItemsOf(i) # {}}
  IN  /\ poll = <<>> /\ found # {}
      /\ \E order \in [1..Cardinality(found) -> found] :
           /\ \A i \in found : \E k \in DOMAIN order : order[k] = i
           /\ poll' = [k \in DOMAIN order |-> ItemsOf(order[k])]
      /\ UNCHANGED <<findingVars, issueVars, comments, net, claimed, clock, edits, faults>>

\* One description or comment; each is committed before the next.  An issue comes with
\* its description first, then the comments in the order the tracker gives them.
PollItem ==
  /\ poll # <<>>
  /\ \E x \in Head(poll) :
       /\ x.n # 0 => \A y \in Head(poll) : y.n # 0
       /\ poll' = IF Head(poll) = {x} THEN Tail(poll) ELSE [poll EXCEPT ![1] = @ \ {x}]
       /\ IF ItemKey(x) \in claimed THEN UNCHANGED <<status, outbox, claimed, comments, net, clock>>
          ELSE /\ claimed' = claimed \cup {ItemKey(x)}
               /\ ApplyVatParsedUpdate(x.issue, ItemBlock(x), x.n)
               /\ net' = net \cup Echo(x.issue, ItemBlock(x))
       /\ UNCHANGED <<link, issueVars, edits, faults>>

\* An exception ends the poll with what it has fetched unread.
PollFails ==
  /\ poll # <<>> /\ poll' = <<>> /\ Fault
  /\ UNCHANGED <<findingVars, issueVars, comments, net, claimed, clock, edits>>

(***************************************************************************)
(* People, and the outbound queue.                                         *)
(***************************************************************************)

\* A person comments on an issue.
WriteComment(i, t) ==
  LET n == Len(comments) + 1
  IN  /\ Edited /\ n <= MaxComments /\ clock' = clock + 1
      /\ comments' = Append(comments, NewComment(i, t, "person", n))
      /\ net' = net \cup {Message(i, <<"comment">>, n, t, FALSE)}
      /\ UNCHANGED <<findingVars, issueVars, claimed, poll, faults>>

\* A person edits the description of an issue, adds a watched label, or closes it.
EditIssue(i, parts, t) ==
  LET changes(p) == p \in {parts[k] : k \in DOMAIN parts}
  IN  /\ Edited /\ clock' = clock + 1
      /\ desc' = IF changes("description") THEN [desc EXCEPT ![i] = t] ELSE desc
      /\ state' = IF changes("state") THEN [state EXCEPT ![i] = "closed"] ELSE state
      /\ net' = net \cup {Message(i, parts, 0, desc'[i], TRUE)}
      /\ UNCHANGED <<findingVars, comments, claimed, poll, faults>>

\* A reviewer decides a finding, or opens it again.  update_finding tells the
\* tracker; revert_finding and bulk_update_findings enqueue no update_issue.
Review(f, st) ==
  /\ Edited /\ st # status[f]
  /\ \/ SetStatus(f, st)
     \/ status' = [status EXCEPT ![f] = st] /\ UNCHANGED outbox
  /\ UNCHANGED <<link, issueVars, comments, net, claimed, poll, clock, faults>>

\* The outbound queue links a finding to an issue it has found, and sends it the
\* status that the finding has.
LinkFinding(f, i) ==
  /\ Edited /\ link[f] = NoIssue /\ link' = [link EXCEPT ![f] = i]
  /\ outbox' = outbox \cup {[finding |-> f, closed |-> Terminal(status[f])]}
  /\ UNCHANGED <<status, issueVars, comments, net, claimed, poll, clock, faults>>

\* update_issue of the queue carries the status of the moment it was enqueued; a
\* failed one is retried after the later ones.
DeliverUpdate(e) ==
  LET i == link[e.finding]
  IN  /\ outbox' = outbox \ {e}
      /\ state' = [state EXCEPT ![i] = IF e.closed THEN "closed" ELSE "open"]
      /\ IF state'[i] = state[i] THEN UNCHANGED <<net, clock>>
         ELSE /\ net' = net \cup {Message(i, <<"state">>, 0, desc[i], e.closed)}
              /\ clock' = clock + 1
      /\ UNCHANGED <<status, link, desc, comments, claimed, poll, edits, faults>>

PartSets == {<<"labels">>, <<"state">>, <<"description", "state">>}

Deliveries == \E m \in net : Receive(m)
PollStep   == StartPoll \/ PollItem
Updates    == \E e \in outbox : DeliverUpdate(e)

InboundNext ==
  \/ Deliveries \/ PollStep \/ Updates
  \/ PollFails \/ \E m \in net : Lose(m)
  \/ \E i \in Issues : \/ \E t \in CommentTexts : WriteComment(i, t)
                       \/ \E parts \in PartSets, t \in DescTexts : EditIssue(i, parts, t)
                       \/ \E f \in Findings : LinkFinding(f, i)
  \/ \E f \in Findings, st \in {"Open", "Rejected"} : Review(f, st)

InboundSpec == InboundInit /\ [][InboundNext]_inboundVars

\* Linear delivers what it does not lose, Beat runs the reconciliation, and the queue
\* is processed.  People need not do anything.
FairInboundSpec ==
  InboundSpec /\ WF_inboundVars(Deliveries) /\ WF_inboundVars(PollStep) /\ WF_inboundVars(Updates)

(***************************************************************************)
(* Properties.                                                             *)
(***************************************************************************)

\* Every application of a comment, or of its canonical echoes, has a claim of its own:
\* no repeated delivery and no poll running beside it applies one key twice.
AppliedPerClaim ==
  \A n \in DOMAIN comments : comments[n].applied <=
    Cardinality({k \in claimed : k[1] = "comment" /\ comments[k[2]].of = n})

\* Claims and applications agree, whatever is delivered again.
ClaimsSound == InboundTypes /\ AppliedPerClaim

\* A block that a person wrote on a tracked issue reaches a finding of that issue in
\* the end, even when its webhook is lost, or came before the link and decided another
\* finding of the CVE: the reconciliation reads it again.
Heeded(n) == comments[n].to \cap LinkedTo(comments[n].issue) # {}
LostCommentApplied ==
  \A n \in 1..MaxComments :
    (/\ n <= Len(comments) /\ comments[n].by = "person"
     /\ ParseComment(comments[n].issue, comments[n].text) # NoBlock
     /\ comments[n].issue \in Tracked) ~> (n <= Len(comments) /\ Heeded(n))

Drifted(i) == state[i] = "closed" /\ Unanswered(i)
\* Somebody will hear of the drift: the webhook of the issue's closing is on its way,
\* or an update_issue that opens it.
Noticed(i) ==
  \/ \E m \in net : /\ m.issue = i /\ m.closed
                     /\ \E k \in DOMAIN m.todo : m.todo[k] = "state"
  \/ \E e \in outbox : link[e.finding] = i /\ ~e.closed
\* When no delivery or call fails, an issue that is closed while the finding it
\* answers for is open does not stay closed, whether a person or a late update_issue
\* closed it, and whatever edits, reverts and links come in between.  A revert or a
\* bulk update that opens the finding after the issue was closed notifies nobody.
ClosedIssueReopened ==
  [](faults = 0) => \A i \in Issues :
    Drifted(i) /\ Noticed(i) ~> ~Drifted(i)

\* What a person wrote is applied once, by the webhook or by the poll.
AppliedOnce ==
  \A n \in DOMAIN comments : comments[n].by = "person" => comments[n].applied <= 1

\* The template that VAT posts asks for an answer and is not one.
TemplateIsNoAnswer ==
  \A n \in DOMAIN comments : comments[n].by = "template" => comments[n].applied = 0
=============================================================================
