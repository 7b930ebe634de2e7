-------------------------- MODULE DecisionRegister --------------------------
(***************************************************************************)
(* What the decision ledger promises its readers, without findings, links, *)
(* aliases or jobs: for every subject an append-only log of decisions, and *)
(* the current decision, which is the log's last entry.  A decision enters *)
(* the log because it was recorded, one subject at a time, or because its  *)
(* waiver expired, all expired subjects at once.                           *)
(***************************************************************************)
EXTENDS Integers, Sequences

CONSTANTS
  Subjects,      \* decision subject keys
  RecordStatus,  \* statuses that can be recorded
  Waivers,       \* attestations; 0 is none
  NoEntry        \* the current decision of a subject that has none

VARIABLES log, current

Init ==
  /\ log = [s \in Subjects |-> << >>]
  /\ current = [s \in Subjects |-> NoEntry]

\* Entry e[s] is appended for every s of a set: nothing else is ever written.
Enter(set, e) ==
  /\ \A s \in set : e[s].version = Len(log[s]) + 1
  /\ log' = [s \in Subjects |-> IF s \in set THEN Append(log[s], e[s]) ELSE log[s]]
  /\ current' = [s \in Subjects |-> IF s \in set THEN e[s] ELSE current[s]]

Record(s, st, rationale, waiver) ==
  Enter({s}, [t \in {s} |-> [status |-> st, rationale |-> rationale,
                             attestation |-> waiver, version |-> Len(log[s]) + 1]])

\* Only accepted risks with a waiver expire, and nothing but the status changes.
Expire(set) ==
  /\ \A s \in set : current[s].status = "RiskAccepted" /\ current[s].attestation # 0
  /\ Enter(set, [s \in set |-> [current[s] EXCEPT !.status = "Open",
                                                  !.version = @ + 1]])

Next ==
  \/ \E s \in Subjects, st \in RecordStatus, r \in BOOLEAN, w \in Waivers :
       Record(s, st, r, w)
  \/ \E set \in SUBSET Subjects : Expire(set)

Spec == Init /\ [][Next]_<<log, current>>
=============================================================================
