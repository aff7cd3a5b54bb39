------------------------------ MODULE AuditLog ------------------------------
(***************************************************************************)
(* What the audit trail promises its readers: a history of hashes of an   *)
(* organisation is only ever continued, events are only ever added, each   *)
(* once, with a hash that a history of the organisation has already come   *)
(* to, and under a number of its own as long as there is one history.      *)
(* That there is never a second one is not promised, nor is completeness:  *)
(* a history may go on over events that are not recorded.                  *)
(***************************************************************************)
EXTENDS Naturals, Sequences, SequencesExt

CONSTANT Orgs

VARIABLES
  histories,  \* the histories of hashes of each organisation, as they were begun
  entries     \* the events on record: id, chain, seq and hash

lvars == <<histories, entries>>

Init ==
  /\ histories = [o \in Orgs |-> << >>]
  /\ entries = {}

\* A history of o is begun.
Begin(o) ==
  /\ histories' = [histories EXCEPT ![o] = Append(@, << >>)]
  /\ UNCHANGED entries

\* A history of o goes on, and no other.
Continue(o, k) ==
  /\ IsStrictPrefix(histories[o][k], histories'[o][k])
  /\ histories' = [histories EXCEPT ![o][k] = histories'[o][k]]
  /\ UNCHANGED entries

\* d has an id that no other event on record has, and a number if its organisation
\* has one history.
Single(d, record) ==
  \A e \in record \ {d} :
    e.id # d.id /\ (e.chain = d.chain /\ Len(histories[d.chain]) = 1 => e.seq # d.seq)

\* d is on a history of its organisation.
OnRecord(d) == \E k \in DOMAIN histories[d.chain] : IsPrefix(d.hash, histories[d.chain][k])

\* Events are put on record, and all others stay as they are.
Record ==
  /\ entries \subseteq entries'
  /\ \A d \in entries' \ entries : Single(d, entries') /\ OnRecord(d)
  /\ UNCHANGED histories

Next == Record \/ \E o \in Orgs : Begin(o) \/ \E k \in DOMAIN histories[o] : Continue(o, k)

Spec == Init /\ [][Next]_lvars
=============================================================================
