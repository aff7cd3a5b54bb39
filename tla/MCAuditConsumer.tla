--------------------------- MODULE MCAuditConsumer ---------------------------
(* Small instances of AuditConsumer for TLC. *)
EXTENDS AuditConsumer

CONSTANTS c1, c2, o1, o2

Event(id, org) == [id |-> id, org |-> org, parses |-> TRUE]
Garbage == [id |-> "none", org |-> NoOrg, parses |-> FALSE]

\* Two topics carry events of the same org; a message that does not parse and
\* an event of another org are among them.  With MaxTries = 2
\* the consumer c1 can lose all its races to c2.
BusyLog ==
  c1 :> <<Event("a", o1), Garbage, Event("b", o2)>>
    @@ c2 :> <<Event("x", o1), Event("y", o1)>>
=============================================================================
