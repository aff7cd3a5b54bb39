----------------------------- MODULE AlertProofs -----------------------------
(***************************************************************************)
(* Proofs about the detectors and the saga behind them (Threat and         *)
(* AlertSaga), for any events, keys and windows from before, thresholds,   *)
(* lifetimes, slots, attempts and faults.                                  *)
(***************************************************************************)
EXTENDS AlertSaga, FiniteSetTheorems, SequenceTheorems, TLAPS

-----------------------------------------------------------------------------
(* The inductive invariant of the detectors.                               *)

\* Every event a reader has passed was processed or has failed; the last one may be
\* under way.  The last one that is committed was processed.
PassedOK(r) ==
  /\ \A i \in 1..reader[r].next - 1 : i < reader[r].next - 1 \/ reader[r].pc = "idle" => <<r, i>> \in done \cup failed
  /\ \A i \in 1..reader[r].committed - 1 : <<r, i>> \in done \cup failed
  /\ reader[r].committed > 1 => <<r, reader[r].committed - 1>> \in done

\* The device of the login a reader is at.
DeviceAt(r) == <<Event(r).user, Event(r).device>>

\* The alert for a suspect device was published, or its publication failed.
Reported(s) ==
  \/ <<"account_takeover", s>> \in missed
  \/ \E i \in 1..Len(topic) : topic[i].detector = "account_takeover" /\ topic[i].key = s

\* What a reader has in hand: an alert of the event it is at, or a device that may
\* be learnt.
InHandOK(r) ==
  /\ reader[r].pc \notin {"store", "publish"} => reader[r].alert = NoAlert
  /\ reader[r].alert.detector = "brute_force" => r = "auth"
  /\ reader[r].alert.detector = "account_takeover" => r = "auth" /\ reader[r].alert.key = DeviceAt(r)
  /\ reader[r].pc = "learn" =>
       r = "auth" /\ (DeviceAt(r) \in suspects => DeviceAt(r) \in devices \/ Reported(DeviceAt(r)))

\* A brute force alert holds back the next one of its key for the window.
FiredOK(a) ==
  a.detector = "brute_force" =>
    /\ a.at <= now
    /\ now < a.at + WindowSize =>
         \E x \in keys : x.key = <<"fired", a.key>> /\ x.until = a.at + WindowSize

\* Two alerts of one key are a window apart.
Apart(a, b) ==
  a.detector = "brute_force" /\ b.detector = "brute_force" /\ a.key = b.key => b.at >= a.at + WindowSize

AlertsOK ==
  /\ \A i \in 1..Len(topic) : FiredOK(topic[i])
  /\ \A r \in Readers : FiredOK(reader[r].alert)
  /\ \A i \in 1..Len(topic), r \in Readers : Apart(topic[i], reader[r].alert)
  /\ \A i, j \in 1..Len(topic) : i < j => Apart(topic[i], topic[j])

TakeoverOK == \A s \in suspects \cap devices : Reported(s)

ThreatInv ==
  /\ \A r \in Readers : PassedOK(r) /\ InHandOK(r)
  /\ AlertsOK /\ TakeoverOK

-----------------------------------------------------------------------------
(* The inductive invariant of the saga.                                    *)

\* The goroutine has stored the alert and is going to publish it.
Past(j) == j.step \in {"notify", "audit"} \/ (j.step = "persist" /\ j.pc = "completed")

\* A goroutine that is past the persist has stored the document itself, and what it
\* is going to publish is not out yet, or only by an attempt that seemed to fail.
OnceOK(j) ==
  Past(j) =>
    /\ Exists(topic[j.msg].id)
    /\ j.step = "persist" => <<"notify", j.msg>> \notin sent
    /\ j.step \in {"persist", "notify"} => <<"audit", j.msg>> \notin sent
    /\ j.pc = "try" /\ <<j.step, j.msg>> \in sent => <<j.step, j.msg>> \in unclear

\* Nothing is out about an alert that was not stored.
StoredFirst ==
  \A p \in sent : Exists(topic[p[2]].id)

\* A trace of message i.
Traced(i) ==
  \/ <<"notify", i>> \in sent
  \/ i \in unrecorded \cup interrupted
  \/ \E a \in alerts : a.id = topic[i].id /\ \E s \in a.steps : s[2] = "failed"

TraceOK ==
  /\ \A j \in jobs :
       /\ j.step = "commit" => j.pc = "try"
       /\ j.step \in {"audit", "commit"} => Traced(j.msg)
       /\ j.step = "notify" /\ j.pc = "completed" => <<"notify", j.msg>> \in sent
  /\ \A i \in 1..position - 1 : Traced(i) \/ \E j \in jobs : j.msg = i

SagaInv ==
  /\ again \subseteq unclear
  /\ \A j \in jobs : OnceOK(j)
  /\ StoredFirst /\ TraceOK

-----------------------------------------------------------------------------
(* Steps of a reader.                                                      *)

\* Reader r is at new, the others stay where they are.
Moves(r, new) ==
  /\ reader' \in [Readers -> ReaderStates] /\ reader'[r] = new
  /\ \A q \in Readers \ {r} : reader'[q] = reader[q]

\* The fields of a reader.
LEMMA ReaderFields ==
  ASSUME NEW x \in ReaderStates
  PROVE  /\ x.next \in Nat \ {0} /\ x.committed \in Nat \ {0} /\ x.todo \in Seq(Watched) /\ x.alert \in Alerts
         /\ x.pc \in {"idle", "process", "store", "publish", "learn", "commit"}
  BY DEF ReaderStates

\* The fields of an alert.
LEMMA AlertFields ==
  ASSUME NEW a \in Alerts
  PROVE  /\ a.id \in Nat /\ a.at \in Nat
         /\ a.detector \in {"none", "brute_force", "impossible_travel", "off_hours_access",
                            "account_takeover", "data_exfiltration", "privilege_escalation"}
  BY DEF Alerts

\* No alert.
LEMMA NoAlertFields == NoAlert \in Alerts /\ NoAlert.id = 0 /\ NoAlert.detector = "none"
  BY DEF NoAlert, Alerts

\* An idle reader.
LEMMA IdleFields ==
  ASSUME NEW n \in Nat \ {0}, NEW c \in Nat \ {0}
  PROVE  /\ Idle(n, c) \in ReaderStates /\ Idle(n, c).next = n /\ Idle(n, c).committed = c
         /\ Idle(n, c).pc = "idle" /\ Idle(n, c).alert = NoAlert
<1>1. <<>> \in Seq(Watched)
  OBVIOUS
<1> QED
  BY <1>1, NoAlertFields DEF Idle, ReaderStates

\* A reader that is given a new value.
LEMMA Moved ==
  ASSUME ThreatTypeOK, NEW r \in Readers, NEW new \in ReaderStates,
         reader' = [reader EXCEPT ![r] = new]
  PROVE  Moves(r, new)
  BY DEF ThreatTypeOK, Moves

\* Goto, and Raise.
LEMMA GotoMoves ==
  ASSUME ThreatTypeOK, NEW r \in Readers,
         NEW l \in {"idle", "process", "store", "publish", "learn", "commit"}, Goto(r, l)
  PROVE  \E new \in ReaderStates : /\ Moves(r, new) /\ new.pc = l /\ new.next = reader[r].next
                                   /\ new.committed = reader[r].committed /\ new.alert = reader[r].alert
<1> DEFINE new == [reader[r] EXCEPT !.pc = l]
<1>1. reader \in [Readers -> ReaderStates] /\ reader[r] \in ReaderStates
  BY DEF ThreatTypeOK
<1>2. /\ new \in ReaderStates /\ new.pc = l /\ new.next = reader[r].next
      /\ new.committed = reader[r].committed /\ new.alert = reader[r].alert
  BY <1>1 DEF ReaderStates
<1>3. reader' = [reader EXCEPT ![r] = new]
  BY <1>1 DEF Goto
<1> HIDE DEF new
<1> QED
  BY <1>2, <1>3, Moved

\* Raise takes the reader to the alert.
LEMMA RaiseMoves ==
  ASSUME ThreatTypeOK, NEW r \in Readers, NEW a \in Alerts, Raise(r, a)
  PROVE  \E new \in ReaderStates : /\ Moves(r, new) /\ new.pc = "store" /\ new.next = reader[r].next
                                   /\ new.committed = reader[r].committed /\ new.alert = a
<1> DEFINE new == [reader[r] EXCEPT !.pc = "store", !.alert = a]
<1>1. reader \in [Readers -> ReaderStates] /\ reader[r] \in ReaderStates
  BY DEF ThreatTypeOK
<1>2. /\ new \in ReaderStates /\ new.pc = "store" /\ new.next = reader[r].next
      /\ new.committed = reader[r].committed /\ new.alert = a
  BY <1>1 DEF ReaderStates
<1>3. reader' = [reader EXCEPT ![r] = new]
  BY <1>1 DEF Raise
<1> HIDE DEF new
<1> QED
  BY <1>2, <1>3, Moved

\* The event a reader is at.
LEMMA EventAt ==
  ASSUME ThreatTypeOK, NEW r \in Readers, reader[r].pc # "idle"
  PROVE  /\ Event(r) \in Events /\ DeviceAt(r) \in Names \X Fingerprints
         /\ Event(r).user \in Names /\ Event(r).place \in Addresses
<1>1. Topic(r) \in {"auth", "access", "policy"}
  BY DEF Topic, Readers
<1>2. log[Topic(r)] \in Seq(Events) /\ Len(log[Topic(r)]) \in Nat
  BY <1>1 DEF ThreatTypeOK
<1>3. reader[r].next - 1 \in 1..Len(log[Topic(r)])
  BY <1>2, ReaderFields DEF ThreatTypeOK
<1>4. Event(r) \in Events
  BY <1>2, <1>3 DEF Event
<1> QED
  BY <1>4 DEF DeviceAt, Names, Addresses, Fingerprints

\* FetchMessage goes to the next message, with the keys it counts for.
LEMMA FetchMoves ==
  ASSUME ThreatTypeOK, NEW r \in Readers, FetchMessage(r)
  PROVE  /\ reader[r].pc = "idle" /\ reader[r].next <= Len(log[Topic(r)])
         /\ \E new \in ReaderStates : /\ Moves(r, new) /\ new.pc = "process" /\ new.next = reader[r].next + 1
                                      /\ new.committed = reader[r].committed /\ new.alert = reader[r].alert
<1> DEFINE e == log[Topic(r)][reader[r].next]
           t == Keys(r, e)
           n == reader[r].next + 1
           new == [reader[r] EXCEPT !.next = n, !.pc = "process", !.todo = t]
<1>1. reader \in [Readers -> ReaderStates] /\ reader[r] \in ReaderStates /\ reader[r].next \in Nat \ {0}
  BY ReaderFields DEF ThreatTypeOK
<1>2. Topic(r) \in {"auth", "access", "policy"}
  BY DEF Topic, Readers
<1>3. log[Topic(r)] \in Seq(Events) /\ Len(log[Topic(r)]) \in Nat
  BY <1>2 DEF ThreatTypeOK
<1>4. reader[r].pc = "idle" /\ reader[r].next <= Len(log[Topic(r)])
  BY DEF FetchMessage
<1>5. e \in Events
  BY <1>1, <1>3, <1>4
<1>6. t \in Seq(Watched)
  <2>1. <<"ip", e.place>> \in Watched /\ <<"user", e.user>> \in Watched
    BY <1>5 DEF Watched, Names, Addresses
  <2>2. <<<<"ip", e.place>>, <<"user", e.user>>>> \in Seq(Watched) /\ <<>> \in Seq(Watched)
    BY <2>1
  <2> QED
    BY <2>2 DEF Keys
<1>7. reader' = [reader EXCEPT ![r] = new]
  BY <1>1 DEF FetchMessage
<1> HIDE DEF t, e
<1>8. n \in Nat \ {0}
  BY <1>1
<1>9. /\ new \in ReaderStates /\ new.pc = "process" /\ new.next = n
      /\ new.committed = reader[r].committed /\ new.alert = reader[r].alert
  <2> HIDE DEF n
  <2> QED
    BY <1>1, <1>6, <1>8 DEF ReaderStates
<1> HIDE DEF new
<1> QED
  BY <1>4, <1>7, <1>9, Moved

-----------------------------------------------------------------------------
(* What a step of a reader keeps, one part of the invariant at a time.     *)

\* The topic has grown.
Grown ==
  /\ Len(topic) <= Len(topic')
  /\ \A i \in 1..Len(topic) : topic'[i] = topic[i]

\* Keys are set and expire, but those of fired alerts stay to the end of their life.
KeysKept ==
  /\ \A k \in keys' : now' < k.until
  /\ \A x \in keys : (\E y : x.key = <<"fired", y>>) /\ now' < x.until => x \in keys'

\* The types, after a step of r.
LEMMA TypeStep ==
  ASSUME ThreatTypeOK, NEW r \in Readers, NEW new \in ReaderStates, Moves(r, new),
         UNCHANGED <<log, owner, now>>, faults' \in 0..MaxFaults, KeysKept,
         new.committed <= new.next, new.next <= Len(log[Topic(r)]) + 1,
         new.pc # "idle" => new.next > 1, new.alert.id <= Len(stored'),
         devices' \subseteq Names \X Fingerprints, suspects' \subseteq Names \X Fingerprints,
         stored' \in Seq({"open"}), Len(stored) <= Len(stored'),
         topic' \in Seq(Alerts), \A i \in 1..Len(topic') : topic'[i].id <= Len(stored')
  PROVE  ThreatTypeOK'
<1>1. ASSUME NEW q \in Readers
      PROVE  /\ reader'[q].committed <= reader'[q].next
             /\ reader'[q].next <= Len(log'[Topic(q)]) + 1
             /\ reader'[q].pc # "idle" => reader'[q].next > 1
             /\ reader'[q].alert.id <= Len(stored')
  <2>1. CASE q = r
    BY <2>1 DEF Moves
  <2>2. CASE q # r
    <3>1. /\ reader'[q] = reader[q] /\ reader[q] \in ReaderStates
          /\ reader[q].alert.id <= Len(stored)
      BY <2>2 DEF Moves, ThreatTypeOK
    <3>2. reader[q].alert.id \in Nat /\ Len(stored) \in Nat /\ Len(stored') \in Nat
      BY <3>1, ReaderFields, AlertFields DEF ThreatTypeOK
    <3> QED
      BY <2>2, <3>1, <3>2 DEF ThreatTypeOK
  <2> QED
    BY <2>1, <2>2
<1>2. reader' \in [Readers -> ReaderStates]
  BY DEF Moves
<1> QED
  BY <1>1, <1>2 DEF ThreatTypeOK, KeysKept

\* A published alert stays published.
LEMMA ReportedStays ==
  ASSUME Grown, missed \subseteq missed', NEW s, Reported(s), Len(topic) \in Nat, Len(topic') \in Nat
  PROVE  Reported(s)'
  BY DEF Grown, Reported

\* The other readers have passed what they had passed.
LEMMA OthersPassed ==
  ASSUME ThreatInv, NEW r \in Readers, NEW new, Moves(r, new), done \subseteq done', failed \subseteq failed',
         NEW q \in Readers \ {r}
  PROVE  PassedOK(q)'
  BY DEF ThreatInv, Moves, PassedOK

\* A reader that goes on with its event.
LEMMA SamePassed ==
  ASSUME ThreatInv, NEW r \in Readers, NEW new, Moves(r, new), done \subseteq done', failed \subseteq failed',
         new.next = reader[r].next, new.committed = reader[r].committed,
         reader[r].pc # "idle", new.pc # "idle"
  PROVE  \A q \in Readers : PassedOK(q)'
<1>1. PassedOK(r)'
  BY DEF ThreatInv, Moves, PassedOK
<1> QED
  BY <1>1, OthersPassed

\* A reader that ends its event, and may commit.
LEMMA EndPassed ==
  ASSUME ThreatTypeOK, ThreatInv, NEW r \in Readers, NEW new \in ReaderStates, Moves(r, new),
         done \subseteq done', failed \subseteq failed',
         <<r, reader[r].next - 1>> \in done' \cup failed',
         new.committed = reader[r].committed \/ <<r, reader[r].next - 1>> \in done',
         new.next = reader[r].next, new.committed \in {reader[r].committed, reader[r].next},
         reader[r].pc # "idle", new.pc = "idle"
  PROVE  \A q \in Readers : PassedOK(q)'
<1>1. reader[r].next \in Nat \ {0} /\ reader[r].committed \in Nat \ {0}
  BY ReaderFields DEF ThreatTypeOK
<1>2. PassedOK(r)
  BY DEF ThreatInv
<1>3. ASSUME NEW i \in 1..reader[r].next - 1 PROVE <<r, i>> \in (done \cup failed)'
  <2>1. CASE i < reader[r].next - 1
    BY <1>2, <2>1 DEF PassedOK
  <2>2. CASE i = reader[r].next - 1
    BY <2>2
  <2> QED
    BY <1>1, <2>1, <2>2
<1>4. ASSUME NEW i \in 1..new.committed - 1 PROVE <<r, i>> \in (done \cup failed)'
  <2>1. CASE new.committed = reader[r].next
    BY <1>3, <2>1
  <2>2. CASE new.committed = reader[r].committed
    BY <1>2, <2>2 DEF PassedOK
  <2> QED
    BY <2>1, <2>2
<1>5. new.committed > 1 => <<r, new.committed - 1>> \in done'
  <2>1. CASE new.committed = reader[r].committed
    BY <1>2, <2>1 DEF PassedOK
  <2>2. CASE new.committed = reader[r].next /\ <<r, reader[r].next - 1>> \in done'
    BY <2>2
  <2> QED
    BY <2>1, <2>2
<1>6. PassedOK(r)'
  BY <1>3, <1>4, <1>5 DEF PassedOK, Moves
<1> QED
  BY <1>6, OthersPassed

\* What the other readers have in hand.
LEMMA OthersInHand ==
  ASSUME ThreatTypeOK, ThreatInv, NEW r \in Readers, NEW new, Moves(r, new), log' = log,
         Grown, Len(topic') \in Nat, missed \subseteq missed', devices \subseteq devices',
         suspects' \subseteq suspects \/ r = "auth", NEW q \in Readers \ {r}
  PROVE  InHandOK(q)'
<1>1. reader'[q] = reader[q] /\ InHandOK(q)
  BY DEF Moves, ThreatInv
<1>2. DeviceAt(q)' = DeviceAt(q)
  BY <1>1 DEF DeviceAt, Event
<1>3. Len(topic) \in Nat
  BY DEF ThreatTypeOK
<1> DEFINE d == DeviceAt(q)
<1>4. Reported(d) => Reported(d)'
  <2> SUFFICES ASSUME Reported(d) PROVE Reported(d)'
    OBVIOUS
  <2>1. PICK e : e = d
    OBVIOUS
  <2>2. Reported(e)'
    BY <1>3, <2>1, ReportedStays
  <2> QED
    BY <1>2, <2>1, <2>2
<1>5. reader[q].pc = "learn" =>
        q = "auth" /\ (d \in suspects' => d \in devices' \/ Reported(d)')
  BY <1>1, <1>4 DEF InHandOK
<1> QED
  BY <1>1, <1>2, <1>5 DEF InHandOK

\* The alerts, when nothing is published and no brute force alert is new.
LEMMA QuietAlerts ==
  ASSUME ThreatTypeOK, ThreatInv, NEW r \in Readers, NEW new, Moves(r, new),
         KeysKept, UNCHANGED <<topic, now>>,
         \/ new.alert.detector # "brute_force"
         \/ /\ new.alert.detector = reader[r].alert.detector
            /\ new.alert.key = reader[r].alert.key /\ new.alert.at = reader[r].alert.at
  PROVE  AlertsOK'
<1>1. AlertsOK
  BY DEF ThreatInv
<1>2. ASSUME NEW a, FiredOK(a) PROVE FiredOK(a)'
  BY <1>2 DEF FiredOK, KeysKept
<1>3. ASSUME NEW i \in 1..Len(topic') PROVE FiredOK(topic[i])'
  <2>1. PICK a : a = topic[i]
    OBVIOUS
  <2>2. FiredOK(a)
    BY <1>1, <2>1 DEF AlertsOK
  <2>3. FiredOK(a)'
    BY <1>2, <2>2
  <2> QED
    BY <2>1, <2>3 DEF FiredOK
<1>4. ASSUME NEW q \in Readers PROVE FiredOK(reader[q].alert)'
  <2>1. PICK a : a = reader[q].alert
    OBVIOUS
  <2>2. FiredOK(a)
    BY <1>1, <2>1 DEF AlertsOK
  <2>3. FiredOK(a)'
    BY <1>2, <2>2
  <2>4. CASE q = r
    BY <2>1, <2>3, <2>4 DEF FiredOK, Moves
  <2>5. CASE q # r
    BY <2>1, <2>3, <2>5 DEF FiredOK, Moves
  <2> QED
    BY <2>4, <2>5
<1>5. ASSUME NEW q \in Readers, NEW i \in 1..Len(topic') PROVE Apart(topic[i], reader[q].alert)'
  BY <1>1 DEF AlertsOK, Moves, Apart
<1>6. \A i, j \in 1..Len(topic') : i < j => Apart(topic[i], topic[j])'
  BY <1>1 DEF AlertsOK, Apart
<1> QED
  BY <1>3, <1>4, <1>5, <1>6 DEF AlertsOK

\* A key that is set with another name leaves those of fired alerts alone.
LEMMA SetKeyKept ==
  ASSUME ThreatTypeOK, NEW k, NEW v, NEW ttl \in Nat \ {0}, SetKey(k, v, ttl), now' = now,
         \A y : k # <<"fired", y>>
  PROVE  KeysKept
<1>1. now \in Nat /\ \A x \in keys : now < x.until
  BY DEF ThreatTypeOK
<1>2. ASSUME NEW x \in keys' PROVE now' < x.until
  <2>1. CASE x \in keys
    BY <1>1, <2>1
  <2>2. CASE x \notin keys
    <3>1. x = [key |-> k, val |-> v, until |-> now + ttl]
      BY <2>2 DEF SetKey
    <3> QED
      BY <1>1, <3>1
  <2> QED
    BY <2>1, <2>2
<1> QED
  BY <1>2 DEF KeysKept, SetKey, Key

\* Keys that are left alone are kept.
LEMMA SameKeysKept == ASSUME ThreatTypeOK, UNCHANGED <<keys, now>> PROVE KeysKept
  BY DEF ThreatTypeOK, KeysKept

\* A step within an event that neither raises nor publishes an alert of brute force
\* or account takeover.
LEMMA PlainStep ==
  ASSUME ThreatTypeOK, ThreatInv, NEW r \in Readers, NEW new \in ReaderStates, Moves(r, new),
         UNCHANGED <<log, owner, devices, stored, topic, threatHistory, now>>,
         faults' \in 0..MaxFaults, KeysKept, reader[r].pc # "idle",
         new.next = reader[r].next, new.committed = reader[r].committed,
         new.pc \notin {"idle", "learn"}, new.alert.id = 0,
         new.alert.detector \notin {"brute_force", "account_takeover"},
         new.pc \notin {"store", "publish"} => new.alert = NoAlert
  PROVE  ThreatTypeOK' /\ ThreatInv'
<1>1. UNCHANGED <<log, owner, devices, stored, topic, done, failed, missed, suspects, now>>
  BY DEF threatHistory
<1>2. Len(stored) \in Nat /\ Len(topic) \in Nat /\ Grown
  <2>1. stored \in Seq({"open"}) /\ topic \in Seq(Alerts)
    BY DEF ThreatTypeOK
  <2> QED
    BY <1>1, <2>1 DEF Grown
<1>3. ThreatTypeOK'
  <2>1. /\ reader[r].committed <= reader[r].next /\ reader[r].next <= Len(log[Topic(r)]) + 1
        /\ reader[r].next > 1 /\ devices \subseteq Names \X Fingerprints
        /\ suspects \subseteq Names \X Fingerprints
        /\ stored \in Seq({"open"}) /\ topic \in Seq(Alerts)
        /\ \A i \in 1..Len(topic) : topic[i].id <= Len(stored)
    BY DEF ThreatTypeOK
  <2> QED
    BY <1>1, <1>2, <2>1, TypeStep
<1>4. \A q \in Readers : PassedOK(q)'
  BY <1>1, SamePassed
<1>5. ASSUME NEW q \in Readers PROVE InHandOK(q)'
  <2>1. CASE q = r
    BY <2>1 DEF InHandOK, Moves
  <2>2. CASE q # r
    BY <1>1, <1>2, <2>2, OthersInHand
  <2> QED
    BY <2>1, <2>2
<1>6. AlertsOK'
  BY <1>1, QuietAlerts
<1>7. TakeoverOK'
  <2>1. TakeoverOK
    BY DEF ThreatInv
  <2> QED
    BY <1>1, <1>2, <2>1, ReportedStays DEF TakeoverOK
<1> QED
  BY <1>3, <1>4, <1>5, <1>6, <1>7 DEF ThreatInv

\* A reader under way within an event has no alert of its own.
LEMMA NothingInHand ==
  ASSUME ThreatInv, NEW r \in Readers, reader[r].pc \notin {"store", "publish"}
  PROVE  reader[r].alert = NoAlert
  BY DEF ThreatInv, InHandOK

\* A reader goes on to the commit.
LEMMA GotoCommit ==
  ASSUME ThreatTypeOK, ThreatInv, NEW r \in Readers, Goto(r, "commit"), reader[r].pc = "process",
         UNCHANGED <<log, owner, devices, stored, topic, threatHistory, now>>,
         faults' \in 0..MaxFaults, KeysKept
  PROVE  ThreatTypeOK' /\ ThreatInv'
<1>1. reader[r].alert = NoAlert
  BY NothingInHand
<1>2. PICK new \in ReaderStates : /\ Moves(r, new) /\ new.pc = "commit" /\ new.next = reader[r].next
                                  /\ new.committed = reader[r].committed /\ new.alert = reader[r].alert
  BY GotoMoves
<1> QED
  BY <1>1, <1>2, NoAlertFields, PlainStep

\* A reader raises an alert of a detector that neither holds back nor learns.
LEMMA RaisePlain ==
  ASSUME ThreatTypeOK, ThreatInv, NEW r \in Readers, NEW a \in Alerts, Raise(r, a), reader[r].pc = "process",
         a.id = 0, a.detector \notin {"brute_force", "account_takeover"},
         UNCHANGED <<log, owner, devices, stored, topic, threatHistory, now>>,
         faults' \in 0..MaxFaults, KeysKept
  PROVE  ThreatTypeOK' /\ ThreatInv'
<1>1. PICK new \in ReaderStates : /\ Moves(r, new) /\ new.pc = "store" /\ new.next = reader[r].next
                                  /\ new.committed = reader[r].committed /\ new.alert = a
  BY RaiseMoves
<1> QED
  BY <1>1, PlainStep

\* The alerts of the detectors.
LEMMA AlertTypes ==
  ASSUME ThreatTypeOK, NEW e \in Events
  PROVE  /\ TravelAlert(e) \in Alerts /\ TravelAlert(e).id = 0 /\ TravelAlert(e).detector = "impossible_travel"
         /\ OffHoursAlert(e) \in Alerts /\ OffHoursAlert(e).id = 0 /\ OffHoursAlert(e).detector = "off_hours_access"
         /\ TakeoverAlert(e) \in Alerts /\ TakeoverAlert(e).id = 0 /\ TakeoverAlert(e).detector = "account_takeover"
         /\ TakeoverAlert(e).key = <<e.user, e.device>>
         /\ ExfiltrationAlert(e) \in Alerts /\ ExfiltrationAlert(e).id = 0
         /\ ExfiltrationAlert(e).detector = "data_exfiltration"
         /\ EscalationAlert(e) \in Alerts /\ EscalationAlert(e).id = 0
         /\ EscalationAlert(e).detector = "privilege_escalation"
<1>1. now \in Nat /\ e.user \in Names /\ e.device \in Fingerprints
  BY DEF ThreatTypeOK, Names, Fingerprints
<1>2. <<"user", e.user>> \in Watched /\ <<e.user, e.device>> \in Names \X Fingerprints
  BY <1>1 DEF Watched
<1>3. PICK k \in Watched : k = <<"user", e.user>>
  BY <1>2
<1>4. PICK l \in Names \X Fingerprints : l = <<e.user, e.device>>
  BY <1>2
<1>5. TravelAlert(e) \in Alerts /\ TravelAlert(e).id = 0 /\ TravelAlert(e).detector = "impossible_travel"
  BY <1>1, <1>3 DEF TravelAlert, Alert, Alerts
<1>6. OffHoursAlert(e) \in Alerts /\ OffHoursAlert(e).id = 0 /\ OffHoursAlert(e).detector = "off_hours_access"
  BY <1>1, <1>3 DEF OffHoursAlert, Alert, Alerts
<1>7. /\ TakeoverAlert(e) \in Alerts /\ TakeoverAlert(e).id = 0 /\ TakeoverAlert(e).detector = "account_takeover"
      /\ TakeoverAlert(e).key = <<e.user, e.device>>
  BY <1>1, <1>4 DEF TakeoverAlert, Alert, Alerts
<1>8. /\ ExfiltrationAlert(e) \in Alerts /\ ExfiltrationAlert(e).id = 0
      /\ ExfiltrationAlert(e).detector = "data_exfiltration"
  BY <1>1, <1>3 DEF ExfiltrationAlert, Alert, Alerts
<1>9. /\ EscalationAlert(e) \in Alerts /\ EscalationAlert(e).id = 0
      /\ EscalationAlert(e).detector = "privilege_escalation"
  BY <1>1, <1>3 DEF EscalationAlert, Alert, Alerts
<1> QED
  BY <1>5, <1>6, <1>7, <1>8, <1>9

-----------------------------------------------------------------------------
(* The steps of the loop.                                                  *)

\* FetchMessage.
LEMMA FetchKeeps ==
  ASSUME ThreatTypeOK, ThreatInv, NEW r \in Readers, FetchMessage(r), log' = log
  PROVE  ThreatTypeOK' /\ ThreatInv'
<1>1. reader[r].pc = "idle" /\ reader[r].next <= Len(log[Topic(r)])
  BY FetchMoves
<1>2. PICK new \in ReaderStates : /\ Moves(r, new) /\ new.pc = "process" /\ new.next = reader[r].next + 1
                                  /\ new.committed = reader[r].committed /\ new.alert = reader[r].alert
  BY FetchMoves
<1>3. reader[r].alert = NoAlert
  BY <1>1, NothingInHand
<1>4. UNCHANGED <<log, owner, keys, devices, stored, topic, done, failed, missed, suspects, now, faults>>
  BY DEF FetchMessage, threatHistory, redis
<1>5. /\ reader[r].committed <= reader[r].next
      /\ devices \subseteq Names \X Fingerprints /\ suspects \subseteq Names \X Fingerprints
      /\ stored \in Seq({"open"}) /\ topic \in Seq(Alerts) /\ faults \in 0..MaxFaults
      /\ \A i \in 1..Len(topic) : topic[i].id <= Len(stored)
  BY DEF ThreatTypeOK
<1>6. reader[r].next \in Nat \ {0} /\ reader[r].committed \in Nat \ {0}
  BY ReaderFields DEF ThreatTypeOK
<1>7. Len(stored) \in Nat /\ Len(topic) \in Nat /\ Grown
  BY <1>4, <1>5 DEF Grown
<1>8. KeysKept
  BY <1>4, SameKeysKept
<1>9. ThreatTypeOK'
  <2>1. Topic(r) \in {"auth", "access", "policy"}
    BY DEF Topic, Readers
  <2>2. Len(log[Topic(r)]) \in Nat
    BY <2>1 DEF ThreatTypeOK
  <2>3. /\ new.committed <= new.next /\ new.next <= Len(log[Topic(r)]) + 1 /\ new.next > 1
        /\ new.alert.id <= Len(stored')
    BY <1>1, <1>2, <1>3, <1>4, <1>5, <1>6, <1>7, <2>2, NoAlertFields
  <2> QED
    BY <1>2, <1>4, <1>5, <1>7, <1>8, <2>3, TypeStep
<1>10. ASSUME NEW q \in Readers PROVE PassedOK(q)'
  <2>1. CASE q = r
    <3>1. PassedOK(r)
      BY DEF ThreatInv
    <3>2. /\ \A i \in 1..reader[r].next - 1 : <<r, i>> \in done \cup failed
          /\ \A i \in 1..reader[r].committed - 1 : <<r, i>> \in done \cup failed
          /\ reader[r].committed > 1 => <<r, reader[r].committed - 1>> \in done
      BY <1>1, <3>1 DEF PassedOK
    <3> QED
      BY <1>2, <1>4, <1>6, <2>1, <3>2 DEF PassedOK, Moves
  <2>2. CASE q # r
    BY <1>2, <1>4, <2>2, OthersPassed
  <2> QED
    BY <2>1, <2>2
<1>11. ASSUME NEW q \in Readers PROVE InHandOK(q)'
  <2>1. CASE q = r
    BY <1>2, <1>3, <2>1, NoAlertFields DEF InHandOK, Moves
  <2>2. CASE q # r
    BY <1>2, <1>4, <1>7, <2>2, OthersInHand
  <2> QED
    BY <2>1, <2>2
<1>12. AlertsOK'
  BY <1>2, <1>4, <1>8, QuietAlerts
<1>13. TakeoverOK'
  <2>1. TakeoverOK
    BY DEF ThreatInv
  <2> QED
    BY <1>4, <1>7, <2>1, ReportedStays DEF TakeoverOK
<1> QED
  BY <1>9, <1>10, <1>11, <1>12, <1>13 DEF ThreatInv

\* A reader ends its event: the processing failed, or the message is committed.
LEMMA EndKeeps ==
  ASSUME ThreatTypeOK, ThreatInv, NEW r \in Readers, reader[r].pc # "idle",
         NEW c \in {reader[r].committed, reader[r].next}, reader' = [reader EXCEPT ![r] = Idle(@.next, c)],
         UNCHANGED <<log, owner, keys, devices, stored, topic, missed, suspects, now>>,
         done \subseteq done', failed \subseteq failed',
         <<r, reader[r].next - 1>> \in done' \cup failed',
         c = reader[r].committed \/ <<r, reader[r].next - 1>> \in done', faults' \in 0..MaxFaults
  PROVE  ThreatTypeOK' /\ ThreatInv'
<1> DEFINE new == Idle(reader[r].next, c)
<1>1. reader[r].next \in Nat \ {0} /\ reader[r].committed \in Nat \ {0}
  BY ReaderFields DEF ThreatTypeOK
<1>2. /\ new \in ReaderStates /\ new.pc = "idle" /\ new.next = reader[r].next
      /\ new.committed = c /\ new.alert = NoAlert
  BY <1>1, IdleFields
<1>3. reader' = [reader EXCEPT ![r] = new]
  BY DEF ThreatTypeOK
<1> HIDE DEF new
<1>4. Moves(r, new)
  BY <1>2, <1>3, Moved
<1>5. /\ reader[r].committed <= reader[r].next /\ reader[r].next <= Len(log[Topic(r)]) + 1
      /\ devices \subseteq Names \X Fingerprints /\ suspects \subseteq Names \X Fingerprints
      /\ stored \in Seq({"open"}) /\ topic \in Seq(Alerts)
      /\ \A i \in 1..Len(topic) : topic[i].id <= Len(stored)
  BY DEF ThreatTypeOK
<1>6. Len(stored) \in Nat /\ Len(topic) \in Nat /\ Grown
  BY <1>5 DEF Grown
<1>7. KeysKept
  BY SameKeysKept
<1>8. ThreatTypeOK'
  <2>1. /\ new.committed <= new.next /\ new.next <= Len(log[Topic(r)]) + 1
        /\ new.alert.id <= Len(stored')
    BY <1>1, <1>2, <1>5, <1>6, NoAlertFields
  <2> QED
    BY <1>2, <1>4, <1>5, <1>6, <1>7, <2>1, TypeStep
<1>9. \A q \in Readers : PassedOK(q)'
  BY <1>2, <1>4, EndPassed
<1>10. ASSUME NEW q \in Readers PROVE InHandOK(q)'
  <2>1. CASE q = r
    BY <1>2, <1>4, <2>1, NoAlertFields DEF InHandOK, Moves
  <2>2. CASE q # r
    BY <1>2, <1>4, <1>6, <2>2, OthersInHand
  <2> QED
    BY <2>1, <2>2
<1>11. AlertsOK'
  BY <1>2, <1>4, <1>7, NoAlertFields, QuietAlerts
<1>12. TakeoverOK'
  <2>1. TakeoverOK
    BY DEF ThreatInv
  <2> QED
    BY <1>6, <2>1, ReportedStays DEF TakeoverOK
<1> QED
  BY <1>8, <1>9, <1>10, <1>11, <1>12 DEF ThreatInv

\* ProcessFails and CommitMessages.
LEMMA FailsAndCommits ==
  ASSUME ThreatTypeOK, ThreatInv, NEW r \in Readers, ProcessFails(r) \/ CommitMessages(r), log' = log
  PROVE  ThreatTypeOK' /\ ThreatInv'
<1>1. faults \in 0..MaxFaults /\ MaxFaults \in Nat /\ reader \in [Readers -> ReaderStates]
  BY LimitsAssumption DEF ThreatTypeOK
<1>2. CASE ProcessFails(r)
  <2>1. faults' \in 0..MaxFaults /\ reader[r].pc # "idle"
    BY <1>1, <1>2 DEF ProcessFails, Fault
  <2>2. /\ done \subseteq done' /\ failed \subseteq failed'
        /\ <<r, reader[r].next - 1>> \in done' \cup failed'
        /\ UNCHANGED <<log, owner, keys, devices, stored, topic, missed, suspects, now>>
    BY <1>2 DEF ProcessFails, redis
  <2>3. PICK c : c = reader[r].committed
    OBVIOUS
  <2>4. reader' = [reader EXCEPT ![r] = Idle(@.next, c)]
    BY <1>1, <1>2, <2>3 DEF ProcessFails
  <2> QED
    BY <2>1, <2>2, <2>3, <2>4, EndKeeps
<1>3. CASE CommitMessages(r)
  <2>1. faults' \in 0..MaxFaults /\ reader[r].pc # "idle"
    BY <1>1, <1>3 DEF CommitMessages, Fault
  <2>2. /\ done \subseteq done' /\ failed \subseteq failed'
        /\ <<r, reader[r].next - 1>> \in done'
        /\ UNCHANGED <<log, owner, keys, devices, stored, topic, missed, suspects, now>>
    BY <1>3 DEF CommitMessages, redis
  <2>3. PICK c \in {reader[r].committed, reader[r].next} : reader' = [reader EXCEPT ![r] = Idle(@.next, c)]
    BY <1>1, <1>3 DEF CommitMessages
  <2> QED
    BY <2>1, <2>2, <2>3, EndKeeps
<1> QED
  BY <1>2, <1>3

-----------------------------------------------------------------------------
(* The steps of the detectors.                                             *)

\* The detectors of auth.events work for its reader.
LEMMA AuthReader ==
  ASSUME ThreatTypeOK, NEW r \in Readers, NEW d \in AuthDetectors, Processing(r, d)
  PROVE  r = "auth" /\ reader[r].pc = "process"
  BY DEF Processing, Detector, AuthDetectors, Readers

\* Impossible travel.
LEMMA TravelKeeps ==
  ASSUME ThreatTypeOK, ThreatInv, NEW r \in Readers, ImpossibleTravel(r), log' = log
  PROVE  ThreatTypeOK' /\ ThreatInv'
<1> DEFINE e == Event(r)
<1>1. reader[r].pc = "process"
  BY DEF ImpossibleTravel, Processing
<1>2. e \in Events
  BY <1>1, EventAt
<1>3. /\ UNCHANGED <<log, owner, devices, stored, topic, threatHistory, now>> /\ faults' \in 0..MaxFaults
      /\ now' = now
  BY DEF ImpossibleTravel, ThreatTypeOK
<1>4. KeysKept
  <2>1. CASE keys' = keys
    BY <1>3, <2>1, SameKeysKept
  <2>2. CASE SetKey(<<"travel", e.user>>, e.place, Hour)
    <3>1. Hour \in Nat \ {0} /\ \A y : <<"travel", e.user>> # <<"fired", y>>
      BY WindowsAssumption
    <3> QED
      BY <1>3, <2>2, <3>1, SetKeyKept
  <2> QED
    BY <2>1, <2>2 DEF ImpossibleTravel
<1>5. Goto(r, "commit") \/ Raise(r, TravelAlert(e))
  BY DEF ImpossibleTravel
<1>6. CASE Goto(r, "commit")
  BY <1>1, <1>3, <1>4, <1>6, GotoCommit
<1>7. CASE Raise(r, TravelAlert(e))
  <2>1. /\ TravelAlert(e) \in Alerts /\ TravelAlert(e).id = 0 /\ TravelAlert(e).detector = "impossible_travel"
    BY <1>2, AlertTypes
  <2> QED
    BY <1>1, <1>3, <1>4, <1>7, <2>1, RaisePlain
<1> QED
  BY <1>5, <1>6, <1>7

\* Off hours.
LEMMA OffHoursKeeps ==
  ASSUME ThreatTypeOK, ThreatInv, NEW r \in Readers, OffHours(r), log' = log
  PROVE  ThreatTypeOK' /\ ThreatInv'
<1> DEFINE e == Event(r)
           day == now \div DayLength
<1>1. reader[r].pc = "process"
  BY DEF OffHours, Processing
<1>2. e \in Events
  BY <1>1, EventAt
<1>3. /\ UNCHANGED <<log, owner, devices, stored, topic, threatHistory, now>> /\ faults' \in 0..MaxFaults
      /\ now' = now
  BY DEF OffHours, ThreatTypeOK
<1>4. KeysKept
  <2>1. CASE keys' = keys
    BY <1>3, <2>1, SameKeysKept
  <2>2. CASE SetKey(<<"offhours", e.user, day>>, "1", InHoursTTL)
    <3>1. InHoursTTL \in Nat \ {0} /\ \A y : <<"offhours", e.user, day>> # <<"fired", y>>
      BY WindowsAssumption
    <3> QED
      BY <1>3, <2>2, <3>1, SetKeyKept
  <2> QED
    BY <2>1, <2>2 DEF OffHours
<1>5. Goto(r, "commit") \/ Raise(r, OffHoursAlert(e))
  BY DEF OffHours
<1>6. CASE Goto(r, "commit")
  BY <1>1, <1>3, <1>4, <1>6, GotoCommit
<1>7. CASE Raise(r, OffHoursAlert(e))
  <2>1. /\ OffHoursAlert(e) \in Alerts /\ OffHoursAlert(e).id = 0 /\ OffHoursAlert(e).detector = "off_hours_access"
    BY <1>2, AlertTypes
  <2> QED
    BY <1>1, <1>3, <1>4, <1>7, <2>1, RaisePlain
<1> QED
  BY <1>5, <1>6, <1>7

\* Data exfiltration, the two readers of privilege escalation, and the end of brute
\* force.
LEMMA OtherDetectorsKeep ==
  ASSUME ThreatTypeOK, ThreatInv, NEW r \in Readers, log' = log,
         DataExfiltration(r) \/ RecentLogin(r) \/ PrivilegeEscalation(r) \/ BruteForce(r)
  PROVE  ThreatTypeOK' /\ ThreatInv'
<1> DEFINE e == Event(r)
<1>1. reader[r].pc = "process"
  BY DEF DataExfiltration, RecentLogin, PrivilegeEscalation, BruteForce, Processing
<1>2. e \in Events
  BY <1>1, EventAt
<1>3. /\ UNCHANGED <<log, owner, devices, stored, topic, threatHistory, now>> /\ faults' \in 0..MaxFaults
      /\ now' = now
  BY DEF DataExfiltration, RecentLogin, PrivilegeEscalation, BruteForce, redis, ThreatTypeOK
<1>4. KeysKept
  <2>1. CASE keys' = keys
    BY <1>3, <2>1, SameKeysKept
  <2>2. CASE SetKey(<<"login", e.user>>, "1", Hour)
    <3>1. Hour \in Nat \ {0} /\ \A y : <<"login", e.user>> # <<"fired", y>>
      BY WindowsAssumption
    <3> QED
      BY <1>3, <2>2, <3>1, SetKeyKept
  <2> QED
    BY <2>1, <2>2 DEF DataExfiltration, RecentLogin, PrivilegeEscalation, BruteForce, redis
<1>5. Goto(r, "commit") \/ Raise(r, ExfiltrationAlert(e)) \/ Raise(r, EscalationAlert(e))
  BY DEF DataExfiltration, RecentLogin, PrivilegeEscalation, BruteForce
<1>6. CASE Goto(r, "commit")
  BY <1>1, <1>3, <1>4, <1>6, GotoCommit
<1>7. CASE Raise(r, ExfiltrationAlert(e))
  <2>1. /\ ExfiltrationAlert(e) \in Alerts /\ ExfiltrationAlert(e).id = 0
        /\ ExfiltrationAlert(e).detector = "data_exfiltration"
    BY <1>2, AlertTypes
  <2> QED
    BY <1>1, <1>3, <1>4, <1>7, <2>1, RaisePlain
<1>8. CASE Raise(r, EscalationAlert(e))
  <2>1. /\ EscalationAlert(e) \in Alerts /\ EscalationAlert(e).id = 0
        /\ EscalationAlert(e).detector = "privilege_escalation"
    BY <1>2, AlertTypes
  <2> QED
    BY <1>1, <1>3, <1>4, <1>8, <2>1, RaisePlain
<1> QED
  BY <1>5, <1>6, <1>7, <1>8

\* The first alert of a key in its window: every earlier one of the key is a window
\* ago.
LEMMA FirstAlert ==
  ASSUME ThreatTypeOK, ThreatInv, NEW r \in Readers, NEW new, Moves(r, new),
         NEW k, FirstInWindow(k), UNCHANGED <<topic, now>>,
         new.alert.detector = "brute_force", new.alert.key = k, new.alert.at = now
  PROVE  KeysKept /\ \A i \in 1..Len(topic) : Apart(topic[i], new.alert)
<1>1. now \in Nat /\ WindowSize \in Nat \ {0} /\ \A x \in keys : now < x.until
  BY WindowsAssumption DEF ThreatTypeOK
<1>2. keys' = keys \cup {[key |-> <<"fired", k>>, val |-> "1", until |-> now + WindowSize]}
  BY DEF FirstInWindow, SetKey
<1>3. KeysKept
  BY <1>1, <1>2 DEF KeysKept
<1>4. ASSUME NEW i \in 1..Len(topic) PROVE Apart(topic[i], new.alert)
  <2>1. FiredOK(topic[i])
    BY DEF ThreatInv, AlertsOK
  <2>2. topic[i].at \in Nat
    BY AlertFields DEF ThreatTypeOK
  <2> SUFFICES ASSUME topic[i].detector = "brute_force", topic[i].key = k
               PROVE  now >= topic[i].at + WindowSize
    BY DEF Apart
  <2>3. ~ \E x \in keys : x.key = <<"fired", k>>
    BY DEF FirstInWindow, Key
  <2> QED
    BY <1>1, <2>1, <2>2, <2>3 DEF FiredOK
<1> QED
  BY <1>3, <1>4

\* A step within an event keeps the invariant when it keeps the parts about its own
\* reader and the alerts.
LEMMA StepKeeps ==
  ASSUME ThreatTypeOK, ThreatInv, NEW r \in Readers, NEW new \in ReaderStates, Moves(r, new),
         UNCHANGED <<log, owner, done, failed, now>>, faults' \in 0..MaxFaults, KeysKept,
         reader[r].pc # "idle", new.pc # "idle",
         new.next = reader[r].next, new.committed = reader[r].committed,
         devices \subseteq devices', devices' \subseteq Names \X Fingerprints,
         suspects' \subseteq suspects \/ r = "auth", suspects' \subseteq Names \X Fingerprints,
         missed \subseteq missed', Grown, topic' \in Seq(Alerts),
         stored' \in Seq({"open"}), Len(stored) <= Len(stored'),
         new.alert.id <= Len(stored'), \A i \in 1..Len(topic') : topic'[i].id <= Len(stored'),
         InHandOK(r)', AlertsOK', TakeoverOK'
  PROVE  ThreatTypeOK' /\ ThreatInv'
<1>1. /\ reader[r].committed <= reader[r].next /\ reader[r].next <= Len(log[Topic(r)]) + 1
      /\ reader[r].next > 1
  BY DEF ThreatTypeOK
<1>2. ThreatTypeOK'
  BY <1>1, TypeStep
<1>3. \A q \in Readers : PassedOK(q)'
  BY SamePassed
<1>4. Len(topic') \in Nat
  OBVIOUS
<1>5. \A q \in Readers \ {r} : InHandOK(q)'
  BY <1>4, OthersInHand
<1> QED
  BY <1>2, <1>3, <1>5 DEF ThreatInv

\* What the types say of what the steps below leave alone.
LEMMA Facts ==
  ASSUME ThreatTypeOK
  PROVE  /\ devices \subseteq Names \X Fingerprints /\ suspects \subseteq Names \X Fingerprints
         /\ stored \in Seq({"open"}) /\ Len(stored) \in Nat /\ topic \in Seq(Alerts) /\ Len(topic) \in Nat
         /\ \A i \in 1..Len(topic) : topic[i] \in Alerts /\ topic[i].id <= Len(stored)
         /\ faults \in 0..MaxFaults /\ MaxFaults \in Nat /\ now \in Nat
         /\ reader \in [Readers -> ReaderStates] /\ \A q \in Readers : reader[q].alert.id <= Len(stored)
<1>1. /\ devices \subseteq Names \X Fingerprints /\ suspects \subseteq Names \X Fingerprints
      /\ stored \in Seq({"open"}) /\ topic \in Seq(Alerts)
      /\ \A i \in 1..Len(topic) : topic[i].id <= Len(stored)
      /\ faults \in 0..MaxFaults /\ now \in Nat
      /\ reader \in [Readers -> ReaderStates] /\ \A q \in Readers : reader[q].alert.id <= Len(stored)
  BY DEF ThreatTypeOK
<1>2. MaxFaults \in Nat
  BY LimitsAssumption
<1> QED
  BY <1>1, <1>2

\* trackFailedAttempt counts, and raises an alert when it is the first in its window.
LEMMA TrackKeeps ==
  ASSUME ThreatTypeOK, ThreatInv, NEW r \in Readers, trackFailedAttempt(r), log' = log
  PROVE  ThreatTypeOK' /\ ThreatInv'
<1> DEFINE k == Head(reader[r].todo)
           rest == [reader EXCEPT ![r].todo = Tail(@)]
           t == Tail(reader[r].todo)
<1>1. r = "auth" /\ reader[r].pc = "process"
  <2>1. "brute_force" \in AuthDetectors /\ Processing(r, "brute_force")
    BY DEF AuthDetectors, trackFailedAttempt
  <2> QED
    BY <2>1, AuthReader
<1>2. reader[r] \in ReaderStates /\ reader[r].todo \in Seq(Watched) /\ reader[r].todo # <<>>
  BY ReaderFields DEF ThreatTypeOK, trackFailedAttempt
<1>3. k \in Watched /\ t \in Seq(Watched)
  BY <1>2
<1>4. UNCHANGED <<log, owner, devices, stored, topic, threatHistory, now>>
  BY DEF trackFailedAttempt
<1>5. faults' \in 0..MaxFaults
  BY Facts DEF trackFailedAttempt, Fault
<1>6. reader[r].alert = NoAlert
  BY <1>1, NothingInHand
<1>7. CASE keys' = keys /\ reader' = rest
  <2> DEFINE new == [reader[r] EXCEPT !.todo = t]
  <2>1. reader' = [reader EXCEPT ![r] = new]
    BY <1>7, Facts
  <2>2. /\ new \in ReaderStates /\ new.pc = "process" /\ new.next = reader[r].next
        /\ new.committed = reader[r].committed /\ new.alert = NoAlert
    <3> HIDE DEF t
    <3> QED
      BY <1>1, <1>2, <1>3, <1>6 DEF ReaderStates
  <2> HIDE DEF new
  <2>3. Moves(r, new)
    BY <2>1, <2>2, Moved
  <2>4. KeysKept
    BY <1>4, <1>7, SameKeysKept
  <2> QED
    BY <1>1, <1>4, <1>5, <2>2, <2>3, <2>4, NoAlertFields, PlainStep
<1>8. CASE FirstInWindow(k) /\ reader' = [rest EXCEPT ![r].pc = "store", ![r].alert = BruteForceAlert(k)]
  <2> DEFINE a == BruteForceAlert(k)
             new == [reader[r] EXCEPT !.todo = t, !.pc = "store", !.alert = a]
  <2>1. reader' = [reader EXCEPT ![r] = new]
    BY <1>8, Facts
  <2>2. a \in Alerts /\ a.id = 0 /\ a.detector = "brute_force" /\ a.key = k /\ a.at = now
    <3>1. k[2] \in Names \cup Addresses
      BY <1>3 DEF Watched
    <3>2. PICK w \in Watched : w = k
      BY <1>3
    <3>3. a = [detector |-> "brute_force", org |-> "", user |-> w[2], key |-> w, at |-> now, id |-> 0]
      BY <3>2 DEF BruteForceAlert, Alert
    <3>4. PICK u \in Names \cup Addresses : u = w[2]
      BY <3>1, <3>2
    <3>5. now \in Nat
      BY Facts
    <3>6. a = [detector |-> "brute_force", org |-> "", user |-> u, key |-> w, at |-> now, id |-> 0]
      BY <3>3, <3>4
    <3> HIDE DEF a, k
    <3> QED
      BY <3>2, <3>4, <3>5, <3>6 DEF Alerts
  <2>3. /\ new \in ReaderStates /\ new.pc = "store" /\ new.next = reader[r].next
        /\ new.committed = reader[r].committed /\ new.alert = a
    <3> HIDE DEF t, a
    <3> QED
      BY <1>2, <1>3, <2>2 DEF ReaderStates
  <2> HIDE DEF new, a
  <2>4. Moves(r, new)
    BY <2>1, <2>3, Moved
  <2>5. KeysKept /\ \A i \in 1..Len(topic) : Apart(topic[i], a)
    BY <1>4, <1>8, <2>2, <2>3, <2>4, FirstAlert
  <2>6. InHandOK(r)'
    BY <1>1, <2>2, <2>3, <2>4 DEF InHandOK, Moves
  <2>7. AlertsOK'
    <3>1. AlertsOK
      BY DEF ThreatInv
    <3>2. UNCHANGED <<topic, now>>
      BY <1>4
    <3>3. ASSUME NEW b, FiredOK(b) PROVE FiredOK(b)'
      BY <2>5, <3>2, <3>3 DEF FiredOK, KeysKept
    <3>4. ASSUME NEW i \in 1..Len(topic') PROVE FiredOK(topic[i])'
      <4>1. PICK b : b = topic[i]
        OBVIOUS
      <4>2. FiredOK(b)
        BY <3>1, <3>2, <4>1 DEF AlertsOK
      <4>3. FiredOK(b)'
        BY <3>3, <4>2
      <4> QED
        BY <3>2, <4>1, <4>3 DEF FiredOK
    <3>5. ASSUME NEW q \in Readers PROVE FiredOK(reader[q].alert)'
      <4>1. CASE q = r
        <5>1. reader'[q].alert = a
          BY <2>3, <2>4, <4>1 DEF Moves
        <5>2. \E x \in keys' : x.key = <<"fired", k>> /\ x.until = now + WindowSize
          <6> DEFINE f == <<"fired", k>>
                     x == [key |-> f, val |-> "1", until |-> now + WindowSize]
          <6>1. x \in keys'
            BY <1>8 DEF FirstInWindow, SetKey
          <6>2. x.key = f /\ x.until = now + WindowSize
            OBVIOUS
          <6> HIDE DEF x
          <6> QED
            BY <6>1, <6>2
        <5> HIDE DEF k
        <5> QED
          BY <2>2, <3>2, <5>1, <5>2, Facts DEF FiredOK
      <4>2. CASE q # r
        <5>1. PICK b : b = reader[q].alert
          OBVIOUS
        <5>2. FiredOK(b)
          BY <3>1, <5>1 DEF AlertsOK
        <5>3. FiredOK(b)'
          BY <3>3, <5>2
        <5> QED
          BY <2>4, <4>2, <5>1, <5>3 DEF FiredOK, Moves
      <4> QED
        BY <4>1, <4>2
    <3>6. ASSUME NEW q \in Readers, NEW i \in 1..Len(topic') PROVE Apart(topic[i], reader[q].alert)'
      <4>1. CASE q = r
        BY <2>3, <2>4, <2>5, <3>2, <4>1 DEF Moves, Apart
      <4>2. CASE q # r
        BY <2>4, <3>1, <3>2, <4>2 DEF AlertsOK, Moves, Apart
      <4> QED
        BY <4>1, <4>2
    <3>7. \A i, j \in 1..Len(topic') : i < j => Apart(topic[i], topic[j])'
      BY <3>1, <3>2 DEF AlertsOK, Apart
    <3> QED
      BY <3>4, <3>5, <3>6, <3>7 DEF AlertsOK
  <2>8. TakeoverOK'
    <3>1. TakeoverOK
      BY DEF ThreatInv
    <3> QED
      BY <1>4, <3>1 DEF TakeoverOK, Reported, threatHistory
  <2>9. UNCHANGED <<log, owner, devices, stored, topic, done, failed, missed, suspects, now>>
    BY <1>4 DEF threatHistory
  <2>10. Grown /\ a.id <= Len(stored)
    BY <2>2, <2>9, Facts DEF Grown
  <2> QED
    BY <1>1, <1>5, <2>3, <2>4, <2>5, <2>6, <2>7, <2>8, <2>9, <2>10, Facts, StepKeeps
<1> QED
  BY <1>7, <1>8 DEF trackFailedAttempt

\* AccountTakeover: a suspect login is reported before its device is known.
LEMMA TakeoverKeeps ==
  ASSUME ThreatTypeOK, ThreatInv, NEW r \in Readers, AccountTakeover(r), log' = log
  PROVE  ThreatTypeOK' /\ ThreatInv'
<1> DEFINE e == Event(r)
           d == <<e.user, e.device>>
           changed == Key(<<"pwchange", e.user>>) # {}
<1>1. r = "auth" /\ reader[r].pc = "process"
  <2>1. "account_takeover" \in AuthDetectors /\ Processing(r, "account_takeover")
    BY DEF AuthDetectors, AccountTakeover
  <2> QED
    BY <2>1, AuthReader
<1>2. e \in Events /\ d = DeviceAt(r) /\ d \in Names \X Fingerprints
  BY <1>1, EventAt DEF DeviceAt
<1>3. UNCHANGED <<log, owner, window, devices, stored, topic, done, failed, missed, now, faults>>
  BY DEF AccountTakeover
<1>4. reader[r].alert = NoAlert /\ TakeoverOK
  BY <1>1, NothingInHand DEF ThreatInv
<1>5. CASE Goto(r, "commit") /\ UNCHANGED suspects /\ (keys' = keys \/ SetKey(<<"pwchange", e.user>>, "1", PasswordTTL))
  <2>1. KeysKept
    <3>1. PasswordTTL \in Nat \ {0} /\ \A y : <<"pwchange", e.user>> # <<"fired", y>>
      BY WindowsAssumption
    <3>2. now' = now
      BY <1>3
    <3> QED
      BY <1>5, <3>1, <3>2, SameKeysKept, SetKeyKept
  <2>2. UNCHANGED threatHistory /\ faults' \in 0..MaxFaults
    BY <1>3, <1>5, Facts DEF threatHistory
  <2> QED
    BY <1>1, <1>3, <1>5, <2>1, <2>2, GotoCommit
<1>6. CASE /\ keys' = keys /\ changed /\ d \notin devices
           /\ suspects' = suspects \cup {d} /\ Raise(r, TakeoverAlert(e))
  <2>1. /\ TakeoverAlert(e) \in Alerts /\ TakeoverAlert(e).id = 0 /\ TakeoverAlert(e).detector = "account_takeover"
        /\ TakeoverAlert(e).key = d
    BY <1>2, AlertTypes
  <2>2. PICK new \in ReaderStates : /\ Moves(r, new) /\ new.pc = "store" /\ new.next = reader[r].next
                                    /\ new.committed = reader[r].committed /\ new.alert = TakeoverAlert(e)
    BY <1>6, <2>1, RaiseMoves
  <2>3. KeysKept
    BY <1>3, <1>6, SameKeysKept
  <2>4. DeviceAt(r)' = DeviceAt(r)
    BY <1>3, <2>2 DEF DeviceAt, Event, Moves
  <2>5. InHandOK(r)'
    BY <1>1, <1>2, <2>1, <2>2, <2>4 DEF InHandOK, Moves
  <2>6. AlertsOK'
    BY <1>3, <2>1, <2>2, <2>3, QuietAlerts
  <2>7. TakeoverOK'
    BY <1>3, <1>4, <1>6 DEF TakeoverOK, Reported
  <2>8. Grown /\ new.alert.id <= Len(stored)
    BY <1>3, <2>1, <2>2, Facts DEF Grown
  <2>9. suspects' \subseteq Names \X Fingerprints
    BY <1>2, <1>6, Facts
  <2> HIDE DEF d, e
  <2> QED
    BY <1>1, <1>3, <2>2, <2>3, <2>5, <2>6, <2>7, <2>8, <2>9, Facts, StepKeeps
<1>7. CASE /\ keys' = keys /\ ~(changed /\ d \notin devices) /\ Goto(r, "learn")
           /\ suspects' = IF ~changed THEN suspects \ {d} ELSE suspects
  <2>1. PICK new \in ReaderStates : /\ Moves(r, new) /\ new.pc = "learn" /\ new.next = reader[r].next
                                    /\ new.committed = reader[r].committed /\ new.alert = reader[r].alert
    BY <1>7, GotoMoves
  <2>2. KeysKept
    BY <1>3, <1>7, SameKeysKept
  <2>3. DeviceAt(r)' = DeviceAt(r)
    BY <1>3, <2>1 DEF DeviceAt, Event, Moves
  <2>4. d \in suspects' => d \in devices'
    BY <1>3, <1>7
  <2>5. InHandOK(r)'
    BY <1>1, <1>2, <1>4, <2>1, <2>3, <2>4, NoAlertFields DEF InHandOK, Moves
  <2>6. AlertsOK'
    BY <1>3, <1>4, <2>1, <2>2, QuietAlerts
  <2>7. TakeoverOK'
    BY <1>3, <1>4, <1>7 DEF TakeoverOK, Reported
  <2>8. Grown /\ new.alert.id <= Len(stored)
    BY <1>3, <1>4, <2>1, NoAlertFields, Facts DEF Grown
  <2>9. suspects' \subseteq Names \X Fingerprints
    BY <1>7, Facts
  <2> HIDE DEF d, e
  <2> QED
    BY <1>1, <1>3, <2>1, <2>2, <2>5, <2>6, <2>7, <2>8, <2>9, Facts, StepKeeps
<1> QED
  BY <1>5, <1>6, <1>7 DEF AccountTakeover

\* LearnDevice: a suspect device was reported.
LEMMA LearnKeeps ==
  ASSUME ThreatTypeOK, ThreatInv, NEW r \in Readers, LearnDevice(r), log' = log
  PROVE  ThreatTypeOK' /\ ThreatInv'
<1> DEFINE d == DeviceAt(r)
<1>1. reader[r].pc = "learn" /\ Goto(r, "commit")
  BY DEF LearnDevice
<1>2. UNCHANGED <<log, owner, keys, stored, topic, done, failed, missed, suspects, now, faults>>
  BY DEF LearnDevice, threatHistory
<1>3. devices' = devices \cup {d} /\ d \in Names \X Fingerprints
  BY <1>1, EventAt DEF LearnDevice, DeviceAt
<1>4. reader[r].alert = NoAlert /\ TakeoverOK /\ (d \in suspects => d \in devices \/ Reported(d))
  BY <1>1, NothingInHand DEF ThreatInv, InHandOK
<1>5. PICK new \in ReaderStates : /\ Moves(r, new) /\ new.pc = "commit" /\ new.next = reader[r].next
                                  /\ new.committed = reader[r].committed /\ new.alert = reader[r].alert
  BY <1>1, GotoMoves
<1>6. KeysKept
  BY <1>2, SameKeysKept
<1>7. InHandOK(r)'
  BY <1>4, <1>5, NoAlertFields DEF InHandOK, Moves
<1>8. AlertsOK'
  BY <1>2, <1>4, <1>5, <1>6, QuietAlerts
<1> HIDE DEF d
<1>9. TakeoverOK'
  BY <1>2, <1>3, <1>4 DEF TakeoverOK, Reported
<1>10. Grown /\ new.alert.id <= Len(stored) /\ devices' \subseteq Names \X Fingerprints
  BY <1>2, <1>3, <1>4, <1>5, NoAlertFields, Facts DEF Grown
<1>11. /\ UNCHANGED <<log, owner, done, failed, now>> /\ faults' \in 0..MaxFaults /\ KeysKept
      /\ reader[r].pc # "idle" /\ new.pc # "idle"
      /\ new.next = reader[r].next /\ new.committed = reader[r].committed
      /\ devices \subseteq devices' /\ devices' \subseteq Names \X Fingerprints
      /\ suspects' \subseteq suspects /\ suspects' \subseteq Names \X Fingerprints
      /\ missed \subseteq missed' /\ Grown /\ topic' \in Seq(Alerts)
      /\ stored' \in Seq({"open"}) /\ Len(stored) <= Len(stored')
      /\ new.alert.id <= Len(stored') /\ \A i \in 1..Len(topic') : topic'[i].id <= Len(stored')
  BY <1>1, <1>2, <1>3, <1>5, <1>6, <1>10, Facts
<1> QED
  BY <1>5, <1>7, <1>8, <1>9, <1>11, StepKeeps

-----------------------------------------------------------------------------
(* The alert, the restart and the clock.                                   *)

\* CreateAlert stores the alert and gives it its id.
LEMMA CreateAlertKeeps ==
  ASSUME ThreatTypeOK, ThreatInv, NEW r \in Readers, CreateAlert(r), log' = log
  PROVE  ThreatTypeOK' /\ ThreatInv'
<1> DEFINE a == reader[r].alert
<1>1. UNCHANGED <<log, owner, keys, devices, topic, done, failed, missed, suspects, now>>
  BY DEF CreateAlert, threatHistory, redis
<1>2. reader[r].pc = "store" /\ faults' \in 0..MaxFaults
  BY Facts DEF CreateAlert, Fault
<1>3. reader[r] \in ReaderStates /\ a \in Alerts
  BY ReaderFields, Facts
<1>4. stored' \in Seq({"open"}) /\ Len(stored) <= Len(stored') /\ Len(stored') \in Nat
  <2>1. stored \in Seq({"open"}) /\ Len(stored) \in Nat
    BY Facts
  <2>2. Append(stored, "open") \in Seq({"open"}) /\ Len(Append(stored, "open")) = Len(stored) + 1
    BY <2>1
  <2>3. stored' = stored \/ stored' = Append(stored, "open")
    BY DEF CreateAlert
  <2> QED
    BY <2>1, <2>2, <2>3
<1> DEFINE v == IF stored' = stored THEN 0 ELSE Len(stored')
<1>5. v \in Nat /\ v <= Len(stored') /\ reader' = [reader EXCEPT ![r].pc = "publish", ![r].alert.id = v]
  BY <1>4 DEF CreateAlert
<1> HIDE DEF v
<1> DEFINE b == [a EXCEPT !.id = v]
           new == [reader[r] EXCEPT !.pc = "publish", !.alert = b]
<1>6. b \in Alerts /\ b.id = v /\ b.detector = a.detector /\ b.key = a.key /\ b.at = a.at
  <2>1. v \in Nat
    BY <1>5
  <2> QED
    BY <1>3, <2>1 DEF Alerts
<1>7. reader' = [reader EXCEPT ![r] = new]
  BY <1>5, Facts
<1>8. /\ new \in ReaderStates /\ new.pc = "publish" /\ new.next = reader[r].next
      /\ new.committed = reader[r].committed /\ new.alert = b
  <2> HIDE DEF b
  <2> QED
    BY <1>3, <1>6 DEF ReaderStates
<1> HIDE DEF new, b
<1>9. Moves(r, new)
  BY <1>7, <1>8, Moved
<1>10. KeysKept
  BY <1>1, SameKeysKept
<1>11. InHandOK(r)'
  <2>1. InHandOK(r)
    BY DEF ThreatInv
  <2>2. DeviceAt(r)' = DeviceAt(r)
    BY <1>1, <1>8, <1>9 DEF DeviceAt, Event, Moves
  <2> QED
    BY <1>6, <1>8, <1>9, <2>1, <2>2 DEF InHandOK, Moves
<1>12. AlertsOK'
  BY <1>1, <1>6, <1>8, <1>9, <1>10, QuietAlerts
<1>13. TakeoverOK'
  BY <1>1 DEF ThreatInv, TakeoverOK, Reported
<1>14. Grown /\ \A i \in 1..Len(topic') : topic'[i].id <= Len(stored')
  <2>1. ASSUME NEW i \in 1..Len(topic) PROVE topic[i].id <= Len(stored')
    <3>1. topic[i].id \in Nat /\ topic[i].id <= Len(stored) /\ Len(stored) \in Nat
      BY Facts, AlertFields
    <3> QED
      BY <1>4, <3>1
  <2> QED
    BY <1>1, <2>1, Facts DEF Grown
<1> QED
  BY <1>1, <1>2, <1>4, <1>5, <1>6, <1>8, <1>9, <1>10, <1>11, <1>12, <1>13, <1>14, Facts, StepKeeps

\* publishThreatEvent: the alert is on the topic, or its publication has failed.
LEMMA PublishKeeps ==
  ASSUME ThreatTypeOK, ThreatInv, NEW r \in Readers, publishThreatEvent(r), log' = log
  PROVE  ThreatTypeOK' /\ ThreatInv'
<1> DEFINE a == reader[r].alert
           l == CASE a.detector = "brute_force" -> "process"
                  [] a.detector = "account_takeover" -> "learn"
                  [] OTHER -> "commit"
           new == [reader[r] EXCEPT !.alert = NoAlert, !.pc = l]
<1>1. UNCHANGED <<log, owner, devices, stored, done, failed, suspects, now>>
  BY DEF publishThreatEvent
<1>2. reader[r].pc = "publish" /\ faults' \in 0..MaxFaults
  BY Facts DEF publishThreatEvent, Fault
<1>3. reader[r] \in ReaderStates /\ a \in Alerts /\ a.id <= Len(stored)
  BY ReaderFields, Facts
<1>4. l \in {"process", "learn", "commit"} /\ (l = "learn" => a.detector = "account_takeover")
  OBVIOUS
<1>5. reader' = [reader EXCEPT ![r] = new]
  BY Facts DEF publishThreatEvent
<1>6. /\ new \in ReaderStates /\ new.pc = l /\ new.next = reader[r].next
      /\ new.committed = reader[r].committed /\ new.alert = NoAlert
  <2> HIDE DEF l
  <2> QED
    BY <1>3, <1>4, NoAlertFields DEF ReaderStates
<1>7. \/ topic' = Append(topic, a) /\ missed' = missed
      \/ topic' = topic /\ missed' = missed \cup {<<a.detector, a.key>>}
  BY DEF publishThreatEvent
<1>8. SetKey(<<"threat", a.detector, a.user>>, "alert", PasswordTTL)
  BY DEF publishThreatEvent
<1> HIDE DEF new, l
<1>9. Moves(r, new)
  BY <1>5, <1>6, Moved
<1>10. KeysKept
  <2>1. PasswordTTL \in Nat \ {0} /\ \A y : <<"threat", a.detector, a.user>> # <<"fired", y>>
    BY WindowsAssumption
  <2> HIDE DEF a
  <2> QED
    BY <1>1, <1>8, <2>1, SetKeyKept
<1>11. /\ topic' \in Seq(Alerts) /\ Grown /\ Len(topic') \in Nat
       /\ \A i \in 1..Len(topic') : topic'[i] = a \/ (i \in 1..Len(topic) /\ topic'[i] = topic[i])
       /\ \A i, j \in 1..Len(topic') : i < j => i \in 1..Len(topic)
  <2>1. topic \in Seq(Alerts) /\ Len(topic) \in Nat
    BY Facts
  <2>2. CASE topic' = topic
    BY <2>1, <2>2 DEF Grown
  <2>3. CASE topic' = Append(topic, a)
    <3>1. topic' \in Seq(Alerts) /\ Len(topic') = Len(topic) + 1 /\ topic'[Len(topic) + 1] = a
      BY <1>3, <2>1, <2>3
    <3>2. \A i \in 1..Len(topic) : topic'[i] = topic[i]
      BY <1>3, <2>1, <2>3
    <3> HIDE DEF a
    <3> QED
      BY <2>1, <3>1, <3>2 DEF Grown
  <2> QED
    BY <1>7, <2>2, <2>3
<1>12. a.detector = "account_takeover" => r = "auth" /\ a.key = DeviceAt(r)
  BY DEF ThreatInv, InHandOK
<1>13. ASSUME NEW s, s = a.key, a.detector = "account_takeover" PROVE Reported(s)'
  <2>1. CASE topic' = Append(topic, a)
    <3>1. topic'[Len(topic) + 1] = a /\ Len(topic) + 1 \in 1..Len(topic')
      BY <1>3, <2>1, Facts
    <3> QED
      BY <1>13, <3>1 DEF Reported
  <2>2. CASE missed' = missed \cup {<<a.detector, a.key>>}
    BY <1>13, <2>2 DEF Reported
  <2> QED
    BY <1>7, <2>1, <2>2
<1>14. missed \subseteq missed' /\ Len(topic) \in Nat
  BY <1>7, Facts
<1>15. InHandOK(r)'
  <2>1. DeviceAt(r)' = DeviceAt(r)
    BY <1>1, <1>6, <1>9 DEF DeviceAt, Event, Moves
  <2>2. PICK d : d = DeviceAt(r)
    OBVIOUS
  <2>3. l = "learn" => r = "auth" /\ Reported(d)'
    BY <1>4, <1>12, <1>13, <2>2
  <2>4. l = "learn" => r = "auth" /\ Reported(DeviceAt(r))'
    BY <2>1, <2>2, <2>3
  <2> QED
    BY <1>4, <1>6, <1>9, <2>4, NoAlertFields DEF InHandOK, Moves
<1>16. TakeoverOK'
  <2>1. TakeoverOK
    BY DEF ThreatInv
  <2> QED
    BY <1>1, <1>11, <1>14, <2>1, ReportedStays DEF TakeoverOK
<1>17. AlertsOK'
  <2>1. AlertsOK
    BY DEF ThreatInv
  <2>2. now' = now
    BY <1>1
  <2>3. ASSUME NEW b, FiredOK(b) PROVE FiredOK(b)'
    BY <1>10, <2>2, <2>3 DEF FiredOK, KeysKept
  <2>4. ASSUME NEW i \in 1..Len(topic') PROVE FiredOK(topic[i])'
    <3>1. PICK b : b = topic'[i]
      OBVIOUS
    <3>2. FiredOK(b)
      BY <1>11, <2>1, <3>1 DEF AlertsOK
    <3>3. FiredOK(b)'
      BY <2>3, <3>2
    <3> QED
      BY <3>1, <3>3 DEF FiredOK
  <2>5. ASSUME NEW q \in Readers PROVE FiredOK(reader[q].alert)'
    <3>1. CASE q = r
      BY <1>6, <1>9, <3>1, NoAlertFields DEF FiredOK, Moves
    <3>2. CASE q # r
      <4>1. PICK b : b = reader[q].alert
        OBVIOUS
      <4>2. FiredOK(b)
        BY <2>1, <4>1 DEF AlertsOK
      <4>3. FiredOK(b)'
        BY <2>3, <4>2
      <4> QED
        BY <1>9, <3>2, <4>1, <4>3 DEF FiredOK, Moves
    <3> QED
      BY <3>1, <3>2
  <2>6. ASSUME NEW q \in Readers, NEW i \in 1..Len(topic') PROVE Apart(topic[i], reader[q].alert)'
    <3>1. CASE q = r
      BY <1>6, <1>9, <3>1, NoAlertFields DEF Moves, Apart
    <3>2. CASE q # r
      <4>1. reader'[q] = reader[q] /\ \A j \in 1..Len(topic) : Apart(topic[j], reader[q].alert)
        BY <1>9, <2>1, <3>2 DEF Moves, AlertsOK
      <4>2. ~(a.detector = "brute_force" /\ reader[q].alert.detector = "brute_force")
        BY <3>2 DEF ThreatInv, InHandOK
      <4>3. Apart(topic'[i], reader[q].alert)
        BY <1>11, <4>1, <4>2 DEF Apart
      <4> QED
        BY <4>1, <4>3 DEF Apart
    <3> QED
      BY <3>1, <3>2
  <2>7. ASSUME NEW i \in 1..Len(topic'), NEW j \in 1..Len(topic'), i < j PROVE Apart(topic[i], topic[j])'
    <3>1. i \in 1..Len(topic) /\ topic'[i] = topic[i]
      BY <1>11, <2>7 DEF Grown
    <3>2. CASE topic'[j] = a
      BY <2>1, <3>1, <3>2 DEF AlertsOK, Apart
    <3>3. CASE j \in 1..Len(topic) /\ topic'[j] = topic[j]
      BY <2>1, <2>7, <3>1, <3>3 DEF AlertsOK, Apart
    <3> QED
      BY <1>11, <3>2, <3>3
  <2> QED
    BY <2>4, <2>5, <2>6, <2>7 DEF AlertsOK
<1>18. \A i \in 1..Len(topic') : topic'[i].id <= Len(stored')
  BY <1>1, <1>3, <1>11, Facts
<1>19. new.alert.id <= Len(stored') /\ new.pc # "idle"
  BY <1>1, <1>4, <1>6, NoAlertFields, Facts
<1>20. /\ UNCHANGED <<log, owner, done, failed, now>> /\ faults' \in 0..MaxFaults /\ KeysKept
      /\ reader[r].pc # "idle" /\ new.pc # "idle"
      /\ new.next = reader[r].next /\ new.committed = reader[r].committed
      /\ devices \subseteq devices' /\ devices' \subseteq Names \X Fingerprints
      /\ suspects' \subseteq suspects /\ suspects' \subseteq Names \X Fingerprints
      /\ missed \subseteq missed' /\ Grown /\ topic' \in Seq(Alerts)
      /\ stored' \in Seq({"open"}) /\ Len(stored) <= Len(stored')
      /\ new.alert.id <= Len(stored') /\ \A i \in 1..Len(topic') : topic'[i].id <= Len(stored')
  BY <1>1, <1>2, <1>6, <1>9, <1>10, <1>11, <1>14, <1>15, <1>16, <1>17, <1>18, <1>19, Facts
<1> QED
  BY <1>20, <1>6, <1>9, <1>15, <1>16, <1>17, StepKeeps

\* Restart: every reader goes back to its committed offset.
LEMMA RestartKeeps ==
  ASSUME ThreatTypeOK, ThreatInv, Restart, log' = log
  PROVE  ThreatTypeOK' /\ ThreatInv'
<1>1. UNCHANGED <<log, keys, devices, stored, topic, done, failed, suspects, missed, now>>
  BY DEF Restart, redis, threatHistory
<1>2. faults' \in 0..MaxFaults /\ owner' \in AuthDetectors
  BY Facts DEF Restart, Fault
<1>3. ASSUME NEW q \in Readers
      PROVE  /\ reader'[q] \in ReaderStates /\ reader'[q].next = reader[q].committed
             /\ reader'[q].committed = reader[q].committed
             /\ reader'[q].pc = "idle" /\ reader'[q].alert = NoAlert
  <2>1. reader[q].committed \in Nat \ {0} /\ reader'[q] = Idle(reader[q].committed, reader[q].committed)
    BY ReaderFields, Facts DEF Restart
  <2> QED
    BY <2>1, IdleFields
<1>4. reader' \in [Readers -> ReaderStates]
  BY <1>3 DEF Restart
<1>5. ThreatTypeOK'
  <2>1. ASSUME NEW q \in Readers
        PROVE  /\ reader'[q].committed <= reader'[q].next
               /\ reader'[q].next <= Len(log'[Topic(q)]) + 1
               /\ reader'[q].pc # "idle" => reader'[q].next > 1
               /\ reader'[q].alert.id <= Len(stored')
    <3>1. /\ reader[q].committed \in Nat /\ reader[q].next \in Nat
          /\ reader[q].committed <= reader[q].next /\ reader[q].next <= Len(log[Topic(q)]) + 1
      BY ReaderFields DEF ThreatTypeOK
    <3>2. Topic(q) \in {"auth", "access", "policy"}
      BY DEF Topic, Readers
    <3>3. Len(log[Topic(q)]) \in Nat
      BY <3>2 DEF ThreatTypeOK
    <3> QED
      BY <1>1, <1>3, <3>1, <3>3, NoAlertFields, Facts
  <2> QED
    BY <1>1, <1>2, <1>4, <2>1 DEF ThreatTypeOK
<1>6. ASSUME NEW q \in Readers PROVE PassedOK(q)' /\ InHandOK(q)'
  <2>1. /\ \A i \in 1..reader[q].committed - 1 : <<q, i>> \in done \cup failed
        /\ reader[q].committed > 1 => <<q, reader[q].committed - 1>> \in done
    BY DEF ThreatInv, PassedOK
  <2> QED
    BY <1>1, <1>3, <2>1, NoAlertFields DEF PassedOK, InHandOK
<1>7. AlertsOK'
  <2>1. AlertsOK
    BY DEF ThreatInv
  <2>2. ASSUME NEW i \in 1..Len(topic') PROVE FiredOK(topic[i])'
    BY <1>1, <2>1 DEF AlertsOK, FiredOK
  <2>3. \A q \in Readers : FiredOK(reader[q].alert)'
    BY <1>3, NoAlertFields DEF FiredOK
  <2>4. \A i \in 1..Len(topic'), q \in Readers : Apart(topic[i], reader[q].alert)'
    BY <1>3, NoAlertFields DEF Apart
  <2>5. \A i, j \in 1..Len(topic') : i < j => Apart(topic[i], topic[j])'
    BY <1>1, <2>1 DEF AlertsOK, Apart
  <2> QED
    BY <2>2, <2>3, <2>4, <2>5 DEF AlertsOK
<1>8. TakeoverOK'
  BY <1>1 DEF ThreatInv, TakeoverOK, Reported
<1> QED
  BY <1>5, <1>6, <1>7, <1>8 DEF ThreatInv

\* Tick: the key of a fired alert lives to the end of its window.
LEMMA TickKeeps ==
  ASSUME ThreatTypeOK, ThreatInv, Tick, log' = log
  PROVE  ThreatTypeOK' /\ ThreatInv'
<1>1. UNCHANGED <<log, owner, reader, devices, stored, topic, done, failed, suspects, missed, faults>>
  BY DEF Tick, threatHistory
<1>2. now \in Nat /\ now' = now + 1 /\ keys' = {k \in keys : now' < k.until}
  BY Facts DEF Tick
<1>3. ThreatTypeOK'
  BY <1>1, <1>2 DEF ThreatTypeOK
<1>4. ASSUME NEW q \in Readers PROVE PassedOK(q)' /\ InHandOK(q)'
  BY <1>1 DEF ThreatInv, PassedOK, InHandOK, DeviceAt, Event, Reported
<1>5. AlertsOK'
  <2>1. AlertsOK
    BY DEF ThreatInv
  <2>2. ASSUME NEW a \in Alerts, FiredOK(a) PROVE FiredOK(a)'
    <3>1. a.at \in Nat /\ WindowSize \in Nat
      BY AlertFields, WindowsAssumption
    <3> QED
      BY <1>2, <2>2, <3>1 DEF FiredOK
  <2>3. ASSUME NEW i \in 1..Len(topic') PROVE FiredOK(topic[i])'
    <3>1. PICK a \in Alerts : a = topic[i]
      BY <1>1, Facts
    <3>2. FiredOK(a)'
      BY <1>1, <2>1, <2>2, <3>1 DEF AlertsOK
    <3> QED
      BY <1>1, <3>1, <3>2 DEF FiredOK
  <2>4. ASSUME NEW q \in Readers PROVE FiredOK(reader[q].alert)'
    <3>1. PICK a \in Alerts : a = reader[q].alert
      BY ReaderFields, Facts
    <3>2. FiredOK(a)'
      BY <2>1, <2>2, <3>1 DEF AlertsOK
    <3> QED
      BY <1>1, <3>1, <3>2 DEF FiredOK
  <2>5. \A i \in 1..Len(topic'), q \in Readers : Apart(topic[i], reader[q].alert)'
    BY <1>1, <2>1 DEF AlertsOK, Apart
  <2>6. \A i, j \in 1..Len(topic') : i < j => Apart(topic[i], topic[j])'
    BY <1>1, <2>1 DEF AlertsOK, Apart
  <2> QED
    BY <2>3, <2>4, <2>5, <2>6 DEF AlertsOK
<1>6. TakeoverOK'
  BY <1>1 DEF ThreatInv, TakeoverOK, Reported
<1> QED
  BY <1>3, <1>4, <1>5, <1>6 DEF ThreatInv

\* The steps of the threat service keep the invariant.
LEMMA ThreatStep ==
  ASSUME ThreatTypeOK, ThreatInv, ThreatNext, log' = log
  PROVE  ThreatTypeOK' /\ ThreatInv'
<1>1. ASSUME NEW r \in Readers,
             \/ FetchMessage(r) \/ ProcessFails(r) \/ CommitMessages(r)
             \/ trackFailedAttempt(r) \/ BruteForce(r) \/ ImpossibleTravel(r) \/ OffHours(r)
             \/ AccountTakeover(r) \/ LearnDevice(r) \/ DataExfiltration(r)
             \/ RecentLogin(r) \/ PrivilegeEscalation(r)
             \/ CreateAlert(r) \/ publishThreatEvent(r)
      PROVE  ThreatTypeOK' /\ ThreatInv'
  BY <1>1, FetchKeeps, FailsAndCommits, TrackKeeps, TravelKeeps, OffHoursKeeps, TakeoverKeeps, LearnKeeps,
     OtherDetectorsKeep, CreateAlertKeeps, PublishKeeps
<1> QED
  BY <1>1, RestartKeeps, TickKeeps DEF ThreatNext

\* It leaves the topic as it is, or adds to it.
LEMMA ThreatGrows ==
  ASSUME ThreatTypeOK, ThreatNext
  PROVE  Grown
<1>1. topic \in Seq(Alerts) /\ Len(topic) \in Nat
  BY Facts
<1>2. topic' = topic \/ \E a : topic' = Append(topic, a)
  <2>1. ASSUME NEW r \in Readers, publishThreatEvent(r) PROVE topic' = topic \/ \E a : topic' = Append(topic, a)
    BY <2>1 DEF publishThreatEvent
  <2>2. ASSUME NEW r \in Readers,
               \/ FetchMessage(r) \/ ProcessFails(r) \/ CommitMessages(r)
               \/ trackFailedAttempt(r) \/ BruteForce(r) \/ ImpossibleTravel(r)
        PROVE  topic' = topic
    BY <2>2 DEF FetchMessage, ProcessFails, CommitMessages, trackFailedAttempt, BruteForce, ImpossibleTravel
  <2>3. ASSUME NEW r \in Readers,
               \/ OffHours(r) \/ AccountTakeover(r) \/ LearnDevice(r) \/ DataExfiltration(r)
               \/ RecentLogin(r) \/ PrivilegeEscalation(r) \/ CreateAlert(r)
        PROVE  topic' = topic
    BY <2>3 DEF OffHours, AccountTakeover, LearnDevice, DataExfiltration, RecentLogin, PrivilegeEscalation, CreateAlert
  <2>4. Restart \/ Tick => topic' = topic
    BY DEF Restart, Tick
  <2> QED
    BY <2>1, <2>2, <2>3, <2>4 DEF ThreatNext
<1> QED
  BY <1>1, <1>2 DEF Grown

\* The initial states.
LEMMA ThreatStart ==
  ASSUME ThreatInit
  PROVE  ThreatTypeOK /\ ThreatInv
<1>1. ASSUME NEW q \in Readers
      PROVE  /\ reader[q] \in ReaderStates /\ reader[q].next = 1 /\ reader[q].committed = 1
             /\ reader[q].pc = "idle" /\ reader[q].alert = NoAlert
  <2>1. reader[q] = Idle(1, 1)
    BY DEF ThreatInit
  <2> QED
    BY <2>1, IdleFields
<1>2. reader \in [Readers -> ReaderStates]
  BY <1>1 DEF ThreatInit
<1>3. log \in [{"auth", "access", "policy"} -> Seq(Events)]
  BY LogsAssumption DEF ThreatInit
<1>4. /\ owner \in AuthDetectors /\ keys = InitialKeys /\ devices = {} /\ suspects = {} /\ now = 0 /\ faults = 0
      /\ stored = <<>> /\ topic = <<>> /\ done = {} /\ failed = {}
  BY DEF ThreatInit
<1>5. stored \in Seq({"open"}) /\ topic \in Seq(Alerts) /\ Len(stored) = 0 /\ Len(topic) = 0
  BY <1>4
<1>6. ASSUME NEW q \in Readers
      PROVE  /\ reader[q].committed <= reader[q].next
             /\ reader[q].next <= Len(log[Topic(q)]) + 1
             /\ reader[q].pc # "idle" => reader[q].next > 1
             /\ reader[q].alert.id <= Len(stored)
  <2>1. Topic(q) \in {"auth", "access", "policy"}
    BY DEF Topic, Readers
  <2>2. Len(log[Topic(q)]) \in Nat
    BY <1>3, <2>1
  <2> QED
    BY <1>1, <1>5, <2>2, NoAlertFields
<1>7. ThreatTypeOK
  <2>1. \A k \in keys : now < k.until
    BY <1>4, InitialKeysAssumption
  <2>2. now \in Nat /\ faults \in 0..MaxFaults
    BY <1>4, LimitsAssumption
  <2> QED
    BY <1>2, <1>3, <1>4, <1>5, <1>6, <2>1, <2>2 DEF ThreatTypeOK
<1>8. ASSUME NEW q \in Readers PROVE PassedOK(q) /\ InHandOK(q)
  BY <1>1, NoAlertFields DEF PassedOK, InHandOK
<1>9. AlertsOK /\ TakeoverOK
  BY <1>1, <1>4, <1>5, NoAlertFields DEF AlertsOK, TakeoverOK, FiredOK, Apart
<1> QED
  BY <1>7, <1>8, <1>9 DEF ThreatInv

-----------------------------------------------------------------------------
(* The saga.                                                               *)

\* The types of the saga.
JobsOK ==
  /\ jobs \subseteq Jobs /\ IsFiniteSet(jobs) /\ Cardinality(jobs) <= Slots
  /\ \A j \in jobs : j.msg < position
  /\ \A j, k \in jobs : j.msg = k.msg => j = k

SagaTypeOK ==
  /\ position \in 1..Len(topic) + 1 /\ offset \in 1..position /\ JobsOK
  /\ alerts \subseteq Documents
  /\ \A a, b \in alerts : a.id = b.id => a = b
  /\ {sent, again, unclear} \subseteq SUBSET ({"notify", "audit"} \X (1..Len(topic)))

\* What is stored, published and noted stays so.
Kept ==
  /\ \A a \in alerts : \E b \in alerts' : b.id = a.id /\ a.steps \subseteq b.steps
  /\ sent \subseteq sent' /\ unclear \subseteq unclear'
  /\ unrecorded \subseteq unrecorded' /\ interrupted \subseteq interrupted'

\* The types of the two services are those of the system.
LEMMA Parts == TypeOK <=> ThreatTypeOK /\ SagaTypeOK
  BY DEF TypeOK, SagaTypeOK, JobsOK

\* The fields of a goroutine.
LEMMA JobFields ==
  ASSUME NEW j \in Jobs
  PROVE  /\ j.msg \in Nat \ {0} /\ j.step \in {"persist", "notify", "audit", "commit"}
         /\ j.tries \in 0..MaxTries - 1 /\ j.pc \in {"try", "completed", "failed"}
  BY DEF Jobs, Steps

\* The message of a goroutine is on the topic.
LEMMA JobMessage ==
  ASSUME ThreatTypeOK, SagaTypeOK, NEW j \in jobs
  PROVE  j \in Jobs /\ j.msg \in 1..Len(topic) /\ topic[j.msg] \in Alerts
<1>1. /\ j \in Jobs /\ j.msg < position /\ position \in 1..Len(topic) + 1
      /\ topic \in Seq(Alerts) /\ Len(topic) \in Nat
  BY Facts DEF SagaTypeOK, JobsOK
<1>2. j.msg \in Nat \ {0}
  BY <1>1, JobFields
<1>3. j.msg \in 1..Len(topic)
  BY <1>1, <1>2
<1> QED
  BY <1>1, <1>3

\* A document that exists stays.
LEMMA ExistsStays == ASSUME Kept, NEW d, Exists(d) PROVE Exists(d)'
  BY DEF Kept, Exists

\* So does a trace.
LEMMA TracedStays ==
  ASSUME Kept, NEW i, topic'[i] = topic[i], Traced(i)
  PROVE  Traced(i)'
  BY DEF Kept, Traced

\* A set that is given one more element.
LEMMA OneMore ==
  ASSUME NEW S, IsFiniteSet(S), NEW x
  PROVE  /\ IsFiniteSet(S \cup {x}) /\ Cardinality(S \cup {x}) \in Nat /\ Cardinality(S) \in Nat
         /\ Cardinality(S \cup {x}) <= Cardinality(S) + 1
<1>1. IsFiniteSet(S \cup {x})
  BY FS_AddElement
<1>2. Cardinality(S) \in Nat
  BY FS_CardinalityType
<1>3. Cardinality(S \cup {x}) \in {Cardinality(S), Cardinality(S) + 1}
  BY FS_AddElement
<1> QED
  BY <1>1, <1>2, <1>3

\* A goroutine goes on: the others stay as they are.
LEMMA ReplaceTypes ==
  ASSUME JobsOK, NEW j \in jobs, NEW k \in Jobs, k.msg = j.msg, Replace(j, k), position' = position
  PROVE  JobsOK'
<1>1. jobs' = (jobs \ {j}) \cup {k}
  BY DEF Replace
<1>2. /\ jobs \subseteq Jobs /\ IsFiniteSet(jobs) /\ Cardinality(jobs) <= Slots
      /\ \A i \in jobs : i.msg < position
      /\ \A i, l \in jobs : i.msg = l.msg => i = l
  BY DEF JobsOK
<1> DEFINE K == jobs \ {j}
<1>3. IsFiniteSet(K) /\ Cardinality(K) = Cardinality(jobs) - 1 /\ Cardinality(jobs) \in Nat
  BY <1>2, FS_RemoveElement, FS_CardinalityType
<1>4. IsFiniteSet(K \cup {k}) /\ Cardinality(K \cup {k}) <= Cardinality(K) + 1 /\ Cardinality(K \cup {k}) \in Nat
  BY <1>3, OneMore
<1>5. IsFiniteSet(jobs') /\ Cardinality(jobs') <= Slots
  <2>1. Cardinality(K \cup {k}) <= Slots
    BY <1>2, <1>3, <1>4, SagaAssumption
  <2> QED
    BY <1>1, <1>4, <2>1
<1> HIDE DEF K
<1>6. \A i, l \in jobs' : i.msg = l.msg => i = l
  BY <1>1, <1>2
<1>7. \A i \in jobs' : i.msg < position'
  BY <1>1, <1>2
<1> QED
  BY <1>1, <1>2, <1>5, <1>6, <1>7 DEF JobsOK

\* What a step of goroutine j, which goes on as k, has to show.
LEMMA ReplaceKeeps ==
  ASSUME ThreatTypeOK, SagaTypeOK, SagaInv, NEW j \in jobs, NEW k \in Jobs, k.msg = j.msg, Replace(j, k),
         UNCHANGED <<topic, position>>, Kept, again' \subseteq unclear',
         sent' \subseteq sent \cup {<<j.step, j.msg>>},
         sent' = sent \/ Exists(topic[j.msg].id),
         OnceOK(k)', k.step = "commit" => k.pc = "try",
         k.step \in {"audit", "commit"} => Traced(k.msg)',
         k.step = "notify" /\ k.pc = "completed" => <<"notify", k.msg>> \in sent'
  PROVE  SagaInv'
<1>1. jobs' = (jobs \ {j}) \cup {k} /\ \A i \in jobs : i.msg = j.msg => i = j
  BY DEF Replace, SagaTypeOK, JobsOK
<1>2. ASSUME NEW i \in jobs' PROVE OnceOK(i)'
  <2>1. CASE i = k
    BY <2>1
  <2>2. CASE i # k
    <3>1. i \in jobs /\ i.msg # j.msg /\ OnceOK(i)
      BY <1>1, <2>2 DEF SagaInv
    <3>2. ASSUME NEW d, Exists(d) PROVE Exists(d)'
      BY <3>2, ExistsStays
    <3>3. Exists(topic[i.msg].id) => Exists(topic[i.msg].id)'
      BY <3>2
    <3>4. \A m : <<m, i.msg>> \in sent' <=> <<m, i.msg>> \in sent
      BY <3>1 DEF Kept
    <3> QED
      BY <3>1, <3>3, <3>4 DEF OnceOK, Past, Kept
  <2> QED
    BY <2>1, <2>2
<1>3. StoredFirst'
  <2>1. ASSUME NEW p \in sent' PROVE Exists(topic[p[2]].id)'
    <3>1. PICK d : d = topic[p[2]].id
      OBVIOUS
    <3>2. Exists(d)
      <4>1. CASE p \in sent
        BY <3>1, <4>1 DEF SagaInv, StoredFirst
      <4>2. CASE p \notin sent
        BY <3>1, <4>2
      <4> QED
        BY <4>1, <4>2
    <3>3. Exists(d)'
      BY <3>2, ExistsStays
    <3> QED
      BY <3>1, <3>3
  <2> QED
    BY <2>1 DEF StoredFirst
<1>4. TraceOK'
  <2>1. TraceOK
    BY DEF SagaInv
  <2>2. ASSUME NEW i, Traced(i) PROVE Traced(i)'
    BY <2>2, TracedStays
  <2>3. ASSUME NEW i \in jobs'
        PROVE  /\ i.step = "commit" => i.pc = "try"
               /\ i.step \in {"audit", "commit"} => Traced(i.msg)'
               /\ i.step = "notify" /\ i.pc = "completed" => <<"notify", i.msg>> \in sent'
    BY <1>1, <2>1, <2>2 DEF TraceOK, Kept
  <2>4. ASSUME NEW i \in 1..position' - 1 PROVE Traced(i)' \/ \E l \in jobs' : l.msg = i
    BY <1>1, <2>1, <2>2 DEF TraceOK
  <2> QED
    BY <2>3, <2>4 DEF TraceOK
<1> QED
  BY <1>2, <1>3, <1>4 DEF SagaInv

\* Where a goroutine is after a failed attempt.
LEMMA Retried ==
  ASSUME NEW j \in Jobs, Retry(j)
  PROVE  \E k \in Jobs : Replace(j, k) /\ k.msg = j.msg /\ k.step = j.step /\ k.pc \in {j.pc, "failed"}
<1>1. j.tries \in 0..MaxTries - 1 /\ MaxTries \in Nat \ {0} /\ j.tries + 1 \in Nat
  BY JobFields, SagaAssumption
<1> DEFINE a == [j EXCEPT !.tries = @ + 1]
           b == [j EXCEPT !.pc = "failed"]
<1>2. CASE j.tries + 1 < MaxTries
  <2>1. j.tries + 1 \in 0..MaxTries - 1
    BY <1>1, <1>2
  <2>2. a \in Jobs /\ a.msg = j.msg /\ a.step = j.step /\ a.pc = j.pc
    BY <2>1 DEF Jobs
  <2>3. Replace(j, a)
    BY <1>2 DEF Retry
  <2> HIDE DEF a
  <2> QED
    BY <2>2, <2>3
<1>3. CASE ~(j.tries + 1 < MaxTries)
  <2>1. b \in Jobs /\ b.msg = j.msg /\ b.step = j.step /\ b.pc = "failed"
    BY DEF Jobs
  <2>2. Replace(j, b)
    BY <1>3 DEF Retry
  <2> HIDE DEF b
  <2> QED
    BY <2>1, <2>2
<1> QED
  BY <1>2, <1>3

\* And after a successful one.
LEMMA Succeeded ==
  ASSUME NEW j \in Jobs, Succeed(j)
  PROVE  \E k \in Jobs : Replace(j, k) /\ k.msg = j.msg /\ k.step = j.step /\ k.pc = "completed"
<1> DEFINE c == [j EXCEPT !.pc = "completed"]
<1>1. c \in Jobs /\ c.msg = j.msg /\ c.step = j.step /\ c.pc = "completed"
  BY DEF Jobs
<1>2. Replace(j, c)
  BY DEF Succeed
<1> HIDE DEF c
<1> QED
  BY <1>1, <1>2

\* What the types of the saga say.
LEMMA SagaFacts ==
  ASSUME ThreatTypeOK, SagaTypeOK
  PROVE  /\ position \in 1..Len(topic) + 1 /\ offset \in 1..position /\ JobsOK
         /\ alerts \subseteq Documents /\ (\A a, b \in alerts : a.id = b.id => a = b)
         /\ sent \subseteq {"notify", "audit"} \X (1..Len(topic))
         /\ again \subseteq {"notify", "audit"} \X (1..Len(topic))
         /\ unclear \subseteq {"notify", "audit"} \X (1..Len(topic))
  BY DEF SagaTypeOK

\* The types, when only documents and goroutines change.
LEMMA SagaTypes ==
  ASSUME SagaTypeOK, UNCHANGED <<topic, position, offset>>, JobsOK',
         alerts' \subseteq Documents, \A a, b \in alerts' : a.id = b.id => a = b,
         sent' \subseteq {"notify", "audit"} \X (1..Len(topic)),
         again' \subseteq {"notify", "audit"} \X (1..Len(topic)),
         unclear' \subseteq {"notify", "audit"} \X (1..Len(topic))
  PROVE  SagaTypeOK'
  BY DEF SagaTypeOK

\* Create: the goroutine that stores the alert is the only one to announce it.
LEMMA CreateKeeps ==
  ASSUME ThreatTypeOK, SagaTypeOK, SagaInv, NEW j \in jobs, Create(j)
  PROVE  SagaTypeOK' /\ SagaInv'
<1> DEFINE a == topic[j.msg]
           p == <<j.step, j.msg>>
<1>1. UNCHANGED <<topic, position, offset, sent, again, unclear, unrecorded, interrupted>>
  BY DEF Create, threatButFaults, sagaHistory
<1>2. j.step = "persist" /\ j.pc = "try" /\ j \in Jobs /\ a \in Alerts
  BY JobMessage DEF Create
<1>3. \/ Retry(j)
      \/ Succeed(j) /\ ~Exists(a.id) /\ alerts' = alerts \cup {Document(a)}
  BY DEF Create
<1>4. PICK k \in Jobs : /\ Replace(j, k) /\ k.msg = j.msg /\ k.step = j.step
                        /\ \/ k.pc \in {j.pc, "failed"}
                           \/ ~Exists(a.id) /\ alerts' = alerts \cup {Document(a)}
  BY <1>2, <1>3, Retried, Succeeded
<1>5. \/ alerts' = alerts
      \/ ~Exists(a.id) /\ alerts' = alerts \cup {Document(a)}
  BY DEF Create
<1>6. Document(a) \in Documents /\ Document(a).id = a.id
  <2>1. a.id \in Nat /\ a.org \in {"", "org"}
    BY <1>2 DEF Alerts
  <2> QED
    BY <2>1 DEF Document, Documents
<1>7. Kept
  BY <1>1, <1>5 DEF Kept
<1>8. SagaTypeOK'
  <2>1. JobsOK'
    BY <1>1, <1>4, SagaFacts, ReplaceTypes
  <2>2. alerts' \subseteq Documents /\ \A b, c \in alerts' : b.id = c.id => b = c
    BY <1>5, <1>6, SagaFacts DEF Exists
  <2> QED
    BY <1>1, <2>1, <2>2, SagaFacts, SagaTypes
<1>9. OnceOK(k)'
  <2>1. CASE k.pc # "completed"
    BY <1>2, <1>4, <2>1 DEF OnceOK, Past
  <2>2. CASE k.pc = "completed"
    <3>2. ~Exists(a.id) /\ alerts' = alerts \cup {Document(a)}
      BY <1>2, <1>4, <2>2
    <3>3. Exists(topic[k.msg].id)'
      BY <1>1, <1>4, <1>6, <3>2 DEF Exists
    <3>4. \A m : <<m, j.msg>> \notin sent
      <4>1. ASSUME NEW m, <<m, j.msg>> \in sent PROVE FALSE
        <5>1. Exists(topic[<<m, j.msg>>[2]].id)
          BY <4>1 DEF SagaInv, StoredFirst
        <5> QED
          BY <3>2, <5>1
      <4> QED
        BY <4>1
    <3> QED
      BY <1>1, <1>2, <1>4, <2>2, <3>3, <3>4 DEF OnceOK, Past
  <2> QED
    BY <2>1, <2>2
<1>10. SagaInv'
  <2>1. again' \subseteq unclear' /\ k.step = "persist"
    BY <1>1, <1>2, <1>4 DEF SagaInv
  <2> QED
    BY <1>1, <1>4, <1>7, <1>9, <2>1, ReplaceKeeps
<1> QED
  BY <1>8, <1>10

\* Publish: a publication that is repeated was answered with an error.
LEMMA PublishStepKeeps ==
  ASSUME ThreatTypeOK, SagaTypeOK, SagaInv, NEW j \in jobs, Publish(j)
  PROVE  SagaTypeOK' /\ SagaInv'
<1> DEFINE p == <<j.step, j.msg>>
<1>1. UNCHANGED <<topic, position, offset, alerts, unrecorded, interrupted>>
  BY DEF Publish, threatButFaults
<1>2. j.step \in {"notify", "audit"} /\ j.pc = "try" /\ j \in Jobs /\ j.msg \in 1..Len(topic)
  BY JobMessage DEF Publish
<1>3. OnceOK(j) /\ TraceOK /\ again \subseteq unclear
  BY DEF SagaInv
<1>4. Exists(topic[j.msg].id) /\ (p \in sent => p \in unclear) /\ (j.step = "notify" => <<"audit", j.msg>> \notin sent)
  BY <1>2, <1>3 DEF OnceOK, Past
<1>5. PICK k \in Jobs :
        /\ Replace(j, k) /\ k.msg = j.msg /\ k.step = j.step
        /\ \/ k.pc = "completed" /\ p \in sent' /\ unclear' = unclear
           \/ k.pc \in {"try", "failed"} /\ (sent' = sent \/ p \in unclear')
  BY <1>2, Retried, Succeeded DEF Publish
<1>6. /\ sent \subseteq sent' /\ sent' \subseteq sent \cup {p}
      /\ unclear \subseteq unclear' /\ unclear' \subseteq unclear \cup {p}
      /\ again' \subseteq again \cup {p} /\ again' \subseteq unclear'
  BY <1>3, <1>4 DEF Publish
<1>7. Kept
  BY <1>1, <1>6 DEF Kept
<1>8. p \in {"notify", "audit"} \X (1..Len(topic))
  BY <1>2
<1>9. SagaTypeOK'
  <2>1. JobsOK'
    BY <1>1, <1>5, SagaFacts, ReplaceTypes
  <2> HIDE DEF p
  <2> QED
    BY <1>1, <1>6, <1>8, <2>1, SagaFacts, SagaTypes
<1>10. OnceOK(k)'
  <2>1. Exists(topic[k.msg].id)'
    BY <1>1, <1>4, <1>5 DEF Exists
  <2>2. k.step = "notify" => <<"audit", k.msg>> \notin sent'
    BY <1>4, <1>5, <1>6
  <2>3. k.pc = "try" /\ <<k.step, k.msg>> \in sent' => <<k.step, k.msg>> \in unclear'
    BY <1>4, <1>5, <1>6
  <2> QED
    BY <1>2, <1>5, <2>1, <2>2, <2>3 DEF OnceOK, Past
<1>11. SagaInv'
  <2>1. k.step = "audit" => Traced(k.msg)'
    <3>1. k.step = "audit" => Traced(k.msg)
      BY <1>3, <1>5 DEF TraceOK
    <3>2. topic' = topic
      BY <1>1
    <3> QED
      BY <1>7, <3>1, <3>2, TracedStays
  <2>2. k.step = "notify" /\ k.pc = "completed" => <<"notify", k.msg>> \in sent'
    BY <1>5
  <2>3. k.step # "commit"
    BY <1>2, <1>5
  <2> QED
    BY <1>1, <1>4, <1>5, <1>6, <1>7, <1>10, <2>1, <2>2, <2>3, ReplaceKeeps
<1> QED
  BY <1>9, <1>11

\* UpdateSagaStep: a failed step is on record, or the message is noted as unrecorded.
LEMMA UpdateKeeps ==
  ASSUME ThreatTypeOK, SagaTypeOK, SagaInv, NEW j \in jobs, UpdateSagaStep(j)
  PROVE  SagaTypeOK' /\ SagaInv'
<1> DEFINE id == topic[j.msg].id
           s == <<j.step, j.pc>>
           k == [j EXCEPT !.step = NextStep(j, j.pc = "completed"), !.tries = 0, !.pc = "try"]
           noted(a) == IF a.id = id THEN [a EXCEPT !.steps = @ \cup {s}] ELSE a
<1>1. UNCHANGED <<topic, position, offset, sent, again, unclear, interrupted>>
  BY DEF UpdateSagaStep, threatButFaults
<1>2. j.pc \in {"completed", "failed"} /\ j \in Jobs /\ j.msg \in 1..Len(topic) /\ Replace(j, k)
  BY JobMessage DEF UpdateSagaStep
<1>3. OnceOK(j) /\ TraceOK /\ again \subseteq unclear
  BY DEF SagaInv
<1>4. j.step \in {"persist", "notify", "audit"}
  BY <1>2, <1>3, JobFields DEF TraceOK
<1>5. /\ NextStep(j, j.pc = "completed") \in {"notify", "audit", "commit"}
      /\ NextStep(j, j.pc = "completed") = "notify" => j.step = "persist" /\ j.pc = "completed"
      /\ NextStep(j, j.pc = "completed") = "audit" => j.step = "notify"
      /\ NextStep(j, j.pc = "completed") = "commit" => j.step = "audit" \/ j.pc = "failed"
  BY <1>2, <1>4 DEF NextStep
<1>6. /\ k \in Jobs /\ k.msg = j.msg /\ k.step = NextStep(j, j.pc = "completed") /\ k.pc = "try"
  <2>1. PICK n : n = NextStep(j, j.pc = "completed")
    OBVIOUS
  <2>2. n \in Steps \cup {"commit"}
    BY <1>5, <2>1 DEF Steps
  <2>3. 0 \in 0..MaxTries - 1
    BY SagaAssumption
  <2> QED
    BY <1>2, <2>1, <2>2, <2>3 DEF Jobs
<1> HIDE DEF k
<1>7. ASSUME NEW a \in alerts
      PROVE  /\ noted(a) \in Documents /\ noted(a).id = a.id /\ a.steps \subseteq noted(a).steps
             /\ a.id = id => s \in noted(a).steps
  <2>1. a \in Documents /\ s \in Steps \X {"completed", "failed"}
    BY <1>2, <1>4, SagaFacts DEF Steps
  <2> HIDE DEF s, id
  <2>2. [a EXCEPT !.steps = @ \cup {s}] \in Documents
    BY <2>1 DEF Documents
  <2>3. [a EXCEPT !.steps = @ \cup {s}].id = a.id /\ [a EXCEPT !.steps = @ \cup {s}].steps = a.steps \cup {s}
    BY <2>1 DEF Documents
  <2> QED
    BY <2>1, <2>2, <2>3
<1>8. \/ alerts' = alerts /\ unrecorded' = unrecorded \cup {j.msg}
      \/ /\ alerts' = {noted(a) : a \in alerts}
         /\ unrecorded' = IF Exists(id) THEN unrecorded ELSE unrecorded \cup {j.msg}
  BY DEF UpdateSagaStep
<1> HIDE DEF noted
<1>9. Kept /\ alerts' \subseteq Documents /\ \A a, b \in alerts' : a.id = b.id => a = b
  <2>1. CASE alerts' = alerts
    BY <1>1, <1>8, <2>1, SagaFacts DEF Kept
  <2>2. CASE alerts' = {noted(a) : a \in alerts}
    <3>1. \A a \in alerts : noted(a) \in alerts'
      BY <2>2
    <3> QED
      BY <1>1, <1>7, <1>8, <2>2, <3>1, SagaFacts DEF Kept
  <2> QED
    BY <1>8, <2>1, <2>2
<1>10. SagaTypeOK'
  <2>1. JobsOK'
    BY <1>1, <1>2, <1>6, SagaFacts, ReplaceTypes
  <2> QED
    BY <1>1, <1>9, <2>1, SagaFacts, SagaTypes
<1>11. ASSUME j.pc = "failed" PROVE Traced(j.msg)'
  <2>1. CASE j.msg \in unrecorded'
    BY <2>1 DEF Traced
  <2>2. CASE j.msg \notin unrecorded'
    <3>1. Exists(id) /\ alerts' = {noted(a) : a \in alerts}
      BY <1>8, <2>2
    <3>2. PICK a \in alerts : a.id = id
      BY <3>1 DEF Exists
    <3>3. noted(a) \in alerts' /\ noted(a).id = id /\ s \in noted(a).steps /\ s[2] = "failed"
      BY <1>7, <1>11, <3>1, <3>2
    <3> QED
      BY <1>1, <3>3 DEF Traced
  <2> QED
    BY <2>1, <2>2
<1>12. ASSUME Traced(j.msg) PROVE Traced(j.msg)'
  <2>1. topic' = topic
    BY <1>1
  <2> QED
    BY <1>9, <1>12, <2>1, TracedStays
<1>13. k.step \in {"audit", "commit"} => Traced(k.msg)'
  <2>1. CASE j.pc = "failed"
    BY <1>6, <1>11, <2>1
  <2>2. CASE j.pc = "completed"
    <3>1. CASE j.step = "audit"
      BY <1>3, <1>6, <1>12, <3>1 DEF TraceOK
    <3>2. CASE j.step = "notify"
      <4>1. <<"notify", j.msg>> \in sent
        BY <1>3, <2>2, <3>2 DEF TraceOK
      <4> QED
        BY <1>6, <1>12, <4>1 DEF Traced
    <3>3. CASE j.step = "persist"
      BY <1>5, <1>6, <2>2, <3>3
    <3> QED
      BY <1>4, <3>1, <3>2, <3>3
  <2> QED
    BY <1>2, <2>1, <2>2
<1>14. OnceOK(k)'
  <2>1. CASE k.step = "commit"
    BY <2>1 DEF OnceOK, Past
  <2>2. CASE k.step # "commit"
    <3>1. Past(j)
      BY <1>4, <1>5, <1>6, <2>2 DEF Past
    <3>2. PICK d : d = topic[j.msg].id
      OBVIOUS
    <3>3. Exists(d)'
      BY <1>3, <1>9, <3>1, <3>2, ExistsStays DEF OnceOK
    <3>4. Exists(topic[k.msg].id)'
      BY <1>1, <1>6, <3>2, <3>3
    <3>5. (k.step = "notify" => <<"notify", k.msg>> \notin sent') /\ <<"audit", k.msg>> \notin sent'
      BY <1>1, <1>3, <1>5, <1>6, <2>2, <3>1 DEF OnceOK
    <3> QED
      BY <1>5, <1>6, <2>2, <3>4, <3>5 DEF OnceOK
  <2> QED
    BY <2>1, <2>2
<1>15. SagaInv'
  <2>1. again' \subseteq unclear' /\ sent' = sent
    BY <1>1, <1>3
  <2> QED
    BY <1>1, <1>2, <1>6, <1>9, <1>13, <1>14, <2>1, ReplaceKeeps
<1> QED
  BY <1>10, <1>15

\* Start: the new goroutine is the only one for its message.
LEMMA StartKeeps ==
  ASSUME ThreatTypeOK, SagaTypeOK, SagaInv, Start
  PROVE  SagaTypeOK' /\ SagaInv'
<1> DEFINE k == [msg |-> position, step |-> "persist", tries |-> 0, pc |-> "try"]
<1>1. UNCHANGED <<topic, offset, alerts, sent, again, unclear, unrecorded, interrupted>>
  BY DEF Start, threatVars, sagaHistory
<1>2. /\ position \in 1..Len(topic) + 1 /\ position <= Len(topic) /\ Len(topic) \in Nat
      /\ position' = position + 1 /\ offset \in 1..position
  BY SagaFacts, Facts DEF Start
<1>3. k \in Jobs /\ k.msg = position /\ k.step = "persist" /\ k.pc = "try"
  <2>1. 0 \in 0..MaxTries - 1 /\ position \in Nat \ {0}
    BY <1>2, SagaAssumption
  <2> QED
    BY <2>1 DEF Jobs, Steps
<1>4. jobs' = jobs \cup {k}
  BY DEF Start
<1> HIDE DEF k
<1>5. /\ jobs \subseteq Jobs /\ IsFiniteSet(jobs) /\ Cardinality(jobs) < Slots
      /\ \A i \in jobs : i.msg < position
      /\ \A i, l \in jobs : i.msg = l.msg => i = l
  BY DEF Start, SagaTypeOK, JobsOK
<1>6. JobsOK'
  <2>1. IsFiniteSet(jobs') /\ Cardinality(jobs') <= Slots
    <3>1. /\ IsFiniteSet(jobs \cup {k}) /\ Cardinality(jobs \cup {k}) \in Nat /\ Cardinality(jobs) \in Nat
          /\ Cardinality(jobs \cup {k}) <= Cardinality(jobs) + 1
      BY <1>5, OneMore
    <3>2. Cardinality(jobs \cup {k}) <= Slots
      BY <1>5, <3>1, SagaAssumption
    <3> QED
      BY <1>4, <3>1, <3>2
  <2>2. \A i \in jobs : i.msg \in Nat
    BY <1>5, JobFields
  <2>3. \A i \in jobs' : i.msg < position'
    BY <1>2, <1>3, <1>4, <1>5, <2>2
  <2>4. \A i, l \in jobs' : i.msg = l.msg => i = l
    BY <1>2, <1>3, <1>4, <1>5, <2>2
  <2> QED
    BY <1>3, <1>4, <1>5, <2>1, <2>3, <2>4 DEF JobsOK
<1>7. SagaTypeOK'
  <2>1. position' \in 1..Len(topic') + 1 /\ offset' \in 1..position'
    BY <1>1, <1>2
  <2> QED
    BY <1>1, <1>6, <2>1 DEF SagaTypeOK
<1>8. SagaInv'
  <2>1. again' \subseteq unclear' /\ StoredFirst'
    BY <1>1 DEF SagaInv, StoredFirst, Exists
  <2>2. ASSUME NEW i \in jobs' PROVE OnceOK(i)'
    <3>1. CASE i = k
      BY <1>3, <3>1 DEF OnceOK, Past
    <3>2. CASE i \in jobs
      BY <1>1, <3>2 DEF SagaInv, OnceOK, Past, Exists
    <3> QED
      BY <1>4, <3>1, <3>2
  <2>3. TraceOK
    BY DEF SagaInv
  <2>4. ASSUME NEW i, Traced(i) PROVE Traced(i)'
    BY <1>1, <2>4 DEF Traced
  <2>5. ASSUME NEW i \in jobs'
        PROVE  /\ i.step = "commit" => i.pc = "try"
               /\ i.step \in {"audit", "commit"} => Traced(i.msg)'
               /\ i.step = "notify" /\ i.pc = "completed" => <<"notify", i.msg>> \in sent'
    BY <1>1, <1>3, <1>4, <2>3, <2>4 DEF TraceOK
  <2>6. ASSUME NEW i \in 1..position' - 1 PROVE Traced(i)' \/ \E l \in jobs' : l.msg = i
    <3>1. CASE i = position
      BY <1>3, <1>4, <3>1
    <3>2. CASE i \in 1..position - 1
      BY <1>4, <2>3, <2>4, <3>2 DEF TraceOK
    <3> QED
      BY <1>2, <3>1, <3>2
  <2>7. TraceOK'
    BY <2>5, <2>6 DEF TraceOK
  <2> QED
    BY <2>1, <2>2, <2>7 DEF SagaInv
<1> QED
  BY <1>7, <1>8

\* A message below an earlier position is below the position.
LEMMA Below ==
  ASSUME NEW n \in Int, NEW m \in Int, m <= n, NEW i \in 1..m - 1
  PROVE  i \in 1..n - 1
  OBVIOUS

\* Goroutines that end, in a commit or a restart.
LEMMA EndKeepsSaga ==
  ASSUME ThreatTypeOK, SagaTypeOK, SagaInv,
         UNCHANGED <<topic, alerts, sent, again, unclear, unrecorded>>,
         jobs' \subseteq jobs, interrupted \subseteq interrupted',
         position' \in 1..position, offset' \in 1..position', \A j \in jobs' : j.msg < position',
         \A j \in jobs \ jobs' : Traced(j.msg)'
  PROVE  SagaTypeOK' /\ SagaInv'
<1>1. position \in 1..Len(topic) + 1 /\ Len(topic) \in Nat
  BY SagaFacts, Facts
<1>2. JobsOK'
  <2>1. /\ jobs \subseteq Jobs /\ IsFiniteSet(jobs) /\ Cardinality(jobs) <= Slots
        /\ \A i, l \in jobs : i.msg = l.msg => i = l
    BY DEF SagaTypeOK, JobsOK
  <2>2. IsFiniteSet(jobs') /\ Cardinality(jobs') <= Cardinality(jobs)
    BY <2>1, FS_Subset
  <2>3. Cardinality(jobs') \in Nat /\ Cardinality(jobs) \in Nat
    BY <2>1, <2>2, FS_CardinalityType
  <2>4. Cardinality(jobs') <= Slots
    BY <2>1, <2>2, <2>3, SagaAssumption
  <2> QED
    BY <2>1, <2>2, <2>4 DEF JobsOK
<1>3. SagaTypeOK'
  <2>1. position' \in 1..Len(topic') + 1
    BY <1>1
  <2> QED
    BY <1>2, <2>1 DEF SagaTypeOK
<1>4. again' \subseteq unclear' /\ StoredFirst'
  BY DEF SagaInv, StoredFirst, Exists
<1>5. ASSUME NEW i \in jobs' PROVE OnceOK(i)'
  BY DEF SagaInv, OnceOK, Past, Exists
<1>6. TraceOK
  BY DEF SagaInv
<1>7. ASSUME NEW i, Traced(i) PROVE Traced(i)'
  BY <1>7 DEF Traced
<1>8. ASSUME NEW i \in jobs'
      PROVE  /\ i.step = "commit" => i.pc = "try"
             /\ i.step \in {"audit", "commit"} => Traced(i.msg)'
             /\ i.step = "notify" /\ i.pc = "completed" => <<"notify", i.msg>> \in sent'
  BY <1>6, <1>7 DEF TraceOK
<1>9. ASSUME NEW i \in 1..position' - 1 PROVE Traced(i)' \/ \E l \in jobs' : l.msg = i
  <2>1. position \in Int /\ position' \in Int /\ position' <= position
    BY <1>1
  <2>2. i \in 1..position - 1
    BY <2>1, Below
  <2> QED
    BY <1>6, <1>7, <2>2 DEF TraceOK
<1>10. TraceOK'
  BY <1>8, <1>9 DEF TraceOK
<1> QED
  BY <1>3, <1>4, <1>5, <1>10 DEF SagaInv

\* Commit: the goroutine ends with a trace of its message.
LEMMA CommitKeeps ==
  ASSUME ThreatTypeOK, SagaTypeOK, SagaInv, NEW j \in jobs, Commit(j)
  PROVE  SagaTypeOK' /\ SagaInv'
<1>1. UNCHANGED <<topic, position, alerts, sent, again, unclear, unrecorded, interrupted>>
  BY DEF Commit, threatButFaults, sagaHistory
<1>2. j.step = "commit" /\ jobs' = jobs \ {j} /\ offset' \in {offset, j.msg + 1}
  BY DEF Commit
<1>3. /\ position \in Nat \ {0} /\ offset \in 1..position /\ \A i \in jobs : i.msg < position
      /\ j.msg \in Nat \ {0}
  BY SagaFacts, Facts, JobMessage, JobFields DEF JobsOK
<1>4. position' \in 1..position /\ offset' \in 1..position' /\ \A i \in jobs' : i.msg < position'
  BY <1>1, <1>2, <1>3
<1>5. Traced(j.msg)'
  BY <1>1, <1>2 DEF SagaInv, TraceOK, Traced
<1>6. \A i \in jobs \ jobs' : Traced(i.msg)'
  BY <1>2, <1>5
<1> QED
  BY <1>1, <1>2, <1>4, <1>6, EndKeepsSaga

\* SagaRestart: what was under way is noted as interrupted.
LEMMA SagaRestartKeeps ==
  ASSUME ThreatTypeOK, SagaTypeOK, SagaInv, SagaRestart
  PROVE  SagaTypeOK' /\ SagaInv'
<1>1. UNCHANGED <<topic, offset, alerts, sent, again, unclear, unrecorded>>
  BY DEF SagaRestart
<1>2. jobs' = {} /\ position' = offset /\ interrupted' = interrupted \cup {j.msg : j \in jobs}
  BY DEF SagaRestart
<1>3. offset \in 1..position /\ position \in Nat
  BY SagaFacts, Facts
<1>4. position' \in 1..position /\ offset' \in 1..position'
  BY <1>1, <1>2, <1>3
<1>5. \A i \in jobs \ jobs' : Traced(i.msg)'
  BY <1>2 DEF Traced
<1> QED
  BY <1>1, <1>2, <1>4, <1>5, EndKeepsSaga

\* A step of the saga changes nothing of the threat service but the count of faults.
LEMMA SagaLeavesThreat ==
  ASSUME ThreatTypeOK, ThreatInv, SagaNext, log' = log
  PROVE  ThreatTypeOK' /\ ThreatInv'
<1>1. UNCHANGED <<owner, reader, keys, window, devices, stored, topic, done, failed, suspects, missed, now>>
  BY DEF SagaNext, Start, Create, Publish, UpdateSagaStep, Commit, SagaRestart, threatVars, threatButFaults,
         redis, threatHistory
<1>2. faults' \in 0..MaxFaults
  <2>1. faults' = faults \/ Fault
    BY DEF SagaNext, Start, Create, Publish, UpdateSagaStep, Commit, SagaRestart, threatVars
  <2>2. faults \in 0..MaxFaults /\ MaxFaults \in Nat
    BY Facts
  <2> QED
    BY <2>1, <2>2 DEF Fault
<1>3. ThreatTypeOK'
  BY <1>1, <1>2 DEF ThreatTypeOK
<1>4. ASSUME NEW r \in Readers PROVE PassedOK(r)' /\ InHandOK(r)'
  BY <1>1 DEF ThreatInv, PassedOK, InHandOK, DeviceAt, Event, Reported
<1>5. AlertsOK'
  BY <1>1 DEF ThreatInv, AlertsOK, FiredOK, Apart
<1>6. TakeoverOK'
  BY <1>1 DEF ThreatInv, TakeoverOK, Reported
<1> QED
  BY <1>3, <1>4, <1>5, <1>6 DEF ThreatInv

\* A step of the threat service only adds to the topic the saga reads.
LEMMA ThreatLeavesSaga ==
  ASSUME ThreatTypeOK, ThreatTypeOK', SagaTypeOK, SagaInv, Grown, UNCHANGED sagaVars
  PROVE  SagaTypeOK' /\ SagaInv'
<1>1. UNCHANGED <<position, offset, jobs, alerts, sent, again, unclear, unrecorded, interrupted>>
  BY DEF sagaVars, sagaHistory
<1>2. Len(topic) \in Nat /\ Len(topic') \in Nat
  BY DEF ThreatTypeOK
<1>3. Len(topic) <= Len(topic') /\ \A i \in 1..Len(topic) : topic'[i] = topic[i]
  BY DEF Grown
<1>4. SagaTypeOK'
  <2>1. 1..Len(topic) \subseteq 1..Len(topic') /\ position' \in 1..Len(topic') + 1 /\ offset' \in 1..position'
    BY <1>1, <1>2, <1>3, SagaFacts
  <2>2. {"notify", "audit"} \X (1..Len(topic)) \subseteq {"notify", "audit"} \X (1..Len(topic'))
    BY <2>1
  <2>3. JobsOK'
    BY <1>1, SagaFacts DEF JobsOK
  <2> QED
    BY <1>1, <2>1, <2>2, <2>3, SagaFacts DEF SagaTypeOK
<1>5. ASSUME NEW j \in jobs PROVE topic'[j.msg] = topic[j.msg]
  BY <1>3, JobMessage
<1>6. \A i \in 1..position - 1 : topic'[i] = topic[i]
  BY <1>2, <1>3, SagaFacts
<1>7. ASSUME NEW p \in sent PROVE topic'[p[2]] = topic[p[2]]
  <2>1. p[2] \in 1..Len(topic)
    BY SagaFacts
  <2> QED
    BY <1>3, <2>1
<1>8. ASSUME NEW j \in jobs' PROVE OnceOK(j)'
  BY <1>1, <1>5 DEF SagaInv, OnceOK, Past, Exists
<1>9. StoredFirst'
  BY <1>1, <1>7 DEF SagaInv, StoredFirst, Exists
<1>10. TraceOK'
  <2>1. TraceOK
    BY DEF SagaInv
  <2>2. ASSUME NEW i, topic'[i] = topic[i], Traced(i) PROVE Traced(i)'
    BY <1>1, <2>2 DEF Traced
  <2>3. ASSUME NEW i \in jobs'
        PROVE  /\ i.step = "commit" => i.pc = "try"
               /\ i.step \in {"audit", "commit"} => Traced(i.msg)'
               /\ i.step = "notify" /\ i.pc = "completed" => <<"notify", i.msg>> \in sent'
    BY <1>1, <1>5, <2>1, <2>2 DEF TraceOK
  <2>4. ASSUME NEW i \in 1..position' - 1 PROVE Traced(i)' \/ \E l \in jobs' : l.msg = i
    BY <1>1, <1>6, <2>1, <2>2 DEF TraceOK
  <2> QED
    BY <2>3, <2>4 DEF TraceOK
<1> QED
  BY <1>1, <1>4, <1>8, <1>9, <1>10 DEF SagaInv

-----------------------------------------------------------------------------
(* The theorems.                                                           *)

\* The invariant, for every behaviour.
LEMMA AlertInvariant == Spec => [](TypeOK /\ ThreatInv /\ SagaInv)
<1>1. Init => TypeOK /\ ThreatInv /\ SagaInv
  <2> SUFFICES ASSUME Init PROVE TypeOK /\ ThreatInv /\ SagaInv
    OBVIOUS
  <2>1. ThreatTypeOK /\ ThreatInv
    BY ThreatStart DEF Init
  <2>2. /\ position = 1 /\ offset = 1 /\ jobs = {} /\ alerts = {} /\ sent = {} /\ again = {} /\ unclear = {}
        /\ topic = <<>>
    BY DEF Init, ThreatInit
  <2>3. IsFiniteSet({}) /\ Cardinality({}) = 0 /\ Slots \in Nat
    BY FS_EmptySet, SagaAssumption
  <2>4. SagaTypeOK
    BY <2>2, <2>3 DEF SagaTypeOK, JobsOK
  <2>5. SagaInv
    BY <2>2 DEF SagaInv, StoredFirst, TraceOK
  <2> QED
    BY <2>1, <2>4, <2>5, Parts
<1>2. TypeOK /\ ThreatInv /\ SagaInv /\ [Next]_vars => (TypeOK /\ ThreatInv /\ SagaInv)'
  <2> SUFFICES ASSUME TypeOK, ThreatInv, SagaInv, [Next]_vars
               PROVE  TypeOK' /\ ThreatInv' /\ SagaInv'
    OBVIOUS
  <2>1. ThreatTypeOK /\ SagaTypeOK
    BY Parts
  <2>2. ASSUME ThreatTypeOK', SagaTypeOK' PROVE TypeOK'
    BY <2>2 DEF TypeOK, SagaTypeOK, JobsOK
  <2>3. CASE ThreatNext /\ UNCHANGED sagaVars /\ log' = log
    <3>1. ThreatTypeOK' /\ ThreatInv'
      BY <2>1, <2>3, ThreatStep
    <3>2. SagaTypeOK' /\ SagaInv'
      BY <2>1, <2>3, <3>1, ThreatGrows, ThreatLeavesSaga
    <3> QED
      BY <2>2, <3>1, <3>2
  <2>4. CASE SagaNext /\ log' = log
    <3>1. ThreatTypeOK' /\ ThreatInv'
      BY <2>1, <2>4, SagaLeavesThreat
    <3>2. SagaTypeOK' /\ SagaInv'
      BY <2>1, <2>4, StartKeeps, CreateKeeps, PublishStepKeeps, UpdateKeeps, CommitKeeps, SagaRestartKeeps
      DEF SagaNext
    <3> QED
      BY <2>2, <3>1, <3>2
  <2>5. CASE UNCHANGED vars
    <3>1. UNCHANGED <<threatVars, sagaVars>>
      BY <2>5 DEF vars
    <3>2. /\ UNCHANGED <<log, owner, reader, keys, window, devices, stored, topic, done, failed, suspects, missed, now, faults>>
          /\ UNCHANGED <<position, offset, jobs, alerts, sent, again, unclear, unrecorded, interrupted>>
      BY <3>1 DEF threatVars, sagaVars, redis, threatHistory, sagaHistory
    <3>3. ThreatTypeOK'
      BY <2>1, <3>2 DEF ThreatTypeOK
    <3>4. Grown
      BY <2>1, <3>2, Facts DEF Grown
    <3>5. SagaTypeOK' /\ SagaInv'
      BY <2>1, <3>1, <3>3, <3>4, ThreatLeavesSaga
    <3>6. \A r \in Readers : PassedOK(r)' /\ InHandOK(r)'
      BY <3>2 DEF ThreatInv, PassedOK, InHandOK, DeviceAt, Event, Reported
    <3>7. AlertsOK' /\ TakeoverOK'
      BY <3>2 DEF ThreatInv, AlertsOK, FiredOK, Apart, TakeoverOK, Reported
    <3> QED
      BY <2>2, <3>3, <3>5, <3>6, <3>7 DEF ThreatInv
  <2> QED
    BY <2>3, <2>4, <2>5 DEF Next
<1> QED
  BY <1>1, <1>2, PTL DEF Spec

\* The types of both services: a reader stays on its topic, an expired key is gone,
\* there are no more goroutines than slots, one for a message at most, and one
\* document for an id.
THEOREM AlertTypeCorrect == Spec => []TypeOK
  BY AlertInvariant, PTL

\* A detector commits at an event it has processed, and the commit covers only
\* events that were processed or failed: no restart, rebalance or lost commit passes
\* over one.
THEOREM AlertCommittedAfterSuccess == Spec => []CommittedAfterSuccess
<1>1. ThreatInv => CommittedAfterSuccess
  BY DEF ThreatInv, PassedOK, CommittedAfterSuccess
<1> QED
  BY <1>1, AlertInvariant, PTL

\* One brute force alert per key and window.
THEOREM AlertOnePerWindow == Spec => []OneAlertPerWindow
<1>1. TypeOK /\ ThreatInv => OneAlertPerWindow
  <2> SUFFICES ASSUME TypeOK, ThreatInv PROVE OneAlertPerWindow
    OBVIOUS
  <2>1. DOMAIN topic = 1..Len(topic)
    BY DEF TypeOK, ThreatTypeOK
  <2> QED
    BY <2>1 DEF ThreatInv, AlertsOK, Apart, OneAlertPerWindow
<1> QED
  BY <1>1, AlertInvariant, PTL

\* A suspect device is learnt only after its alert.
THEOREM AlertTakeoverAlerted == Spec => []TakeoverAlerted
<1>1. TypeOK /\ ThreatInv => TakeoverAlerted
  <2> SUFFICES ASSUME TypeOK, ThreatInv PROVE TakeoverAlerted
    OBVIOUS
  <2>1. DOMAIN topic = 1..Len(topic)
    BY DEF TypeOK, ThreatTypeOK
  <2> QED
    BY <2>1 DEF ThreatInv, TakeoverOK, Reported, TakeoverAlerted
<1> QED
  BY <1>1, AlertInvariant, PTL

\* An alert is announced and audited once, but for publications that seemed to fail.
THEOREM AlertAnnouncedOnce == Spec => []AnnouncedOnce
<1>1. SagaInv => AnnouncedOnce
  BY DEF SagaInv, AnnouncedOnce
<1> QED
  BY <1>1, AlertInvariant, PTL

\* An alert that was not announced has left a trace.
THEOREM AlertMissingExplained == Spec => []MissingExplained
<1>1. SagaInv => MissingExplained
  BY DEF SagaInv, TraceOK, Traced, MissingExplained
<1> QED
  BY <1>1, AlertInvariant, PTL
=============================================================================
