-------------------------------- MODULE Threat --------------------------------
(***************************************************************************)
(* The threat service (services/threat): six detectors read events from    *)
(* Kafka, keep what they have seen in Redis, and raise alerts, which are   *)
(* stored in MongoDB and published to the topic threat.alerts.             *)
(*                                                                         *)
(* Brute force, impossible travel, off hours and account takeover read     *)
(* auth.events in one consumer group (main.go:63): of one partition they   *)
(* are competing consumers, so an event reaches the detector that owns the *)
(* partition.  Data exfiltration reads data.access, privilege escalation   *)
(* auth.events and policy.changes in groups of its own.                    *)
(*                                                                         *)
(* A place stands for an IP address; two places are further apart than the *)
(* threshold of impossible travel.  A device is its fingerprint.           *)
(***************************************************************************)
EXTENDS Integers, Sequences, FiniteSets, SequencesExt

CONSTANTS
  Events,         \* [type, user, device, place]: what can be published
  Logs,           \* what the topics may carry
  InitialKeys,    \* Redis keys from before
  InitialWindow,  \* times in the sliding windows from before
  MaxAttempts,    \* THREAT_MAX_FAILED_LOGINS
  Mean, Stddev, Fallback,  \* the baseline of data accesses; 1000 without one
  OffStart, OffEnd, DayLength,
  WindowSize,     \* 5 minutes
  Hour,           \* the window of accesses, travels and logins
  PasswordTTL,    \* a day
  InHoursTTL,     \* a week
  MaxTime,        \* bound: the clock
  MaxFaults       \* bound: errors of Redis, MongoDB and Kafka, restarts, rebalances

ASSUME LimitsAssumption ==
  {MaxTime, MaxFaults, Mean, Stddev, Fallback} \subseteq Nat
ASSUME WindowsAssumption ==
  {MaxAttempts, DayLength, WindowSize, Hour, PasswordTTL, InHoursTTL} \subseteq Nat \ {0}
ASSUME LogsAssumption == \A l \in Logs : l \in [{"auth", "access", "policy"} -> Seq(Events)]
ASSUME InitialKeysAssumption == \A k \in InitialKeys : k.until \in Nat \ {0}

VARIABLES
  log,      \* the topics
  owner,    \* the detector that owns the partition of auth.events
  reader,   \* per reader: [next, committed, pc, todo, alert]
  keys,     \* Redis: [key, val, until]
  window,   \* Redis: sorted sets, the times of their members
  devices,  \* Redis: ato:devices
  stored,   \* MongoDB threats.alerts: the status of each alert
  topic,    \* threat.alerts
  done,     \* history: events processed to their end, <<reader, event>>
  failed,   \* history: events whose processing returned an error
  suspects, \* history: logins from unknown devices after a password change, as
            \* last judged while the change was remembered
  missed,   \* history: alerts that could not be published
  now, faults

redis == <<keys, window, devices>>
threatHistory == <<done, failed, suspects, missed>>
threatVars == <<log, owner, reader, redis, stored, topic, threatHistory, now, faults>>

AuthDetectors == {"brute_force", "impossible_travel", "off_hours", "account_takeover"}
Readers == {"auth", "access", "login", "policy"}
Topic(r) == IF r = "login" THEN "auth" ELSE r
NoAlert == [detector |-> "none", org |-> "", user |-> "none", key |-> <<"none", "none">>, at |-> 0, id |-> 0]
Idle(n, c) == [next |-> n, committed |-> c, pc |-> "idle", todo |-> <<>>, alert |-> NoAlert]

\* What the topics will carry is there from the start: a reader that has not
\* fetched a message cannot tell whether it was published yet.
ThreatInit ==
  /\ log \in Logs
  /\ owner \in AuthDetectors
  /\ reader = [r \in Readers |-> Idle(1, 1)]
  /\ keys = InitialKeys
  /\ window = InitialWindow
  /\ devices = {}
  /\ stored = <<>> /\ topic = <<>>
  /\ done = {} /\ failed = {} /\ suspects = {} /\ missed = {}
  /\ now = 0 /\ faults = 0

Fault == faults < MaxFaults /\ faults' = faults + 1
Key(k) == {x \in keys : x.key = k}
SetKey(k, v, ttl) == keys' = (keys \ Key(k)) \cup {[key |-> k, val |-> v, until |-> now + ttl]}

-----------------------------------------------------------------------------
(* The loop every detector runs.                                           *)

\* The event a reader is at.
Event(r) == log[Topic(r)][reader[r].next - 1]
Detector(r) ==
  CASE r = "auth" -> owner [] r = "access" -> "data_exfiltration" [] OTHER -> "privilege_escalation"

\* The keys that brute force counts an event for: the address and the account.
Keys(r, e) ==
  IF r = "auth" /\ owner = "brute_force" /\ e.type = "failed"
  THEN <<<<"ip", e.place>>, <<"user", e.user>>>> ELSE <<>>

FetchMessage(r) ==
  /\ reader[r].pc = "idle" /\ reader[r].next <= Len(log[Topic(r)])
  /\ reader' = [reader EXCEPT ![r].next = @ + 1, ![r].pc = "process",
                              ![r].todo = Keys(r, log[Topic(r)][reader[r].next])]
  /\ UNCHANGED <<owner, redis, stored, topic, threatHistory, now, faults>>

Processing(r, d) == reader[r].pc = "process" /\ Detector(r) = d
Goto(r, pc) == reader' = [reader EXCEPT ![r].pc = pc]
Raise(r, a) == reader' = [reader EXCEPT ![r].pc = "store", ![r].alert = a]

\* Mutant: an event is committed whether its processing failed or not.
ProcessFailsCommits(r) ==
  /\ reader[r].pc \in {"process", "learn"}
  /\ Fault
  /\ reader' = [reader EXCEPT ![r] = Idle(@.next, @.next)]
  /\ failed' = failed \cup {<<r, reader[r].next - 1>>}
  /\ UNCHANGED <<owner, redis, stored, topic, done, suspects, missed, now>>

\* processEvent returns an error: the offset is not committed, the reader goes on
\* with the next message.
ProcessFails(r) ==
  /\ reader[r].pc \in {"process", "learn"}
  /\ Fault
  /\ reader' = [reader EXCEPT ![r] = Idle(@.next, @.committed)]
  /\ failed' = failed \cup {<<r, reader[r].next - 1>>}
  /\ UNCHANGED <<owner, redis, stored, topic, done, suspects, missed, now>>

\* A commit that fails is only logged.
CommitMessages(r) ==
  /\ reader[r].pc = "commit"
  /\ done' = done \cup {<<r, reader[r].next - 1>>}
  /\ \/ reader' = [reader EXCEPT ![r] = Idle(@.next, @.next)] /\ faults' = faults
     \/ Fault /\ reader' = [reader EXCEPT ![r] = Idle(@.next, @.committed)]
  /\ UNCHANGED <<owner, redis, stored, topic, failed, suspects, missed, now>>

\* The service restarts, or the group rebalances: a partition starts again at
\* its committed offset, maybe with another detector.
Restart ==
  /\ Fault
  /\ reader' = [r \in Readers |-> Idle(reader[r].committed, reader[r].committed)]
  /\ owner' \in AuthDetectors
  /\ UNCHANGED <<redis, stored, topic, threatHistory, now>>

-----------------------------------------------------------------------------
(* The alerts.  Only two detectors fill in the organization.               *)

Alert(detector, org, user, key) ==
  [detector |-> detector, org |-> org, user |-> user, key |-> key, at |-> now, id |-> 0]

BruteForceAlert(k) == Alert("brute_force", "", k[2], k)
TravelAlert(e) == Alert("impossible_travel", "", e.user, <<"user", e.user>>)
OffHoursAlert(e) == Alert("off_hours_access", "org", e.user, <<"user", e.user>>)
TakeoverAlert(e) == Alert("account_takeover", "", e.user, <<e.user, e.device>>)
ExfiltrationAlert(e) == Alert("data_exfiltration", "org", e.user, <<"user", e.user>>)
EscalationAlert(e) == Alert("privilege_escalation", "", e.user, <<"user", e.user>>)

-----------------------------------------------------------------------------
(* What each detector does with an event.                                  *)

Count(k, size) == Append(SelectSeq(window[k], LAMBDA t : t > now - size), now)

\* Mutant: the key that marks the alert does not hold back the next.
FirstInWindowAlways(k) == SetKey(<<"fired", k>>, "1", WindowSize)

\* SET NX of alert_fired.
FirstInWindow(k) == Key(<<"fired", k>>) = {} /\ SetKey(<<"fired", k>>, "1", WindowSize)

\* Sliding windows per address and per account.  An error of the SET NX counts as
\* an alert already fired.
trackFailedAttempt(r) ==
  LET k == Head(reader[r].todo)
      rest == [reader EXCEPT ![r].todo = Tail(@)] IN
  /\ Processing(r, "brute_force") /\ reader[r].todo # <<>>
  /\ window' = [window EXCEPT ![k] = Count(k, WindowSize)]
  /\ \/ /\ Len(Count(k, WindowSize)) >= MaxAttempts /\ FirstInWindow(k)
        /\ reader' = [rest EXCEPT ![r].pc = "store", ![r].alert = BruteForceAlert(k)]
        /\ faults' = faults
     \/ /\ \/ Len(Count(k, WindowSize)) < MaxAttempts /\ faults' = faults
           \/ Key(<<"fired", k>>) # {} /\ faults' = faults
           \/ Len(Count(k, WindowSize)) >= MaxAttempts /\ Fault
        /\ reader' = rest /\ keys' = keys
  /\ UNCHANGED <<owner, devices, stored, topic, threatHistory, now>>

BruteForce(r) ==
  /\ Processing(r, "brute_force") /\ reader[r].todo = <<>>
  /\ Goto(r, "commit")
  /\ UNCHANGED <<owner, redis, stored, topic, threatHistory, now, faults>>

\* The script reads the last login and stores this one.
ImpossibleTravel(r) ==
  LET e == Event(r)
      last == Key(<<"travel", e.user>>) IN
  /\ Processing(r, "impossible_travel")
  /\ IF e.type = "success"
     THEN /\ SetKey(<<"travel", e.user>>, e.place, Hour)
          /\ IF \E l \in last : l.val # e.place
             THEN Raise(r, TravelAlert(e)) ELSE Goto(r, "commit")
     ELSE keys' = keys /\ Goto(r, "commit")
  /\ UNCHANGED <<owner, window, devices, stored, topic, threatHistory, now, faults>>

isOffHours(hour) ==
  IF OffStart > OffEnd THEN hour >= OffStart \/ hour < OffEnd
  ELSE hour >= OffStart /\ hour < OffEnd

\* The keys of the last three days hold "1" or do not exist.
OffHours(r) ==
  LET e == Event(r)
      day == now \div DayLength
      inHours == \A d \in day - 3..day - 1 : \A k \in Key(<<"offhours", e.user, d>>) : k.val = "1" IN
  /\ Processing(r, "off_hours")
  /\ CASE e.type # "success" -> keys' = keys /\ Goto(r, "commit")
       [] e.type = "success" /\ isOffHours(now % DayLength) ->
            /\ keys' = keys
            /\ IF inHours THEN Raise(r, OffHoursAlert(e)) ELSE Goto(r, "commit")
       [] OTHER -> SetKey(<<"offhours", e.user, day>>, "1", InHoursTTL) /\ Goto(r, "commit")
  /\ UNCHANGED <<owner, window, devices, stored, topic, threatHistory, now, faults>>

\* Mutant: the device is remembered before the alert is out.
AccountTakeoverLearns(r) ==
  LET e == Event(r)
      suspect == Key(<<"pwchange", e.user>>) # {} /\ <<e.user, e.device>> \notin devices IN
  /\ Processing(r, "account_takeover")
  /\ keys' = keys
  /\ IF e.type = "success" /\ suspect
     THEN /\ suspects' = suspects \cup {<<e.user, e.device>>}
          /\ devices' = devices \cup {<<e.user, e.device>>}
          /\ Raise(r, TakeoverAlert(e))
     ELSE UNCHANGED <<suspects, devices>> /\ Goto(r, "learn")
  /\ UNCHANGED <<owner, window, stored, topic, done, failed, missed, now, faults>>

\* A login from a device that is not known, within a day of a new password.
AccountTakeover(r) ==
  LET e == Event(r)
      suspect == Key(<<"pwchange", e.user>>) # {} /\ <<e.user, e.device>> \notin devices IN
  /\ Processing(r, "account_takeover")
  /\ CASE e.type = "password" ->
            SetKey(<<"pwchange", e.user>>, "1", PasswordTTL) /\ Goto(r, "commit") /\ UNCHANGED suspects
       [] e.type = "success" ->
            /\ keys' = keys
            /\ suspects' = IF suspect THEN suspects \cup {<<e.user, e.device>>}
                           ELSE IF Key(<<"pwchange", e.user>>) = {} THEN suspects \ {<<e.user, e.device>>}
                           ELSE suspects
            /\ IF suspect THEN Raise(r, TakeoverAlert(e)) ELSE Goto(r, "learn")
       [] OTHER -> keys' = keys /\ Goto(r, "commit") /\ UNCHANGED suspects
  /\ UNCHANGED <<owner, window, devices, stored, topic, done, failed, missed, now, faults>>

\* The device is known from now on.
LearnDevice(r) ==
  /\ reader[r].pc = "learn"
  /\ devices' = devices \cup {<<Event(r).user, Event(r).device>>}
  /\ Goto(r, "commit")
  /\ UNCHANGED <<owner, keys, window, stored, topic, threatHistory, now, faults>>

exceeds(count) == IF Mean = 0 THEN count > Fallback ELSE count > Mean + 3 * Stddev

DataExfiltration(r) ==
  LET k == <<"access", Event(r).user>> IN
  /\ Processing(r, "data_exfiltration")
  /\ window' = [window EXCEPT ![k] = Count(k, Hour)]
  /\ IF exceeds(Len(Count(k, Hour))) THEN Raise(r, ExfiltrationAlert(Event(r))) ELSE Goto(r, "commit")
  /\ UNCHANGED <<owner, keys, devices, stored, topic, threatHistory, now, faults>>

\* consumeAuth: who logged in within the hour.
RecentLogin(r) ==
  LET e == Event(r) IN
  /\ r = "login" /\ reader[r].pc = "process"
  /\ IF e.type = "success" THEN SetKey(<<"login", e.user>>, "1", Hour) ELSE keys' = keys
  /\ Goto(r, "commit")
  /\ UNCHANGED <<owner, window, devices, stored, topic, threatHistory, now, faults>>

\* consumePolicy: a grant by someone who has just logged in.
PrivilegeEscalation(r) ==
  /\ r = "policy" /\ reader[r].pc = "process"
  /\ IF Key(<<"login", Event(r).user>>) # {} THEN Raise(r, EscalationAlert(Event(r)))
     ELSE Goto(r, "commit")
  /\ UNCHANGED <<owner, redis, stored, topic, threatHistory, now, faults>>

-----------------------------------------------------------------------------
(* The alert.                                                              *)

\* An alert that could not be stored goes on with the zero id.
CreateAlert(r) ==
  /\ reader[r].pc = "store"
  /\ \/ stored' = Append(stored, "open") /\ faults' = faults
     \/ Fault /\ stored' = stored
  /\ reader' = [reader EXCEPT ![r].pc = "publish",
                              ![r].alert.id = IF stored' = stored THEN 0 ELSE Len(stored')]
  /\ UNCHANGED <<owner, redis, topic, threatHistory, now>>

\* An error is only logged.  The alert is cached for a day.
publishThreatEvent(r) ==
  LET a == reader[r].alert IN
  /\ reader[r].pc = "publish"
  /\ \/ topic' = Append(topic, a) /\ missed' = missed /\ faults' = faults
     \/ Fault /\ topic' = topic /\ missed' = missed \cup {<<a.detector, a.key>>}
  /\ reader' = [reader EXCEPT ![r].alert = NoAlert, ![r].pc =
       CASE a.detector = "brute_force" -> "process"
         [] a.detector = "account_takeover" -> "learn"
         [] OTHER -> "commit"]
  /\ SetKey(<<"threat", a.detector, a.user>>, "alert", PasswordTTL)
  /\ UNCHANGED <<owner, window, devices, stored, done, failed, suspects, now>>

\* Time passes and keys expire.
Tick ==
  /\ now < MaxTime
  /\ now' = now + 1
  /\ keys' = {k \in keys : now' < k.until}
  /\ UNCHANGED <<owner, reader, window, devices, stored, topic, threatHistory, faults>>

ThreatNext ==
  \/ \E r \in Readers :
       \/ FetchMessage(r) \/ ProcessFails(r) \/ CommitMessages(r)
       \/ trackFailedAttempt(r) \/ BruteForce(r) \/ ImpossibleTravel(r) \/ OffHours(r)
       \/ AccountTakeover(r) \/ LearnDevice(r) \/ DataExfiltration(r)
       \/ RecentLogin(r) \/ PrivilegeEscalation(r)
       \/ CreateAlert(r) \/ publishThreatEvent(r)
  \/ Restart
  \/ Tick

-----------------------------------------------------------------------------
(* Properties.                                                             *)

Names == {e.user : e \in Events}
Addresses == {e.place : e \in Events}
Fingerprints == {e.device : e \in Events}
Watched == ({"ip"} \X Addresses) \cup ({"user"} \X Names)
Alerts ==
  [detector : {"none", "brute_force", "impossible_travel", "off_hours_access", "account_takeover",
               "data_exfiltration", "privilege_escalation"},
   org : {"", "org"}, user : Names \cup Addresses \cup {"none"},
   key : Watched \cup (Names \X Fingerprints) \cup {<<"none", "none">>}, at : Nat, id : Nat]
ReaderStates ==
  [next : Nat \ {0}, committed : Nat \ {0}, todo : Seq(Watched), alert : Alerts,
   pc : {"idle", "process", "store", "publish", "learn", "commit"}]

\* Types: a reader is at a message of its topic, a key of Redis has not expired, and
\* a published alert is stored, or has the zero id.
ThreatTypeOK ==
  /\ log \in [{"auth", "access", "policy"} -> Seq(Events)]
  /\ owner \in AuthDetectors
  /\ reader \in [Readers -> ReaderStates]
  /\ \A r \in Readers :
       /\ reader[r].committed <= reader[r].next
       /\ reader[r].next <= Len(log[Topic(r)]) + 1
       /\ reader[r].pc # "idle" => reader[r].next > 1
       /\ reader[r].alert.id <= Len(stored)
  /\ \A k \in keys : now < k.until
  /\ devices \subseteq Names \X Fingerprints /\ suspects \subseteq Names \X Fingerprints
  /\ stored \in Seq({"open"})
  /\ topic \in Seq(Alerts) /\ \A i \in 1..Len(topic) : topic[i].id <= Len(stored)
  /\ now \in Nat /\ faults \in 0..MaxFaults

\* A detector commits at an event it has processed to its end, and what the commit
\* covers was processed or returned an error: no restart, rebalance or lost commit
\* passes over an event, and one whose processing failed, which is not committed, is
\* given up only when a later one succeeds (Run of every detector,
\* brute_force.go:81-87).
CommittedAfterSuccess ==
  \A r \in Readers :
    LET c == reader[r].committed IN
    c > 1 => /\ <<r, c - 1>> \in done
             /\ \A i \in 1..c - 1 : <<r, i>> \in done \cup failed

\* One address or account raises at most one brute force alert per window,
\* however often its events are delivered and whoever owns the partition
\* (brute_force.go:143-156).
OneAlertPerWindow ==
  \A i, j \in DOMAIN topic :
    /\ i < j /\ topic[i].detector = "brute_force" /\ topic[j].detector = "brute_force"
    /\ topic[i].key = topic[j].key
    => topic[j].at >= topic[i].at + WindowSize

\* A suspect device is known only when its alert was published or its publication
\* failed: a restart between the two repeats the alert instead of losing it,
\* unless the password change has been forgotten since
\* (account_takeover.go:110-122).
TakeoverAlerted ==
  \A s \in suspects \cap devices :
    \/ <<"account_takeover", s>> \in missed
    \/ \E i \in DOMAIN topic : topic[i].detector = "account_takeover" /\ topic[i].key = s
==============================================================================
