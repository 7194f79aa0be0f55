----------------------------- MODULE Discovery -----------------------------
(***************************************************************************)
(* Auto-discovery in device-service: the MQTT loop of mqtt_subscriber.py,  *)
(* process_message and AdmissionGate of discovery.py and the admission     *)
(* matrix of topic_parser.py, up to the classification, which is one long  *)
(* step here (DeviceRegistry and BudgetLedger look into it).               *)
(*                                                                         *)
(* The loop handles one message at a time, but a message is handled in     *)
(* several database transactions, with the time of its receipt as "now".   *)
(* Times are kept as ages (SlidingWindow), so the clock never ends.        *)
(*                                                                         *)
(* births is a history variable: the program does not have it.  A          *)
(* definition marked "Faulty" is no part of the model: it is a plausible   *)
(* bug that the properties are shown to notice.                            *)
(***************************************************************************)
EXTENDS SlidingWindow, FiniteSets

CONSTANTS
  Names,          \* id segments of topics, device ids of payloads
  WellFormed,     \* those that match ID_RE
  Legacy,         \* LEGACY_SENSOR_MAP, a function on some of the names
  Normalized,     \* [Names -> Names], "sensor-" + _normalize_sensor
  Messages,       \* what the sources publish
  RateLimit, RateWindow, DedupeWindow,
  MaxLag,         \* bound: handling a message takes no longer
  MaxInbox,       \* bound: messages waiting in the client
  MaxFaults       \* bound: exceptions, disconnections and restarts

None == "none"
Roots == {"ems", "sensor", "other"}   \* the topic's shape: rules #1-#3, #4
Topics == {m.topic : m \in Messages}
Horizon == RateWindow + MaxLag        \* no older time is told apart

NoMessage == [topic |-> [root |-> "other", name |-> None], device_id |-> None,
              oversized |-> FALSE, many_fields |-> FALSE]

ASSUME DiscoveryAssumption ==
  /\ None \notin Names
  /\ WellFormed \subseteq Names
  /\ DOMAIN Legacy \subseteq Names
  /\ \A s \in DOMAIN Legacy : Legacy[s] \in Names
  /\ Normalized \in [Names -> Names]
  /\ Messages \subseteq [topic : [root : Roots, name : Names],
                         device_id : Names \cup {None},
                         oversized : BOOLEAN, many_fields : BOOLEAN]
  /\ RateLimit \in Nat \ {0}
  /\ RateWindow \in Nat \ {0} /\ DedupeWindow \in Nat \ {0}
  /\ MaxLag \in Nat /\ MaxInbox \in Nat /\ MaxFaults \in Nat

VARIABLES
  devices,       \* ids of the rows of public.devices
  online,        \* the client is connected and subscribed
  inbox,         \* messages the client has received
  pc, message,   \* the message the loop is busy with
  lag,           \* time since "now" was taken for it
  last,          \* _last_candidate_for, as ages; DedupeWindow is "long ago"
  times,         \* _candidate_times: ages, oldest first
  births,        \* history: real ages of the candidates the gate knows of
  faults         \* faults so far

gate == <<last, times>>
task == <<pc, message, lag>>
vars == <<devices, online, inbox, pc, message, lag, last, times, births, faults>>

-----------------------------------------------------------------------------
(* topic_parser.parse                                                      *)

(* Legacy mapping, then a valid device_id of the payload (#4a), then the   *)
(* normalised name of a valid sensor (#4b).                                *)
ResolveSensor(m) ==
  LET s == m.topic.name
  IN CASE s \in DOMAIN Legacy       -> Legacy[s]
       [] s \notin DOMAIN Legacy /\ m.device_id \in WellFormed -> m.device_id
       [] s \notin DOMAIN Legacy /\ m.device_id \notin WellFormed
            -> IF s \in WellFormed THEN Normalized[s] ELSE None

Identity(m) == IF m.topic.root = "sensor" THEN ResolveSensor(m) ELSE m.topic.name

(* Deny by default.                                                        *)
Admissible(m) ==
  /\ ~m.oversized
  /\ m.topic.root # "other"
  /\ Identity(m) \in WellFormed
  /\ ~m.many_fields

-----------------------------------------------------------------------------
(* AdmissionGate, asked at "now", which is lag ago.                        *)

is_duplicate(topic) == last[topic] < DedupeWindow

(* Faulty: the deque is never trimmed.                                      *)
Fresh_Untrimmed == times

Fresh == Trimmed(times, RateWindow + lag)

(* Faulty: one more than the limit.                                         *)
allow_rate_OffByOne == Len(Fresh) <= RateLimit

allow_rate == Len(Fresh) < RateLimit

(* Faulty: a candidate is counted for its topic only.                       *)
record_candidate_TopicOnly ==
  /\ last' = [last EXCEPT ![message.topic] = Min({lag, DedupeWindow})]
  /\ times' = times

record_candidate ==
  /\ last' = [last EXCEPT ![message.topic] = Min({lag, DedupeWindow})]
  /\ times' = Append(times, lag)

-----------------------------------------------------------------------------
Init ==
  /\ devices = {}
  /\ online = FALSE
  /\ inbox = <<>>
  /\ pc = "idle" /\ message = NoMessage /\ lag = 0
  /\ last = [t \in Topics |-> DedupeWindow]     \* none
  /\ times = <<>>
  /\ births = <<>>
  /\ faults = 0

(* The handling of a message ends.                                         *)
Done == pc' = "idle" /\ message' = NoMessage /\ lag' = 0

(* A published message reaches the client; while the client is not          *)
(* subscribed the broker keeps nothing for it.                              *)
Publish(m) ==
  /\ online
  /\ Len(inbox) < MaxInbox
  /\ inbox' = Append(inbox, m)
  /\ UNCHANGED <<devices, online, task, gate, births, faults>>

(* The next message: refused by the matrix, a duplicate (rule #5, which     *)
(* only touches last_seen_at), or looked up.                                *)
Receive ==
  LET m == Head(inbox)
  IN /\ pc = "idle" /\ online /\ inbox # <<>>
     /\ inbox' = Tail(inbox)
     /\ IF Admissible(m) /\ ~is_duplicate(m.topic)
        THEN pc' = "lookup" /\ message' = m /\ lag' = 0
        ELSE UNCHANGED task
     /\ UNCHANGED <<devices, online, gate, births, faults>>

Existing ==
  /\ pc = "lookup"
  /\ Identity(message) \in devices
  /\ Done
  /\ UNCHANGED <<devices, online, inbox, gate, births, faults>>

(* Rule #6.  Over the limit, the message is dropped.                        *)
Admit ==
  /\ pc = "lookup"
  /\ Identity(message) \notin devices
  /\ times' = Fresh
  /\ IF allow_rate THEN pc' = "create" /\ UNCHANGED <<message, lag>> ELSE Done
  /\ UNCHANGED <<devices, online, inbox, last, births, faults>>

(* Rule #7, under the device lock: looked up again, inserted, and recorded  *)
(* as soon as the transaction has committed.                                *)
CreateCandidate ==
  /\ pc = "create"
  /\ IF Identity(message) \in devices
     THEN Done /\ UNCHANGED <<devices, gate, births>>
     ELSE /\ devices' = devices \cup {Identity(message)}
          /\ record_candidate
          /\ births' = Append(births, 0)
          /\ pc' = "classify" /\ UNCHANGED <<message, lag>>
  /\ UNCHANGED <<online, inbox, faults>>

Classify ==
  /\ pc = "classify"
  /\ Done
  /\ UNCHANGED <<devices, online, inbox, gate, births, faults>>

(* "one bad message must not kill the loop": a transaction fails, possibly  *)
(* after the INSERT has committed, and the gate is not told.                *)
Raise ==
  /\ pc # "idle"
  /\ faults < MaxFaults /\ faults' = faults + 1
  /\ \/ devices' = devices
     \/ pc = "create" /\ devices' = devices \cup {Identity(message)}
  /\ Done
  /\ UNCHANGED <<online, inbox, gate, births>>

-----------------------------------------------------------------------------
(* The connection breaks: what the client holds is lost, the message in     *)
(* work is not.                                                             *)
Disconnect ==
  /\ online
  /\ faults < MaxFaults /\ faults' = faults + 1
  /\ online' = FALSE
  /\ inbox' = <<>>
  /\ UNCHANGED <<devices, task, gate, births>>

(* Again after RECONNECT_DELAY; the gate is that of before.                 *)
Connect ==
  /\ ~online /\ pc = "idle"
  /\ online' = TRUE
  /\ UNCHANGED <<devices, inbox, task, gate, births, faults>>

(* The process is restarted: the gate begins anew.                          *)
Restart ==
  /\ faults < MaxFaults /\ faults' = faults + 1
  /\ online' = FALSE
  /\ inbox' = <<>>
  /\ Done
  /\ last' = [t \in Topics |-> DedupeWindow]
  /\ times' = <<>>
  /\ births' = <<>>
  /\ UNCHANGED devices

(* POST /devices, under the device lock.                                    *)
CreateDevice(d) ==
  /\ d \notin devices
  /\ devices' = devices \cup {d}
  /\ UNCHANGED <<online, inbox, task, gate, births, faults>>

Tick ==
  /\ pc # "idle" => lag < MaxLag
  /\ lag' = IF pc = "idle" THEN 0 ELSE lag + 1
  /\ last' = [t \in Topics |-> Older(last[t], DedupeWindow)]
  /\ times' = Aged(times, Horizon)
  /\ births' = Aged(births, RateWindow)
  /\ UNCHANGED <<devices, online, inbox, pc, message, faults>>

-----------------------------------------------------------------------------
Loop == Receive \/ Existing \/ Admit \/ CreateCandidate \/ Classify \/ Connect

Next ==
  \/ \E m \in Messages : Publish(m)
  \/ Loop \/ Raise
  \/ Disconnect \/ Restart
  \/ \E d \in WellFormed : CreateDevice(d)
  \/ Tick

Spec == Init /\ [][Next]_vars

(* The awaits of the loop return and the client reconnects, time passes,    *)
(* and a source that publishes goes on to publish: among its messages some  *)
(* come while the client can take one.                                      *)
FairSpec ==
  /\ Spec
  /\ WF_vars(Loop)
  /\ WF_vars(Tick)
  /\ \A m \in Messages : SF_vars(Publish(m))

-----------------------------------------------------------------------------
(* Properties.                                                             *)

TypeOK ==
  /\ devices \subseteq WellFormed
  /\ online \in BOOLEAN
  /\ inbox \in Seq(Messages) /\ Len(inbox) <= MaxInbox
  /\ pc \in {"idle", "lookup", "create", "classify"}
  /\ message \in Messages \cup {NoMessage}
  /\ pc # "idle" => message \in Messages /\ Admissible(message)
  /\ lag \in 0..MaxLag
  /\ last \in [Topics -> 0..DedupeWindow]
  /\ times \in Seq(0..Horizon) /\ Len(times) <= RateLimit
  /\ births \in Seq(0..RateWindow)
  /\ faults \in 0..MaxFaults

(* FR-325: candidates are recorded with the time their message was          *)
(* received, not the time they were created, which may be later.  All the   *)
(* same the loop creates at most one more than the limit in any window: of  *)
(* RateLimit + 2 consecutive candidates of one process life that the gate   *)
(* knows of, the first is at least a window older than the last.            *)
BurstBounded ==
  LET n == Len(births)
  IN n > RateLimit + 1 => births[n - RateLimit - 1] >= RateWindow

(* The loop as a whole is a rate limit of one more than RateLimit.          *)
Latest(ages) ==
  LET n == Len(ages)
  IN IF n <= RateLimit + 1 THEN ages ELSE SubSeq(ages, n - RateLimit, n)

Promise == INSTANCE RateBound WITH
  Bound  <- RateLimit + 1,
  Window <- RateWindow,
  ages   <- Latest(births)

PromiseKept == Promise!Spec

(* FR-302: a device that keeps publishing is discovered, although messages  *)
(* are dropped at the rate limit, as duplicates of another device of the    *)
(* same topic, by exceptions, and while the client is disconnected.         *)
EventuallyDiscovered ==
  \A m \in Messages : Admissible(m) => <>(Identity(m) \in devices)
=============================================================================
