--------------------------- MODULE DeviceRegistry ---------------------------
(***************************************************************************)
(* The device registry of device-service: the rows of public.devices with  *)
(* their review digest and human corrections, the OPS endpoints of         *)
(* routes/devices.py, the freeze trigger of migrations 010 and 011, and    *)
(* the classifications in flight (process_message, reclassify_device),     *)
(* which read their context in some transactions and persist in a later    *)
(* one.                                                                    *)
(*                                                                         *)
(* A transaction that takes the advisory lock "device:<id>" is one step.   *)
(* What the budget, the guardrails and the model say is an outcome chosen  *)
(* when it is persisted.  device_type and gateway_id stand for the eight   *)
(* protected columns, which the trigger and PATCH treat alike.             *)
(*                                                                         *)
(* outdated is a history variable: the program does not have it.  A        *)
(* definition marked "Faulty" is no part of the model: it is a plausible   *)
(* bug that the properties are shown to notice.                            *)
(***************************************************************************)
EXTENDS Naturals, FiniteSets, FiniteSetsExt

CONSTANTS
  Devices, Types, Gateways,
  Sampled,        \* gateways table_for_gateway knows
  Prefixes,       \* first two segments of the topics subscribed to
  PrefixGateway,  \* _gateway_for, on a topic with that prefix
  PrefixType,     \* the parser's default device type for that prefix
  Backfilled,     \* devices migration 008 inserted
  Subscriber,     \* the MQTT loop: one message at a time
  Requests,       \* slots for concurrent reruns (ai-feedback, MCP)
  MaxCorrections, \* bound: rows of device_corrections
  MaxRuns,        \* bound: classifications started in a behaviour
  MaxAudit,       \* bound: lifecycle audit rows per device
  Faults          \* subset of {"raise", "crash"}

None == "none"     \* SQL NULL
Workers == {Subscriber} \cup Requests
Ids == 1..MaxCorrections

ASSUME RegistryAssumption ==
  /\ None \notin Types \cup Gateways \cup Prefixes \cup Devices
  /\ Sampled \subseteq Gateways
  /\ PrefixGateway \in [Prefixes -> Gateways \cup {None}]
  /\ PrefixType \in [Prefixes -> Types]
  /\ Backfilled \subseteq Devices
  /\ Subscriber \notin Requests
  /\ MaxCorrections \in Nat /\ MaxRuns \in Nat /\ MaxAudit \in Nat
  /\ Faults \subseteq {"raise", "crash"}

VARIABLES
  devices,        \* row of each device; status "absent" where there is none
  digest,         \* device_review_digests
  corrections,    \* device_corrections, by id
  last_id,        \* the last correction id given out
  lifecycle_audit,\* rows of type freeze_override and demote, per device
  run,            \* the classification each worker is busy with
  started,        \* classifications started so far
  outdated        \* history: what the worker read has been changed since

human == <<corrections, last_id, lifecycle_audit>>
work  == <<run, started, outdated>>
vars  == <<devices, digest, corrections, last_id, lifecycle_audit, run,
           started, outdated>>

Statuses   == {"absent", "candidate", "confirmed", "retired"}

(* classified_by of a row that a human owns.  device_repo.py and the freeze *)
(* trigger each have such a list; they are equal, so one set does for both. *)
FREEZE_SET == {"human", "manual_override", "migration_backfill"}

Row == [status : Statuses, device_type : Types \cup {None},
        classified_by : {"human", "manual_override", "migration_backfill",
                         "ai", None},
        gateway_id : Gateways \cup {None}, source_topic : Prefixes \cup {None}]

Correction == [device : Devices \cup {None}, device_type : Types \cup {None},
               is_active : BOOLEAN, applied_count : Nat]

Digest == [source : {"llm", "system_fallback", None},   \* None: no row
           type : Types \cup {None}]

Run == [pc : {"idle", "retrieve", "latest", "mate", "persist"},
        device : Devices \cup {None}, device_type : Types \cup {None},
        gateway_id : Gateways \cup {None}, source_topic : Prefixes \cup {None},
        kept : SUBSET Ids, latest : Types \cup {None}]

Absent == [status |-> "absent", device_type |-> None, classified_by |-> None,
           gateway_id |-> None, source_topic |-> None]

NoDigest == [source |-> None, type |-> None]

NoCorrection == [device |-> None, device_type |-> None, is_active |-> FALSE,
                 applied_count |-> 0]

Idle == [pc |-> "idle", device |-> None, device_type |-> None,
         gateway_id |-> None, source_topic |-> None, kept |-> {},
         latest |-> None]

-----------------------------------------------------------------------------
Exists(d) == devices[d].status # "absent"

Frozen(row) == row.classified_by \in FREEZE_SET

Protected(row) ==
  <<row.device_type, row.status, row.classified_by, row.gateway_id>>

(* Faulty: the trigger does not look at the status.                         *)
FreezeRaises_TypeOnly(old, new, token) ==
  Frozen(old) /\ new.device_type # old.device_type /\ ~token

(* enforce_freeze_rule: an UPDATE raises, and its transaction rolls back.   *)
FreezeRaises(old, new, token) ==
  Frozen(old) /\ Protected(new) # Protected(old) /\ ~token

(* Faulty: the 404 check is missing.                                        *)
Update_Unchecked(d, new, token) ==
  /\ ~FreezeRaises(devices[d], new, token)
  /\ devices' = [devices EXCEPT ![d] = new]

Update(d, new, token) ==
  /\ Exists(d)
  /\ ~FreezeRaises(devices[d], new, token)
  /\ devices' = [devices EXCEPT ![d] = new]

Audit(d) ==
  /\ lifecycle_audit[d] < MaxAudit
  /\ lifecycle_audit' = [lifecycle_audit EXCEPT ![d] = @ + 1]

(* A change to what the workers in flight at one of labels have read.       *)
Outdate(labels) ==
  outdated' = [w \in Workers |-> outdated[w] \/ run[w].pc \in labels]

Backfill(d) == [Absent EXCEPT !.status = "confirmed",
                              !.classified_by = "migration_backfill"]

Init ==
  /\ \E type \in [Backfilled -> Types], gateway \in [Backfilled -> Gateways] :
       devices = [d \in Devices |->
         IF d \in Backfilled
         THEN [Backfill(d) EXCEPT !.device_type = type[d],
                                  !.gateway_id = gateway[d]]
         ELSE Absent]
  /\ digest = [d \in Devices |-> NoDigest]
  /\ corrections = [k \in Ids |-> NoCorrection]
  /\ last_id = 0
  /\ lifecycle_audit = [d \in Devices |-> 0]
  /\ run = [w \in Workers |-> Idle]
  /\ started = 0
  /\ outdated = [w \in Workers |-> FALSE]

-----------------------------------------------------------------------------
(* OPS endpoints.  A refused request (404, 409) changes nothing.           *)

Create(d, t, g) ==
  /\ ~Exists(d)
  /\ devices' = [devices EXCEPT ![d] =
       [Absent EXCEPT !.status = "candidate", !.device_type = t,
                      !.gateway_id = g]]
  /\ UNCHANGED <<digest, human, work>>

(* PATCH: only the columns given are set, and there is no override token.   *)
Patched(row, t, g) ==
  [row EXCEPT !.device_type = IF t = None THEN @ ELSE t,
              !.gateway_id  = IF g = None THEN @ ELSE g]

Patch(d, t, g) ==
  /\ Update(d, Patched(devices[d], t, g), FALSE)
  /\ Outdate(IF g = None THEN {} ELSE {"retrieve", "latest", "mate", "persist"})
  /\ UNCHANGED <<digest, human, run, started>>

Delete(d) ==
  /\ Update(d, [devices[d] EXCEPT !.status = "retired"], FALSE)
  /\ UNCHANGED <<digest, human, work>>

Confirm(d) ==
  /\ devices[d].status = "candidate"
  /\ Update(d, [devices[d] EXCEPT !.status = "confirmed",
                                  !.classified_by = "human"], FALSE)
  /\ UNCHANGED <<digest, human, work>>

Override(d, t) ==
  /\ Update(d, [devices[d] EXCEPT !.status = "confirmed",
                                  !.classified_by = "manual_override",
                                  !.device_type = t], TRUE)
  /\ Audit(d)
  /\ UNCHANGED <<digest, corrections, last_id, work>>

Reject(d) ==
  /\ Update(d, [devices[d] EXCEPT !.status = "retired"], TRUE)
  /\ Audit(d)
  /\ UNCHANGED <<digest, corrections, last_id, work>>

(* Faulty: the demoted row still belongs to its human owner.                *)
Demoted_KeepsOwner(row) == [row EXCEPT !.status = "candidate"]

Demoted(row) == [row EXCEPT !.status = "candidate", !.classified_by = None]

(* create_feedback below its rate limits, with or without demotion.         *)
Feedback(d, t, demote) ==
  /\ Exists(d)
  /\ demote => devices[d].status = "confirmed"
  /\ last_id < MaxCorrections
  /\ last_id' = last_id + 1
  /\ corrections' = [corrections EXCEPT ![last_id + 1] =
       [device |-> d, device_type |-> t, is_active |-> TRUE,
        applied_count |-> 0]]
  /\ IF demote THEN Update(d, Demoted(devices[d]), TRUE) /\ Audit(d)
               ELSE UNCHANGED <<devices, lifecycle_audit>>
  /\ Outdate({"mate", "persist"})
  /\ UNCHANGED <<digest, run, started>>

Deactivate(k) ==
  /\ corrections[k].is_active
  /\ corrections' = [corrections EXCEPT ![k].is_active = FALSE]
  /\ Outdate({"mate", "persist"})
  /\ UNCHANGED <<devices, digest, last_id, lifecycle_audit, run, started>>

-----------------------------------------------------------------------------
(* One classification.                                                     *)

StartRun(w, d, row) ==
  /\ run[w].pc = "idle"
  /\ started < MaxRuns
  /\ started' = started + 1
  /\ run' = [run EXCEPT ![w] =
       [Idle EXCEPT !.pc = "retrieve", !.device = d,
                    !.device_type = row.device_type,
                    !.gateway_id = row.gateway_id,
                    !.source_topic = row.source_topic]]
  /\ outdated' = [outdated EXCEPT ![w] = FALSE]

(* A first message: the candidate is created under the device lock, and the *)
(* loop goes on to classify it.                                            *)
Discover(d, prefix) ==
  LET row == [Absent EXCEPT !.status = "candidate",
                            !.device_type = PrefixType[prefix],
                            !.gateway_id = PrefixGateway[prefix],
                            !.source_topic = prefix]
  IN /\ ~Exists(d)
     /\ devices' = [devices EXCEPT ![d] = row]
     /\ StartRun(Subscriber, d, row)
     /\ UNCHANGED <<digest, human>>

Reclassify(w, d) ==
  /\ devices[d].status = "candidate"
  /\ devices[d].gateway_id \in Sampled
  /\ StartRun(w, d, devices[d])
  /\ UNCHANGED <<devices, digest, human>>

(* retrieve_relevant: own device, same gateway, same type, same prefix.     *)
Relevant(r) ==
  {k \in Ids :
     LET c == corrections[k] IN
     /\ c.is_active
     /\ \/ c.device = r.device
        \/ r.gateway_id # None /\ devices[c.device].gateway_id = r.gateway_id
        \/ r.device_type # None /\ c.device_type = r.device_type
        \/ r.source_topic # None
             /\ devices[c.device].source_topic = r.source_topic}

(* The 32 KB prompt cap keeps some of them.                                *)
Retrieve(w) ==
  /\ run[w].pc = "retrieve"
  /\ \E kept \in SUBSET Relevant(run[w]) :
       run' = [run EXCEPT ![w].pc = "latest", ![w].kept = kept]
  /\ UNCHANGED <<devices, digest, human, started, outdated>>

(* latest_corrected_device_type: two statements, the device's own latest    *)
(* one and, if there is none, the latest one on its gateway.               *)
Typed == {k \in Ids : corrections[k].is_active /\ corrections[k].device_type # None}

Own(d)  == {k \in Typed : corrections[k].device = d}
Mate(g) == {k \in Typed : g # None /\ devices[corrections[k].device].gateway_id = g}

(* Ids grow with created_at, so ORDER BY created_at DESC, id DESC is Max.   *)
Newest(S) == IF S = {} THEN None ELSE corrections[Max(S)].device_type

(* Faulty: one query for the device and its gateway.                        *)
ReadOwn_OneQuery(w) ==
  /\ run[w].pc = "latest"
  /\ run' = [run EXCEPT ![w].pc = "persist",
       ![w].latest = Newest(Own(run[w].device) \cup Mate(run[w].gateway_id))]
  /\ UNCHANGED <<devices, digest, human, started, outdated>>

ReadOwn(w) ==
  LET val == Newest(Own(run[w].device))
  IN /\ run[w].pc = "latest"
     /\ run' = [run EXCEPT ![w].latest = val,
          ![w].pc = IF val # None \/ run[w].gateway_id = None
                    THEN "persist" ELSE "mate"]
     /\ UNCHANGED <<devices, digest, human, started, outdated>>

ReadMate(w) ==
  /\ run[w].pc = "mate"
  /\ run' = [run EXCEPT ![w].pc = "persist",
                         ![w].latest = Newest(Mate(run[w].gateway_id))]
  /\ UNCHANGED <<devices, digest, human, started, outdated>>

(* What Classifier.classify may return: the fallback never confirms, and a *)
(* type in conflict with the latest correction stays a candidate.          *)
Conflict(r, t) == r.latest # None /\ t # r.latest

Outcomes(r) ==
  {[source |-> "system_fallback", type |-> r.device_type, status |-> "candidate"]}
  \cup {[source |-> "llm", type |-> t, status |-> "candidate"] : t \in Types}
  \cup {[source |-> "llm", type |-> t, status |-> "confirmed"] :
          t \in {u \in Types : ~Conflict(r, u)}}

(* Faulty: only the owner is checked, not the status.                       *)
Applies_OwnerOnly(d) == ~Frozen(devices[d])

(* apply_outcome looks again, under the lock, before it writes.            *)
Applies(d) == devices[d].status = "candidate" /\ ~Frozen(devices[d])

(* Faulty: the digest is written whether or not the row is.                 *)
ApplyOutcome_DigestAnyway(d, o) ==
  /\ digest' = [digest EXCEPT ![d] = [source |-> o.source, type |-> o.type]]
  /\ IF Applies(d)
     THEN Update(d, [devices[d] EXCEPT !.status = o.status,
                                       !.device_type = o.type,
                                       !.classified_by = "ai"], FALSE)
     ELSE UNCHANGED devices

(* Faulty: a fallback leaves no digest.                                     *)
ApplyOutcome_NoFallbackDigest(d, o) ==
  IF Applies(d) /\ o.source = "llm"
  THEN /\ Update(d, [devices[d] EXCEPT !.status = o.status,
                                       !.device_type = o.type,
                                       !.classified_by = "ai"], FALSE)
       /\ digest' = [digest EXCEPT ![d] = [source |-> o.source, type |-> o.type]]
  ELSE UNCHANGED <<devices, digest>>

ApplyOutcome(d, o) ==
  IF Applies(d)
  THEN /\ Update(d, [devices[d] EXCEPT !.status = o.status,
                                       !.device_type = o.type,
                                       !.classified_by = "ai"], FALSE)
       /\ digest' = [digest EXCEPT ![d] = [source |-> o.source, type |-> o.type]]
  ELSE UNCHANGED <<devices, digest>>

(* mark_applied, whether or not the outcome was applied.                    *)
MarkApplied(ids) ==
  corrections' = [k \in Ids |->
    IF k \in ids THEN [corrections[k] EXCEPT !.applied_count = @ + 1]
                 ELSE corrections[k]]

EndRun(w) ==
  /\ run' = [run EXCEPT ![w] = Idle]
  /\ outdated' = [outdated EXCEPT ![w] = FALSE]
  /\ UNCHANGED started

Persist(w) ==
  /\ run[w].pc = "persist"
  /\ \E o \in Outcomes(run[w]) :
       /\ ApplyOutcome(run[w].device, o)
       /\ MarkApplied(IF o.source = "llm" THEN run[w].kept ELSE {})
  /\ EndRun(w)
  /\ UNCHANGED <<last_id, lifecycle_audit>>

(* An exception: logged by the MQTT loop, or the request fails.            *)
Raise(w) ==
  /\ "raise" \in Faults
  /\ run[w].pc # "idle"
  /\ EndRun(w)
  /\ UNCHANGED <<devices, digest, human>>

(* device-service or the MCP server dies with its classifications.         *)
Crash ==
  /\ "crash" \in Faults
  /\ \E S \in SUBSET Workers :
       /\ \E w \in S : run[w].pc # "idle"
       /\ run' = [w \in Workers |-> IF w \in S THEN Idle ELSE run[w]]
       /\ outdated' = [w \in Workers |-> outdated[w] /\ w \notin S]
  /\ UNCHANGED <<devices, digest, human, started>>

-----------------------------------------------------------------------------
Ops ==
  \/ \E d \in Devices :
       \/ Delete(d) \/ Confirm(d) \/ Reject(d)
       \/ \E t \in Types : Override(d, t)
       \/ \E t \in Types \cup {None}, demote \in BOOLEAN : Feedback(d, t, demote)
       \/ \E t \in Types \cup {None}, g \in Gateways \cup {None} :
            Create(d, t, g) \/ Patch(d, t, g)
  \/ \E k \in Ids : Deactivate(k)

Begin ==
  \E d \in Devices :
    \/ \E prefix \in Prefixes : Discover(d, prefix)
    \/ \E w \in Requests : Reclassify(w, d)

Work(w) == Retrieve(w) \/ ReadOwn(w) \/ ReadMate(w) \/ Persist(w)

Next ==
  \/ Ops
  \/ Begin
  \/ \E w \in Workers : Work(w) \/ Raise(w)
  \/ Crash

Spec == Init /\ [][Next]_vars

(* The awaits of a classification return: the SDK, the pool and the        *)
(* database time out, and the event loop is fair.                          *)
FairSpec == Spec /\ \A w \in Workers : WF_vars(Work(w))

-----------------------------------------------------------------------------
(* Properties.                                                             *)

TypeOK ==
  /\ devices \in [Devices -> Row]
  /\ digest \in [Devices -> Digest]
  /\ corrections \in [Ids -> Correction]
  /\ last_id \in 0..MaxCorrections
  /\ lifecycle_audit \in [Devices -> Nat]
  /\ run \in [Workers -> Run]
  /\ started \in 0..MaxRuns
  /\ outdated \in [Workers -> BOOLEAN]
  /\ \A d \in Devices : ~Exists(d) => devices[d] = Absent
  /\ \A k \in Ids : corrections[k].device = None <=> k > last_id

(* FR-335 names the owners whose decisions are protected.                  *)
HumanOwned(row) ==
  row.classified_by \in {"human", "manual_override", "migration_backfill"}

(* "candidate is not frozen -> no override needed": every way back to      *)
(* candidate clears classified_by, so Confirm and the AI never meet the    *)
(* trigger on one.                                                         *)
CandidateNotFrozen ==
  \A d \in Devices : devices[d].status = "candidate" => ~HumanOwned(devices[d])

(* FR-303, FR-317: a row classified by the AI has its digest, and one it   *)
(* confirmed is backed by the digest of a model's answer, never by a       *)
(* fallback, whatever runs finish later.                                   *)
ReviewMatchesVerdict ==
  \A d \in Devices :
    devices[d].classified_by = "ai" =>
      /\ digest[d].source # None
      /\ devices[d].status = "confirmed" => digest[d].source = "llm"

(* FR-335: a protected column of a human-owned row changes only together   *)
(* with an audit row, so neither the AI nor PATCH or DELETE changes one.   *)
HumanOwnedAudited ==
  [][\A d \in Devices :
       HumanOwned(devices[d]) /\ Protected(devices'[d]) # Protected(devices[d])
         => lifecycle_audit'[d] > lifecycle_audit[d]]_vars

(* A retired device is re-opened by an audited manual override only: not   *)
(* by a message, a rerun, a late outcome, a confirm or a demotion.         *)
RetiredReopenedByOverride ==
  [][\A d \in Devices :
       devices[d].status = "retired" /\ devices'[d].status # "retired"
         => /\ devices'[d].status = "confirmed"
            /\ devices'[d].classified_by = "manual_override"
            /\ lifecycle_audit'[d] > lifecycle_audit[d]]_vars

(* No active correction contradicts type t for device d: the newest own    *)
(* one agrees, or there is none and the newest of its gateway agrees.      *)
Agrees(d, t) ==
  LET Contradicts(S) ==
        \E k \in S : corrections[k].device_type # t /\ \A j \in S : j <= k
  IN /\ ~Contradicts(Own(d))
     /\ Own(d) = {} => ~Contradicts(Mate(devices[d].gateway_id))

AutoConfirms(w) ==
  /\ run[w].pc = "persist" /\ run'[w].pc = "idle"
  /\ devices[run[w].device].status = "candidate"
  /\ devices'[run[w].device].status = "confirmed"

(* FR-332: a classification whose context is still current confirms no     *)
(* type that contradicts the newest active correction.                     *)
AutoConfirmHeedsCorrections ==
  [][\A w \in Workers :
       AutoConfirms(w) /\ ~outdated[w] =>
         Agrees(run[w].device, devices'[run[w].device].device_type)]_vars

(* FR-332, ADR-015: no classification does, however long ago it read.      *)
AutoConfirmNeverContradicts ==
  [][\A w \in Workers :
       AutoConfirms(w) =>
         Agrees(run[w].device, devices'[run[w].device].device_type)]_vars

(* FR-302, FR-317: a device the MQTT loop discovered gets its digest,      *)
(* unless OPS decides about it first.                                      *)
DiscoveredIsReviewed ==
  \A d \in Devices :
    run[Subscriber].device = d ~>
      (digest[d].source # None \/ devices[d].status # "candidate")
=============================================================================
