------------------------ MODULE DeviceRegistryProofs ------------------------
(***************************************************************************)
(* What DeviceRegistry guarantees for every set of devices, types,         *)
(* gateways and workers, and under both faults.                            *)
(***************************************************************************)
EXTENDS DeviceRegistry, FiniteSetTheorems, WellFoundedInduction, TLAPS

(* A non-empty set of correction ids has a largest element.                *)
LEMMA MaxOfIds ==
  ASSUME NEW S \in SUBSET Ids, S # {}
  PROVE  Max(S) \in S /\ \A j \in S : j <= Max(S)
<1> DEFINE R == StrictSubsetOrdering(Ids)
<1> DEFINE T == {k..MaxCorrections : k \in S}
<1>1. MaxCorrections \in Nat /\ \A k \in S : k \in Nat
  BY RegistryAssumption DEF Ids
<1>2. T \subseteq FiniteSubsetsOf(Ids) /\ T # {}
  <2>1. IsFiniteSet(Ids) BY <1>1, FS_Interval DEF Ids
  <2>2. FiniteSubsetsOf(Ids) = SUBSET Ids BY <2>1, FS_FiniteSubsetsOfFinite
  <2>3. \A k \in S : k..MaxCorrections \subseteq Ids BY <1>1 DEF Ids
  <2>4. \A I \in T : I \subseteq Ids BY <2>3
  <2>5. T # {}
    <3>1. PICK k \in S : TRUE OBVIOUS
    <3>2. k..MaxCorrections \in T BY <3>1
    <3> QED BY <3>2
  <2> QED BY <2>2, <2>4, <2>5
<1>3. IsWellFoundedOn(R, FiniteSubsetsOf(Ids))
  BY FS_StrictSubsetOrderingWellFounded
<1> HIDE DEF R
<1>4. PICK I \in T : \A J \in T : ~(<<J, I>> \in R)
  BY <1>2, <1>3, WFMin
<1>5. PICK k \in S : I = k..MaxCorrections BY <1>4
<1>6. \A j \in S : j <= k
  <2> SUFFICES ASSUME NEW j \in S, ~(j <= k) PROVE FALSE OBVIOUS
  <2>1. k < j /\ k \in Nat /\ j \in Nat BY <1>1
  <2>2. k \in k..MaxCorrections /\ k \notin j..MaxCorrections
    BY <2>1, <1>1 DEF Ids
  <2>3. j..MaxCorrections \subseteq k..MaxCorrections BY <2>1, <1>1
  <2>4. /\ j..MaxCorrections \in SUBSET Ids
        /\ k..MaxCorrections \in SUBSET Ids BY <2>1, <1>1 DEF Ids
  <2>5. <<j..MaxCorrections, k..MaxCorrections>> \in R
    BY <2>2, <2>3, <2>4 DEF R, StrictSubsetOrdering
  <2> QED BY <2>5, <1>4, <1>5
<1>7. \A j \in S : k >= j BY <1>6, <1>1
<1>8. \E x \in S : \A y \in S : x >= y BY <1>7
<1>9. Max(S) \in S /\ \A y \in S : Max(S) >= y BY <1>8 DEF Max
<1> QED BY <1>9, <1>1

LEMMA NewestType ==
  ASSUME TypeOK, NEW S \in SUBSET Ids
  PROVE  Newest(S) \in Types \cup {None}
<1>1. CASE S = {} BY <1>1 DEF Newest
<1>2. CASE S # {}
  <2>1. Max(S) \in Ids BY <1>2, MaxOfIds
  <2> QED BY <1>2, <2>1 DEF Newest, TypeOK, Correction
<1> QED BY <1>1, <1>2

-----------------------------------------------------------------------------
(* Type correctness.                                                       *)

LEMMA TypeInit == Init => TypeOK
<1> SUFFICES ASSUME Init PROVE TypeOK OBVIOUS
<1>1. PICK type \in [Backfilled -> Types], gateway \in [Backfilled -> Gateways] :
        devices = [d \in Devices |->
          IF d \in Backfilled
          THEN [Backfill(d) EXCEPT !.device_type = type[d],
                                   !.gateway_id = gateway[d]]
          ELSE Absent]
  BY DEF Init
<1>2. /\ devices \in [Devices -> Row]
      /\ \A d \in Devices : ~Exists(d) => devices[d] = Absent
  BY <1>1 DEF Row, Backfill, Absent, Exists, Statuses
<1>3. corrections \in [Ids -> Correction]
  BY DEF Init, Correction, NoCorrection
<1>4. run \in [Workers -> Run] BY DEF Init, Run, Idle
<1>5. digest \in [Devices -> Digest] BY DEF Init, Digest, NoDigest
<1>6. \A k \in Ids : corrections[k].device = None <=> k > last_id
  <2> SUFFICES ASSUME NEW k \in Ids
               PROVE  corrections[k].device = None <=> k > last_id
    OBVIOUS
  <2>1. k \in Nat /\ k > 0 BY RegistryAssumption DEF Ids
  <2>2. corrections[k] = NoCorrection /\ last_id = 0 BY DEF Init
  <2> QED BY <2>1, <2>2 DEF NoCorrection
<1>7. last_id \in 0..MaxCorrections /\ started \in 0..MaxRuns
  <2>1. MaxCorrections \in Nat /\ MaxRuns \in Nat BY RegistryAssumption
  <2>2. last_id = 0 /\ started = 0 BY DEF Init
  <2> QED BY <2>1, <2>2
<1>8. /\ lifecycle_audit \in [Devices -> Nat]
      /\ outdated \in [Workers -> BOOLEAN] BY DEF Init
<1> QED BY <1>2, <1>3, <1>4, <1>5, <1>6, <1>7, <1>8 DEF TypeOK

(* What TypeOK says of the devices survives an update of one row.          *)
RowsOK ==
  /\ devices \in [Devices -> Row]
  /\ \A d \in Devices : ~Exists(d) => devices[d] = Absent

LEMMA PutRow ==
  ASSUME TypeOK, NEW d \in Devices, NEW new \in Row, new.status # "absent",
         devices' = [devices EXCEPT ![d] = new]
  PROVE  RowsOK'
BY DEF TypeOK, RowsOK, Exists

LEMMA OutdateType ==
  ASSUME NEW labels, Outdate(labels)
  PROVE  outdated' \in [Workers -> BOOLEAN]
BY DEF Outdate

LEMMA AuditType ==
  ASSUME TypeOK, NEW d \in Devices, Audit(d)
  PROVE  lifecycle_audit' \in [Devices -> Nat]
BY DEF TypeOK, Audit

LEMMA EndRunType ==
  ASSUME TypeOK, NEW w \in Workers, EndRun(w)
  PROVE  /\ run' \in [Workers -> Run]
         /\ outdated' \in [Workers -> BOOLEAN]
         /\ started' \in 0..MaxRuns
BY DEF TypeOK, EndRun, Idle, Run

LEMMA StartRunType ==
  ASSUME TypeOK, NEW w \in Workers, NEW d \in Devices, NEW row \in Row,
         StartRun(w, d, row)
  PROVE  /\ run' \in [Workers -> Run]
         /\ outdated' \in [Workers -> BOOLEAN]
         /\ started' \in 0..MaxRuns
<1>1. [Idle EXCEPT !.pc = "retrieve", !.device = d,
                   !.device_type = row.device_type,
                   !.gateway_id = row.gateway_id,
                   !.source_topic = row.source_topic] \in Run
  BY DEF Idle, Run, Row
<1> QED BY <1>1, RegistryAssumption DEF StartRun, TypeOK

(* The OPS endpoints.                                                      *)
LEMMA TypeOps ==
  ASSUME TypeOK, Ops
  PROVE  TypeOK'
<1> USE DEF human, work
<1>1. ASSUME NEW d \in Devices, Delete(d) \/ Confirm(d) PROVE TypeOK'
  <2>1. devices[d] \in Row /\ Exists(d) BY <1>1 DEF TypeOK, Delete, Confirm, Update
  <2>2. RowsOK'
    <3>1. CASE Delete(d)
      BY <2>1, <3>1, PutRow DEF Delete, Update, Row, Statuses
    <3>2. CASE Confirm(d)
      BY <2>1, <3>2, PutRow DEF Confirm, Update, Row, Statuses
    <3> QED BY <1>1, <3>1, <3>2
  <2> QED BY <1>1, <2>2 DEF Delete, Confirm, TypeOK, RowsOK
<1>2. ASSUME NEW d \in Devices, Reject(d) PROVE TypeOK'
  <2>1. devices[d] \in Row BY DEF TypeOK
  <2>2. RowsOK' BY <1>2, <2>1, PutRow DEF Reject, Update, Row, Statuses
  <2>3. lifecycle_audit' \in [Devices -> Nat] BY <1>2, AuditType DEF Reject
  <2> QED BY <1>2, <2>2, <2>3 DEF Reject, TypeOK, RowsOK
<1>3. ASSUME NEW d \in Devices, NEW t \in Types, Override(d, t) PROVE TypeOK'
  <2>1. devices[d] \in Row BY DEF TypeOK
  <2>2. RowsOK' BY <1>3, <2>1, PutRow DEF Override, Update, Row, Statuses
  <2>3. lifecycle_audit' \in [Devices -> Nat] BY <1>3, AuditType DEF Override
  <2> QED BY <1>3, <2>2, <2>3 DEF Override, TypeOK, RowsOK
<1>4. ASSUME NEW d \in Devices, NEW t \in Types \cup {None},
             NEW demote \in BOOLEAN, Feedback(d, t, demote)
      PROVE TypeOK'
  <2>1. devices[d] \in Row BY DEF TypeOK
  <2>2. RowsOK' /\ lifecycle_audit' \in [Devices -> Nat]
    <3>1. CASE demote
      <4>1. Update(d, Demoted(devices[d]), TRUE) /\ Audit(d)
        BY <1>4, <3>1 DEF Feedback
      <4> QED BY <2>1, <4>1, PutRow, AuditType DEF Update, Demoted, Row, Statuses
    <3>2. CASE ~demote
      BY <1>4, <3>2 DEF Feedback, TypeOK, RowsOK, Exists
    <3> QED BY <3>1, <3>2
  <2>3. last_id \in Nat /\ last_id + 1 \in Ids /\ last_id' = last_id + 1
    BY <1>4, RegistryAssumption DEF Feedback, TypeOK, Ids
  <2>4. /\ corrections' \in [Ids -> Correction]
        /\ \A k \in Ids : corrections'[k].device = None <=> k > last_id + 1
    <3> DEFINE new == [device |-> d, device_type |-> t, is_active |-> TRUE,
                       applied_count |-> 0]
    <3>1. new \in Correction /\ new.device # None
      BY RegistryAssumption DEF Correction
    <3>2. corrections' = [corrections EXCEPT ![last_id + 1] = new]
      BY <1>4 DEF Feedback
    <3> HIDE DEF new
    <3>3. corrections' \in [Ids -> Correction] BY <3>1, <3>2 DEF TypeOK
    <3>4. ASSUME NEW k \in Ids
          PROVE  corrections'[k].device = None <=> k > last_id + 1
      <4>1. k \in Nat BY RegistryAssumption DEF Ids
      <4>2. CASE k = last_id + 1
        BY <2>3, <3>1, <3>2, <4>1, <4>2 DEF TypeOK
      <4>3. CASE k # last_id + 1
        BY <2>3, <3>2, <4>1, <4>3 DEF TypeOK
      <4> QED BY <4>2, <4>3
    <3> QED BY <3>3, <3>4
  <2>5. outdated' \in [Workers -> BOOLEAN]
    BY <1>4, OutdateType DEF Feedback
  <2>6. last_id' \in 0..MaxCorrections BY <2>3, RegistryAssumption DEF Ids
  <2> QED BY <1>4, <2>2, <2>3, <2>4, <2>5, <2>6 DEF Feedback, TypeOK, RowsOK
<1>5. ASSUME NEW d \in Devices, NEW t \in Types \cup {None},
             NEW g \in Gateways \cup {None}, Create(d, t, g)
      PROVE TypeOK'
  <2>1. RowsOK'
    BY <1>5, PutRow DEF Create, Absent, Row, Statuses
  <2> QED BY <1>5, <2>1 DEF Create, TypeOK, RowsOK
<1>6. ASSUME NEW d \in Devices, NEW t \in Types \cup {None},
             NEW g \in Gateways \cup {None}, Patch(d, t, g)
      PROVE TypeOK'
  <2>1. devices[d] \in Row BY DEF TypeOK
  <2>2. /\ Patched(devices[d], t, g) \in Row
        /\ Patched(devices[d], t, g).status = devices[d].status
    BY <2>1 DEF Patched, Row
  <2>3. RowsOK' BY <1>6, <2>2, PutRow DEF Patch, Update, Exists
  <2>4. outdated' \in [Workers -> BOOLEAN] BY <1>6, OutdateType DEF Patch
  <2> QED BY <1>6, <2>3, <2>4 DEF Patch, TypeOK, RowsOK
<1>7. ASSUME NEW k \in Ids, Deactivate(k) PROVE TypeOK'
  <2>1. /\ corrections' \in [Ids -> Correction]
        /\ \A j \in Ids : corrections'[j].device = corrections[j].device
    BY <1>7 DEF Deactivate, TypeOK, Correction
  <2>2. outdated' \in [Workers -> BOOLEAN] BY <1>7, OutdateType DEF Deactivate
  <2> QED BY <1>7, <2>1, <2>2 DEF Deactivate, TypeOK, Exists
<1> QED BY <1>1, <1>2, <1>3, <1>4, <1>5, <1>6, <1>7 DEF Ops

(* One classification.                                                     *)
LEMMA TypeBegin ==
  ASSUME TypeOK, Begin
  PROVE  TypeOK'
<1> USE DEF human
<1>1. ASSUME NEW d \in Devices, NEW prefix \in Prefixes, Discover(d, prefix)
      PROVE TypeOK'
  <2> DEFINE row == [Absent EXCEPT !.status = "candidate",
                                   !.device_type = PrefixType[prefix],
                                   !.gateway_id = PrefixGateway[prefix],
                                   !.source_topic = prefix]
  <2>1. row \in Row /\ row.status = "candidate"
    BY RegistryAssumption DEF Absent, Row, Statuses
  <2>2. /\ devices' = [devices EXCEPT ![d] = row]
        /\ StartRun(Subscriber, d, row)
        /\ UNCHANGED <<digest, human>>
    BY <1>1 DEF Discover
  <2> HIDE DEF row
  <2>3. RowsOK' BY <2>1, <2>2, PutRow
  <2>4. /\ run' \in [Workers -> Run]
        /\ outdated' \in [Workers -> BOOLEAN]
        /\ started' \in 0..MaxRuns
    BY <2>1, <2>2, StartRunType DEF Workers
  <2> QED BY <2>2, <2>3, <2>4 DEF TypeOK, RowsOK
<1>2. ASSUME NEW d \in Devices, NEW w \in Requests, Reclassify(w, d)
      PROVE TypeOK'
  <2>1. devices[d] \in Row BY DEF TypeOK
  <2>2. /\ run' \in [Workers -> Run]
        /\ outdated' \in [Workers -> BOOLEAN]
        /\ started' \in 0..MaxRuns
    BY <1>2, <2>1, StartRunType DEF Workers, Reclassify
  <2> QED BY <1>2, <2>2 DEF Reclassify, TypeOK, Exists
<1> QED BY <1>1, <1>2 DEF Begin

LEMMA OutcomeType ==
  ASSUME NEW r \in Run, NEW o \in Outcomes(r)
  PROVE  /\ o.status \in {"candidate", "confirmed"}
         /\ o.type \in Types \cup {None}
         /\ o.source \in {"llm", "system_fallback"}
         /\ o.status = "confirmed" => o.source = "llm"
BY DEF Outcomes, Run

LEMMA TypeWork ==
  ASSUME TypeOK, NEW w \in Workers, Work(w)
  PROVE  TypeOK'
<1> USE DEF human
<1>a. run[w] \in Run BY DEF TypeOK
<1>1. ASSUME Retrieve(w) PROVE TypeOK'
  <2>1. PICK kept \in SUBSET Relevant(run[w]) :
          run' = [run EXCEPT ![w].pc = "latest", ![w].kept = kept]
    BY <1>1 DEF Retrieve
  <2>2. kept \in SUBSET Ids BY DEF Relevant
  <2> DEFINE new == [run[w] EXCEPT !.pc = "latest", !.kept = kept]
  <2>a. new \in Run BY <1>a, <2>2 DEF Run
  <2>b. run' = [run EXCEPT ![w] = new] BY <2>1 DEF TypeOK
  <2> HIDE DEF new
  <2>3. run' \in [Workers -> Run] BY <2>a, <2>b DEF TypeOK
  <2> QED BY <1>1, <2>3 DEF Retrieve, TypeOK, Exists
<1>2. ASSUME ReadOwn(w) PROVE TypeOK'
  <2> DEFINE val == Newest(Own(run[w].device))
  <2> DEFINE pc == IF val # None \/ run[w].gateway_id = None
                   THEN "persist" ELSE "mate"
  <2>1. val \in Types \cup {None} /\ pc \in {"mate", "persist"}
    BY NewestType DEF Own, Typed
  <2> DEFINE new == [run[w] EXCEPT !.latest = val, !.pc = pc]
  <2>a. run' = [run EXCEPT ![w] = new] BY <1>2 DEF ReadOwn, TypeOK
  <2> HIDE DEF val, pc
  <2>b. new \in Run BY <1>a, <2>1 DEF Run
  <2> HIDE DEF new
  <2>2. run' \in [Workers -> Run] BY <2>a, <2>b DEF TypeOK
  <2> QED BY <1>2, <2>2 DEF ReadOwn, TypeOK, Exists
<1>3. ASSUME ReadMate(w) PROVE TypeOK'
  <2> DEFINE val == Newest(Mate(run[w].gateway_id))
  <2>1. val \in Types \cup {None} BY NewestType DEF Mate, Typed
  <2> DEFINE new == [run[w] EXCEPT !.pc = "persist", !.latest = val]
  <2>a. run' = [run EXCEPT ![w] = new] BY <1>3 DEF ReadMate, TypeOK
  <2> HIDE DEF val
  <2>b. new \in Run BY <1>a, <2>1 DEF Run
  <2> HIDE DEF new
  <2>2. run' \in [Workers -> Run] BY <2>a, <2>b DEF TypeOK
  <2> QED BY <1>3, <2>2 DEF ReadMate, TypeOK, Exists
<1>4. ASSUME Persist(w) PROVE TypeOK'
  <2>1. PICK o \in Outcomes(run[w]) :
          /\ ApplyOutcome(run[w].device, o)
          /\ MarkApplied(IF o.source = "llm" THEN run[w].kept ELSE {})
    BY <1>4 DEF Persist
  <2> DEFINE ids == IF o.source = "llm" THEN run[w].kept ELSE {}
  <2>2. EndRun(w) /\ UNCHANGED <<last_id, lifecycle_audit>> BY <1>4 DEF Persist
  <2>3. RowsOK' /\ digest' \in [Devices -> Digest]
    <3>1. CASE Applies(run[w].device)
      <4> DEFINE d == run[w].device
      <4> DEFINE new == [devices[d] EXCEPT !.status = o.status,
                                           !.device_type = o.type,
                                           !.classified_by = "ai"]
      <4>1. /\ devices' = [devices EXCEPT ![d] = new] /\ Exists(d)
            /\ digest' = [digest EXCEPT ![d] = [source |-> o.source,
                                                type |-> o.type]]
        BY <2>1, <3>1 DEF ApplyOutcome, Update
      <4>2. d \in Devices \/ d = None BY <1>a DEF Run
      <4>3. CASE d \in Devices
        <5>1. devices[d] \in Row BY <4>3 DEF TypeOK
        <5>2. new \in Row /\ new.status # "absent"
          BY <5>1, <1>a, OutcomeType DEF Row, Statuses
        <5>3. [source |-> o.source, type |-> o.type] \in Digest
          BY <1>a, OutcomeType DEF Digest
        <5> HIDE DEF new, d
        <5> QED BY <4>1, <4>3, <5>2, <5>3, PutRow DEF TypeOK
      <4>4. CASE d \notin Devices
        <5> HIDE DEF new, d
        <5>1. devices' = devices /\ digest' = digest
          BY <4>1, <4>4 DEF TypeOK
        <5> QED BY <5>1 DEF TypeOK, RowsOK, Exists
      <4> QED BY <4>3, <4>4
    <3>2. CASE ~Applies(run[w].device)
      BY <2>1, <3>2 DEF ApplyOutcome, TypeOK, RowsOK, Exists
    <3> QED BY <3>1, <3>2
  <2>4. /\ corrections' \in [Ids -> Correction]
        /\ \A k \in Ids : corrections'[k].device = corrections[k].device
    <3> HIDE DEF ids
    <3>1. corrections' = [k \in Ids |->
            IF k \in ids THEN [corrections[k] EXCEPT !.applied_count = @ + 1]
                         ELSE corrections[k]]
      BY <2>1 DEF MarkApplied, ids
    <3>2. \A k \in Ids : corrections[k] \in Correction BY DEF TypeOK
    <3> QED BY <3>1, <3>2 DEF Correction
  <2>5. /\ run' \in [Workers -> Run]
        /\ outdated' \in [Workers -> BOOLEAN]
        /\ started' \in 0..MaxRuns
    BY <2>2, EndRunType
  <2> QED BY <2>2, <2>3, <2>4, <2>5 DEF TypeOK, RowsOK
<1> QED BY <1>1, <1>2, <1>3, <1>4 DEF Work

LEMMA TypeNext ==
  ASSUME TypeOK, [Next]_vars
  PROVE  TypeOK'
<1>1. CASE Ops BY <1>1, TypeOps
<1>2. CASE Begin BY <1>2, TypeBegin
<1>3. ASSUME NEW w \in Workers, Work(w) PROVE TypeOK' BY <1>3, TypeWork
<1>4. ASSUME NEW w \in Workers, Raise(w) PROVE TypeOK'
  BY <1>4, EndRunType DEF Raise, TypeOK, human, Exists
<1>5. CASE Crash
  <2>1. Idle \in Run BY DEF Idle, Run
  <2>a. PICK S \in SUBSET Workers :
          /\ run' = [w \in Workers |-> IF w \in S THEN Idle ELSE run[w]]
          /\ outdated' = [w \in Workers |-> outdated[w] /\ w \notin S]
    BY <1>5 DEF Crash
  <2>b. run' \in [Workers -> Run] BY <2>1, <2>a DEF TypeOK
  <2>c. outdated' \in [Workers -> BOOLEAN] BY <2>a
  <2>2. run' \in [Workers -> Run] /\ outdated' \in [Workers -> BOOLEAN]
    BY <2>b, <2>c
  <2> QED BY <1>5, <2>2 DEF Crash, TypeOK, human, Exists
<1>6. CASE UNCHANGED vars BY <1>6 DEF vars, TypeOK, Exists
<1> QED BY <1>1, <1>2, <1>3, <1>4, <1>5, <1>6 DEF Next

(* Every reachable state is well typed; a device without a row has none of *)
(* its columns set, and correction ids are given out in order.             *)
THEOREM TypeCorrect == Spec => []TypeOK
<1>1. TypeOK /\ [Next]_vars => TypeOK' BY TypeNext
<1> QED BY <1>1, TypeInit, PTL DEF Spec

-----------------------------------------------------------------------------
(* What one step may do to one row of devices.                             *)

Audited(d)  == lifecycle_audit'[d] > lifecycle_audit[d]
Untouched(d) == devices'[d] = devices[d] /\ digest'[d] = digest[d]

Allowed(d) == ~FreezeRaises(devices[d], devices'[d], FALSE)

Opened(d) ==
  /\ devices[d] = Absent
  /\ devices'[d].status = "candidate" /\ devices'[d].classified_by = None

Edited(d) ==
  /\ devices'[d].status = devices[d].status
  /\ devices'[d].classified_by = devices[d].classified_by
  /\ Allowed(d) /\ digest'[d] = digest[d]

Retired(d) ==
  /\ devices'[d].status = "retired"
  /\ devices'[d].classified_by = devices[d].classified_by
  /\ Allowed(d) \/ Audited(d)
  /\ digest'[d] = digest[d]

Confirmed(d) ==
  /\ devices[d].status = "candidate" /\ devices'[d].status = "confirmed"
  /\ devices'[d].classified_by = "human"
  /\ Allowed(d)

Overridden(d) ==
  /\ devices'[d].status = "confirmed"
  /\ devices'[d].classified_by = "manual_override"
  /\ Audited(d)

Reopened(d) ==
  /\ devices[d].status = "confirmed" /\ devices'[d].status = "candidate"
  /\ devices'[d].classified_by = None
  /\ Audited(d)

Classified(d) ==
  /\ devices[d].status = "candidate"
  /\ devices'[d].classified_by = "ai"
  /\ devices'[d].status \in {"candidate", "confirmed"}
  /\ Allowed(d)
  /\ digest'[d].source # None
  /\ devices'[d].status = "confirmed" => digest'[d].source = "llm"

RowStep(d) ==
  \/ Untouched(d) \/ Opened(d) \/ Edited(d) \/ Retired(d) \/ Confirmed(d)
  \/ Overridden(d) \/ Reopened(d) \/ Classified(d)

LEMMA AuditCounts ==
  ASSUME TypeOK, NEW d \in Devices, Audit(d)
  PROVE  Audited(d)
BY DEF TypeOK, Audit, Audited

LEMMA OpsRowStep ==
  ASSUME TypeOK, Ops, NEW e \in Devices
  PROVE  RowStep(e)
<1>1. digest' = digest
  BY DEF Ops, Delete, Confirm, Reject, Override, Feedback, Create, Patch,
         Deactivate
<1>2. ASSUME NEW d \in Devices, NEW new, devices' = [devices EXCEPT ![d] = new],
             d # e
      PROVE  RowStep(e)
  BY <1>1, <1>2 DEF TypeOK, RowStep, Untouched
<1>a. ASSUME NEW new, devices' = [devices EXCEPT ![e] = new]
      PROVE  devices'[e] = new
  BY <1>a DEF TypeOK
<1>3. ASSUME NEW d \in Devices, Delete(d) PROVE RowStep(e)
  <2>1. CASE d = e
    BY <2>1, <1>1, <1>3 DEF Delete, Update, TypeOK, Row, RowStep, Retired, Allowed
  <2> QED BY <2>1, <1>2, <1>3 DEF Delete, Update
<1>4. ASSUME NEW d \in Devices, Confirm(d) PROVE RowStep(e)
  <2>1. CASE d = e
    BY <2>1, <1>4 DEF Confirm, Update, TypeOK, Row, RowStep, Confirmed, Allowed
  <2> QED BY <2>1, <1>2, <1>4 DEF Confirm, Update
<1>5. ASSUME NEW d \in Devices, Reject(d) PROVE RowStep(e)
  <2>1. CASE d = e
    BY <2>1, <1>1, <1>5, AuditCounts DEF Reject, Update, TypeOK, Row, RowStep, Retired
  <2> QED BY <2>1, <1>2, <1>5 DEF Reject, Update
<1>6. ASSUME NEW d \in Devices, NEW t \in Types, Override(d, t) PROVE RowStep(e)
  <2>1. CASE d = e
    BY <2>1, <1>6, AuditCounts
       DEF Override, Update, TypeOK, Row, RowStep, Overridden
  <2> QED BY <2>1, <1>2, <1>6 DEF Override, Update
<1>7. ASSUME NEW d \in Devices, NEW t \in Types \cup {None},
             NEW demote \in BOOLEAN, Feedback(d, t, demote)
      PROVE RowStep(e)
  <2>1. CASE demote
    <3>1. /\ devices[d].status = "confirmed"
          /\ Update(d, Demoted(devices[d]), TRUE) /\ Audit(d)
      BY <1>7, <2>1 DEF Feedback
    <3>2. CASE d = e
      BY <3>1, <3>2, AuditCounts
         DEF Update, Demoted, TypeOK, Row, RowStep, Reopened
    <3> QED BY <3>1, <3>2, <1>2 DEF Update
  <2>2. CASE ~demote
    BY <1>1, <1>7, <2>2 DEF Feedback, RowStep, Untouched
  <2> QED BY <2>1, <2>2
<1>8. ASSUME NEW d \in Devices, NEW t \in Types \cup {None},
             NEW g \in Gateways \cup {None}, Create(d, t, g)
      PROVE RowStep(e)
  <2>1. CASE d = e
    BY <2>1, <1>8 DEF Create, TypeOK, Row, Absent, RowStep, Opened
  <2> QED BY <2>1, <1>2, <1>8 DEF Create
<1>9. ASSUME NEW d \in Devices, NEW t \in Types \cup {None},
             NEW g \in Gateways \cup {None}, Patch(d, t, g)
      PROVE RowStep(e)
  <2>1. CASE d = e
    <3>1. /\ devices'[e] = Patched(devices[e], t, g)
          /\ ~FreezeRaises(devices[e], Patched(devices[e], t, g), FALSE)
      BY <2>1, <1>9, <1>a DEF Patch, Update
    <3>2. devices[e] \in Row BY DEF TypeOK
    <3>3. /\ Patched(devices[e], t, g).status = devices[e].status
          /\ Patched(devices[e], t, g).classified_by = devices[e].classified_by
      BY <3>2 DEF Patched, Row
    <3> QED BY <3>1, <3>3, <1>1 DEF RowStep, Edited, Allowed
  <2> QED BY <2>1, <1>2, <1>9 DEF Patch, Update
<1>10. ASSUME NEW k \in Ids, Deactivate(k) PROVE RowStep(e)
  BY <1>10 DEF Deactivate, RowStep, Untouched
<1> QED BY <1>3, <1>4, <1>5, <1>6, <1>7, <1>8, <1>9, <1>10 DEF Ops

LEMMA PersistRowStep ==
  ASSUME TypeOK, NEW w \in Workers, Persist(w), NEW e \in Devices
  PROVE  RowStep(e)
<1>a. run[w] \in Run BY DEF TypeOK
<1>1. PICK o \in Outcomes(run[w]) : ApplyOutcome(run[w].device, o)
  BY DEF Persist
<1>b. /\ o.status \in {"candidate", "confirmed"}
      /\ o.source \in {"llm", "system_fallback"}
      /\ o.status = "confirmed" => o.source = "llm"
  BY <1>a, OutcomeType
<1> DEFINE d == run[w].device
<1> DEFINE new == [devices[d] EXCEPT !.status = o.status,
                                     !.device_type = o.type,
                                     !.classified_by = "ai"]
<1>2. CASE Applies(d)
  <2>1. /\ devices' = [devices EXCEPT ![d] = new]
        /\ ~FreezeRaises(devices[d], new, FALSE)
        /\ digest' = [digest EXCEPT ![d] = [source |-> o.source,
                                            type |-> o.type]]
        /\ devices[d].status = "candidate"
    BY <1>1, <1>2 DEF ApplyOutcome, Update, Applies
  <2>2. CASE d = e
    <3>1. devices[e] \in Row BY DEF TypeOK
    <3>2. new.status = o.status /\ new.classified_by = "ai"
      BY <2>2, <3>1 DEF Row
    <3> HIDE DEF new
    <3>3. /\ devices'[e] = new
          /\ digest'[e].source = o.source
      BY <2>1, <2>2 DEF TypeOK
    <3> QED BY <2>1, <2>2, <3>2, <3>3, <1>b
            DEF RowStep, Classified, Allowed, None
  <2>3. CASE d # e
    <3> HIDE DEF new, d
    <3> QED BY <2>1, <2>3 DEF TypeOK, RowStep, Untouched
  <2> QED BY <2>2, <2>3
<1>3. CASE ~Applies(d)
  BY <1>1, <1>3 DEF ApplyOutcome, RowStep, Untouched
<1> QED BY <1>2, <1>3

LEMMA RowSteps ==
  ASSUME TypeOK, [Next]_vars, NEW e \in Devices
  PROVE  RowStep(e)
<1>1. CASE Ops BY <1>1, OpsRowStep
<1>2. ASSUME NEW d \in Devices, NEW prefix \in Prefixes, Discover(d, prefix)
      PROVE RowStep(e)
  <2>1. CASE d = e
    BY <2>1, <1>2 DEF Discover, TypeOK, Row, Absent, RowStep, Opened
  <2>2. CASE d # e
    BY <2>2, <1>2 DEF Discover, TypeOK, RowStep, Untouched
  <2> QED BY <2>1, <2>2
<1>3. ASSUME NEW d \in Devices, NEW w \in Requests, Reclassify(w, d)
      PROVE RowStep(e)
  BY <1>3 DEF Reclassify, RowStep, Untouched
<1>4. ASSUME NEW w \in Workers, Persist(w) PROVE RowStep(e)
  BY <1>4, PersistRowStep
<1>5. ASSUME NEW w \in Workers,
             Retrieve(w) \/ ReadOwn(w) \/ ReadMate(w) \/ Raise(w)
      PROVE RowStep(e)
  BY <1>5 DEF Retrieve, ReadOwn, ReadMate, Raise, RowStep, Untouched
<1>6. CASE Crash BY <1>6 DEF Crash, RowStep, Untouched
<1>7. CASE UNCHANGED vars BY <1>7 DEF vars, RowStep, Untouched
<1> QED BY <1>1, <1>2, <1>3, <1>4, <1>5, <1>6, <1>7 DEF Next, Begin, Work

-----------------------------------------------------------------------------
(* The theorems about rows, each one a walk through RowStep.               *)

LEMMA OwnerInit == Init => CandidateNotFrozen /\ ReviewMatchesVerdict
<1> SUFFICES ASSUME Init, NEW d \in Devices
             PROVE  /\ devices[d].status # "candidate"
                    /\ devices[d].classified_by # "ai"
  BY DEF CandidateNotFrozen, ReviewMatchesVerdict
<1>1. PICK type \in [Backfilled -> Types], gateway \in [Backfilled -> Gateways] :
        devices = [e \in Devices |->
          IF e \in Backfilled
          THEN [Backfill(e) EXCEPT !.device_type = type[e],
                                   !.gateway_id = gateway[e]]
          ELSE Absent]
  BY DEF Init
<1> QED BY <1>1 DEF Backfill, Absent, None

LEMMA OwnerNext ==
  ASSUME TypeOK, CandidateNotFrozen, [Next]_vars
  PROVE  CandidateNotFrozen'
<1> SUFFICES ASSUME NEW d \in Devices, devices'[d].status = "candidate"
             PROVE  ~HumanOwned(devices'[d])
  BY DEF CandidateNotFrozen
<1>1. RowStep(d) BY RowSteps
<1>2. CASE Untouched(d) \/ Edited(d)
  BY <1>2 DEF Untouched, Edited, CandidateNotFrozen, HumanOwned
<1>3. CASE Opened(d) \/ Reopened(d) \/ Classified(d)
  BY <1>3 DEF Opened, Reopened, Classified, HumanOwned, None
<1> QED BY <1>1, <1>2, <1>3 DEF RowStep, Retired, Confirmed, Overridden

(* Whatever the interleaving, a candidate belongs to no human: Confirm and *)
(* the AI's writes never meet the freeze trigger.                          *)
THEOREM CandidatesUnowned == Spec => []CandidateNotFrozen
<1>1. TypeOK /\ CandidateNotFrozen /\ [Next]_vars => CandidateNotFrozen'
  BY OwnerNext
<1>2. Init => CandidateNotFrozen BY OwnerInit
<1> QED BY <1>1, <1>2, TypeCorrect, PTL DEF Spec

LEMMA ReviewNext ==
  ASSUME TypeOK, ReviewMatchesVerdict, [Next]_vars
  PROVE  ReviewMatchesVerdict'
<1> SUFFICES ASSUME NEW d \in Devices, devices'[d].classified_by = "ai"
             PROVE  /\ digest'[d].source # None
                    /\ devices'[d].status = "confirmed"
                         => digest'[d].source = "llm"
  BY DEF ReviewMatchesVerdict
<1>1. RowStep(d) BY RowSteps
<1>2. CASE Untouched(d) \/ Edited(d)
  BY <1>2 DEF Untouched, Edited, ReviewMatchesVerdict
<1>3. CASE Retired(d) BY <1>3 DEF Retired, ReviewMatchesVerdict
<1>4. CASE Classified(d) BY <1>4 DEF Classified
<1> QED BY <1>1, <1>2, <1>3, <1>4
        DEF RowStep, Opened, Confirmed, Overridden, Reopened, None

(* An AI verdict always has the digest that explains it, and an automatic  *)
(* confirmation the digest of a model's answer.                            *)
THEOREM VerdictsReviewed == Spec => []ReviewMatchesVerdict
<1>1. TypeOK /\ ReviewMatchesVerdict /\ [Next]_vars => ReviewMatchesVerdict'
  BY ReviewNext
<1>2. Init => ReviewMatchesVerdict BY OwnerInit
<1> QED BY <1>1, <1>2, TypeCorrect, PTL DEF Spec

LEMMA FreezeStep ==
  ASSUME TypeOK, [Next]_vars, NEW d \in Devices, CandidateNotFrozen,
         HumanOwned(devices[d]),
         Protected(devices'[d]) # Protected(devices[d])
  PROVE  Audited(d)
<1>1. RowStep(d) BY RowSteps
<1>2. ~Allowed(d) BY DEF Allowed, FreezeRaises, Frozen, FREEZE_SET, HumanOwned
<1>3. ~Untouched(d) BY DEF Untouched
<1>4. ~Opened(d) BY DEF Opened, Absent, HumanOwned, None
<1> QED BY <1>1, <1>2, <1>3, <1>4
        DEF RowStep, Edited, Retired, Confirmed, Overridden, Reopened, Classified

(* FR-335 for any number of devices and workers: no protected column of a  *)
(* human-owned row changes without an audit row of the same transaction.   *)
THEOREM FreezeHolds == Spec => HumanOwnedAudited
<1>1. TypeOK /\ CandidateNotFrozen /\ [Next]_vars =>
        [\A d \in Devices :
           HumanOwned(devices[d]) /\ Protected(devices'[d]) # Protected(devices[d])
             => lifecycle_audit'[d] > lifecycle_audit[d]]_vars
  BY FreezeStep DEF Audited
<1> QED BY <1>1, TypeCorrect, CandidatesUnowned, PTL DEF Spec, HumanOwnedAudited

LEMMA RetireStep ==
  ASSUME TypeOK, [Next]_vars, NEW d \in Devices,
         devices[d].status = "retired", devices'[d].status # "retired"
  PROVE  Overridden(d)
<1>1. RowStep(d) BY RowSteps
<1> QED BY <1>1 DEF RowStep, Untouched, Opened, Absent, Edited, Retired,
                    Confirmed, Reopened, Classified

(* Only an audited manual override brings a retired device back.           *)
THEOREM RetiredIsFinal == Spec => RetiredReopenedByOverride
<1>1. TypeOK /\ [Next]_vars =>
        [\A d \in Devices :
           devices[d].status = "retired" /\ devices'[d].status # "retired"
             => /\ devices'[d].status = "confirmed"
                /\ devices'[d].classified_by = "manual_override"
                /\ lifecycle_audit'[d] > lifecycle_audit[d]]_vars
  BY RetireStep DEF Overridden, Audited
<1> QED BY <1>1, TypeCorrect, PTL DEF Spec, RetiredReopenedByOverride

-----------------------------------------------------------------------------
(* What a classification has read is current unless it is marked outdated.  *)

Anchored ==
  /\ \A k \in Ids : corrections[k].is_active =>
       corrections[k].device \in Devices /\ Exists(corrections[k].device)
  /\ \A w \in Workers : run[w].pc # "idle" =>
       run[w].device \in Devices /\ Exists(run[w].device)

Right(r) ==
  /\ devices[r.device].gateway_id = r.gateway_id
  /\ r.pc = "mate" => Own(r.device) = {}
  /\ r.pc = "persist" =>
       r.latest = IF Own(r.device) # {} THEN Newest(Own(r.device))
                                        ELSE Newest(Mate(r.gateway_id))

Heeding ==
  /\ Anchored
  /\ \A w \in Workers : run[w].pc # "idle" /\ ~outdated[w] => Right(run[w])

LEMMA HeedingInit == Init => Heeding
<1> SUFFICES ASSUME Init PROVE Heeding OBVIOUS
<1>1. \A k \in Ids : corrections[k].is_active = FALSE
  BY DEF Init, NoCorrection
<1>2. \A w \in Workers : run[w].pc = "idle" BY DEF Init, Idle
<1> QED BY <1>1, <1>2 DEF Heeding, Anchored

(* What a step leaves alone: the corrections, but for how often they were   *)
(* applied, and the gateways.                                              *)
SameCorrections ==
  \A k \in Ids :
    /\ corrections'[k].is_active = corrections[k].is_active
    /\ corrections'[k].device = corrections[k].device
    /\ corrections'[k].device_type = corrections[k].device_type

SameGateways ==
  \A d \in Devices : Exists(d) => devices'[d].gateway_id = devices[d].gateway_id

Stay == \A d \in Devices : Exists(d) => Exists(d)'

LEMMA SameReads ==
  ASSUME TypeOK, Anchored, SameCorrections, SameGateways
  PROVE  /\ \A d : Own(d)' = Own(d) /\ Own(d) \subseteq Ids
         /\ \A g : Mate(g)' = Mate(g) /\ Mate(g) \subseteq Ids
         /\ \A S \in SUBSET Ids : Newest(S)' = Newest(S)
<1>1. Typed' = Typed BY DEF Typed, SameCorrections
<1>2. \A k \in Typed :
        /\ k \in Ids
        /\ corrections[k].device \in Devices /\ Exists(corrections[k].device)
  BY DEF Typed, Anchored
<1>3. \A d : Own(d)' = Own(d) /\ Own(d) \subseteq Ids
  BY <1>1, <1>2 DEF Own, SameCorrections
<1>4. ASSUME NEW g PROVE Mate(g)' = Mate(g) /\ Mate(g) \subseteq Ids
  <2>1. \A k \in Typed : devices'[corrections'[k].device].gateway_id
                           = devices[corrections[k].device].gateway_id
    BY <1>2 DEF SameCorrections, SameGateways
  <2> QED BY <1>1, <1>2, <2>1 DEF Mate
<1>5. ASSUME NEW S \in SUBSET Ids PROVE Newest(S)' = Newest(S)
  <2>1. CASE S = {} BY <2>1 DEF Newest
  <2>2. CASE S # {} BY <2>2, MaxOfIds DEF Newest, SameCorrections
  <2> QED BY <2>1, <2>2
<1> QED BY <1>3, <1>4, <1>5

LEMMA StillRight ==
  ASSUME TypeOK, Anchored, SameGateways, NEW r, Right(r),
         r.device \in Devices, Exists(r.device),
         SameCorrections \/ r.pc \in {"retrieve", "latest"}
  PROVE  Right(r)'
<1>1. devices'[r.device].gateway_id = devices[r.device].gateway_id
  BY DEF SameGateways
<1>2. CASE r.pc \in {"retrieve", "latest"} BY <1>1, <1>2 DEF Right
<1>3. CASE SameCorrections
  <2> DEFINE d == r.device
             g == r.gateway_id
  <2>1. /\ Own(d)' = Own(d) /\ Mate(g)' = Mate(g)
        /\ Newest(Own(d))' = Newest(Own(d)) /\ Newest(Mate(g))' = Newest(Mate(g))
    <3>1. /\ Own(d)' = Own(d) /\ Mate(g)' = Mate(g)
          /\ Own(d) \in SUBSET Ids /\ Mate(g) \in SUBSET Ids
      BY <1>3, SameReads
    <3>2. PICK S \in SUBSET Ids : S = Own(d) BY <3>1
    <3>3. PICK T \in SUBSET Ids : T = Mate(g) BY <3>1
    <3>4. Newest(S)' = Newest(S) /\ Newest(T)' = Newest(T) BY <1>3, SameReads
    <3>5. S = Own(d)' /\ T = Mate(g)' BY <3>1, <3>2, <3>3
    <3>6. Newest(Own(d))' = Newest(S)' BY <3>5 DEF Newest
    <3>7. Newest(Mate(g))' = Newest(T)' BY <3>5 DEF Newest
    <3> QED BY <3>1, <3>2, <3>3, <3>4, <3>6, <3>7
  <2> QED BY <1>1, <2>1 DEF Right
<1> QED BY <1>2, <1>3

LEMMA StayStep == ASSUME TypeOK, [Next]_vars PROVE Stay
<1> SUFFICES ASSUME NEW d \in Devices, Exists(d) PROVE Exists(d)' BY DEF Stay
<1>1. RowStep(d) BY RowSteps
<1> QED BY <1>1 DEF Exists, RowStep, Untouched, Opened, Absent, Edited, Retired,
                    Confirmed, Overridden, Reopened, Classified

(* A gateway is set when the row is inserted, and changed by PATCH alone.   *)
LEMMA GatewayStep ==
  ASSUME TypeOK, [Next]_vars
  PROVE  \/ SameGateways
         \/ \E d \in Devices, t \in Types \cup {None}, g \in Gateways :
              g # None /\ Patch(d, t, g)
<1>1. ASSUME NEW d \in Devices, NEW new,
             devices' = [devices EXCEPT ![d] = new],
             Exists(d) => new.gateway_id = devices[d].gateway_id
      PROVE  SameGateways
  BY <1>1 DEF TypeOK, SameGateways
<1>2. \A d \in Devices : devices[d] \in Row BY DEF TypeOK
<1>3. devices' = devices => SameGateways BY DEF SameGateways
<1>4. CASE Ops
  <2>1. ASSUME NEW d \in Devices, Delete(d) PROVE SameGateways
    BY <1>1, <1>2, <2>1 DEF Delete, Update, Row
  <2>2. ASSUME NEW d \in Devices, Confirm(d) PROVE SameGateways
    BY <1>1, <1>2, <2>2 DEF Confirm, Update, Row
  <2>3. ASSUME NEW d \in Devices, Reject(d) PROVE SameGateways
    BY <1>1, <1>2, <2>3 DEF Reject, Update, Row
  <2>4. ASSUME NEW d \in Devices, NEW t \in Types, Override(d, t)
        PROVE SameGateways
    BY <1>1, <1>2, <2>4 DEF Override, Update, Row
  <2>5. ASSUME NEW d \in Devices, NEW t \in Types \cup {None},
               NEW demote \in BOOLEAN, Feedback(d, t, demote)
        PROVE SameGateways
    <3>1. CASE demote
      BY <1>1, <1>2, <2>5, <3>1 DEF Feedback, Update, Demoted, Row
    <3>2. CASE ~demote BY <1>3, <2>5, <3>2 DEF Feedback
    <3> QED BY <3>1, <3>2
  <2>6. ASSUME NEW d \in Devices, NEW t \in Types \cup {None},
               NEW g \in Gateways \cup {None}, Create(d, t, g)
        PROVE SameGateways
    BY <1>1, <2>6 DEF Create
  <2>7. ASSUME NEW d \in Devices, NEW t \in Types \cup {None}, Patch(d, t, None)
        PROVE SameGateways
    <3>1. Patched(devices[d], t, None).gateway_id = devices[d].gateway_id
      BY <1>2 DEF Patched, Row
    <3> QED BY <1>1, <2>7, <3>1 DEF Patch, Update
  <2>8. ASSUME NEW k \in Ids, Deactivate(k) PROVE SameGateways
    BY <1>3, <2>8 DEF Deactivate
  <2> QED BY <1>4, <2>1, <2>2, <2>3, <2>4, <2>5, <2>6, <2>7, <2>8 DEF Ops
<1>5. CASE Begin BY <1>1, <1>3, <1>5 DEF Begin, Discover, Reclassify
<1>6. ASSUME NEW w \in Workers, Persist(w) PROVE SameGateways
  <2>1. PICK o \in Outcomes(run[w]) : ApplyOutcome(run[w].device, o)
    BY <1>6 DEF Persist
  <2>2. CASE Applies(run[w].device)
    <3>1. devices' = [devices EXCEPT ![run[w].device] =
            [devices[run[w].device] EXCEPT !.status = o.status,
                                           !.device_type = o.type,
                                           !.classified_by = "ai"]]
      BY <2>1, <2>2 DEF ApplyOutcome, Update
    <3>2. ASSUME NEW d \in Devices
          PROVE  devices'[d].gateway_id = devices[d].gateway_id
      <4>1. CASE d = run[w].device BY <1>2, <3>1, <4>1 DEF TypeOK, Row
      <4>2. CASE d # run[w].device BY <3>1, <4>2 DEF TypeOK
      <4> QED BY <4>1, <4>2
    <3> QED BY <3>2 DEF SameGateways
  <2>3. CASE ~Applies(run[w].device)
    BY <1>3, <2>1, <2>3 DEF ApplyOutcome
  <2> QED BY <2>2, <2>3
<1>7. ASSUME NEW w \in Workers,
             Retrieve(w) \/ ReadOwn(w) \/ ReadMate(w) \/ Raise(w)
      PROVE SameGateways
  BY <1>3, <1>7 DEF Retrieve, ReadOwn, ReadMate, Raise
<1>8. CASE Crash \/ UNCHANGED vars BY <1>3, <1>8 DEF Crash, vars
<1> QED BY <1>4, <1>5, <1>6, <1>7, <1>8 DEF Next, Work

(* Corrections are entered by feedback and withdrawn one by one.           *)
LEMMA CorrectionStep ==
  ASSUME TypeOK, [Next]_vars
  PROVE  \/ SameCorrections
         \/ \E d \in Devices, t \in Types \cup {None}, demote \in BOOLEAN :
              Feedback(d, t, demote)
         \/ \E k \in Ids : Deactivate(k)
<1>1. corrections' = corrections => SameCorrections BY DEF SameCorrections
<1>2. CASE Ops
  BY <1>1, <1>2 DEF Ops, Delete, Confirm, Reject, Override, Create, Patch, human
<1>3. CASE Begin BY <1>1, <1>3 DEF Begin, Discover, Reclassify, human
<1>4. ASSUME NEW w \in Workers, Persist(w) PROVE SameCorrections
  <2>1. PICK o \in Outcomes(run[w]) :
          MarkApplied(IF o.source = "llm" THEN run[w].kept ELSE {})
    BY <1>4 DEF Persist
  <2>2. PICK ids : ids = (IF o.source = "llm" THEN run[w].kept ELSE {})
    OBVIOUS
  <2>3. corrections' = [k \in Ids |->
          IF k \in ids THEN [corrections[k] EXCEPT !.applied_count = @ + 1]
                       ELSE corrections[k]]
    BY <2>1, <2>2 DEF MarkApplied
  <2>4. \A k \in Ids : corrections[k] \in Correction BY DEF TypeOK
  <2> QED BY <2>3, <2>4 DEF SameCorrections, Correction
<1>5. ASSUME NEW w \in Workers,
             Retrieve(w) \/ ReadOwn(w) \/ ReadMate(w) \/ Raise(w)
      PROVE SameCorrections
  BY <1>1, <1>5 DEF Retrieve, ReadOwn, ReadMate, Raise, human
<1>6. CASE Crash \/ UNCHANGED vars BY <1>1, <1>6 DEF Crash, vars, human
<1> QED BY <1>2, <1>3, <1>4, <1>5, <1>6 DEF Next, Work

(* What one step may do to the classification of one worker.               *)
Waits(w) == run'[w] = run[w] /\ (outdated[w] => outdated'[w])

Starts(w) ==
  /\ run'[w].pc = "retrieve" /\ run'[w].device \in Devices
  /\ devices'[run'[w].device].status # "absent"
  /\ run'[w].gateway_id = devices'[run'[w].device].gateway_id

Reads(w) == Retrieve(w) \/ ReadOwn(w) \/ ReadMate(w)

LEMMA StartRunSteps ==
  ASSUME TypeOK, NEW v \in Workers, NEW d \in Devices, NEW row \in Row,
         StartRun(v, d, row), devices'[d] = row, row.status # "absent",
         NEW w \in Workers
  PROVE  Waits(w) \/ Starts(w)
<1> DEFINE new == [Idle EXCEPT !.pc = "retrieve", !.device = d,
                               !.device_type = row.device_type,
                               !.gateway_id = row.gateway_id,
                               !.source_topic = row.source_topic]
<1>1. /\ new.pc = "retrieve" /\ new.device = d
      /\ new.gateway_id = row.gateway_id
  BY DEF Idle
<1>2. /\ run' = [run EXCEPT ![v] = new]
      /\ outdated' = [outdated EXCEPT ![v] = FALSE]
  BY DEF StartRun
<1> HIDE DEF new
<1>3. CASE w = v
  <2>1. run'[w] = new BY <1>2, <1>3 DEF TypeOK
  <2> QED BY <1>1, <2>1 DEF Starts, Exists
<1>4. CASE w # v BY <1>2, <1>4 DEF Waits, TypeOK
<1> QED BY <1>3, <1>4

LEMMA RunSteps ==
  ASSUME TypeOK, [Next]_vars, NEW w \in Workers
  PROVE  Waits(w) \/ Starts(w) \/ Reads(w) \/ run'[w] = Idle
<1>1. CASE Ops
  BY <1>1
  DEF Ops, Delete, Confirm, Reject, Override, Feedback, Create, Patch,
      Deactivate, Outdate, Waits, work
<1>2. CASE Begin
  <2>1. ASSUME NEW d \in Devices, NEW prefix \in Prefixes, Discover(d, prefix)
        PROVE  Waits(w) \/ Starts(w)
    <3> DEFINE row == [Absent EXCEPT !.status = "candidate",
                                     !.device_type = PrefixType[prefix],
                                     !.gateway_id = PrefixGateway[prefix],
                                     !.source_topic = prefix]
    <3>1. row \in Row /\ row.status = "candidate"
      BY RegistryAssumption DEF Absent, Row, Statuses
    <3>2. devices' = [devices EXCEPT ![d] = row] /\ StartRun(Subscriber, d, row)
      BY <2>1 DEF Discover
    <3> HIDE DEF row
    <3>3. devices'[d] = row BY <3>2 DEF TypeOK
    <3> QED BY <3>1, <3>2, <3>3, StartRunSteps DEF Workers
  <2>2. ASSUME NEW d \in Devices, NEW v \in Requests, Reclassify(v, d)
        PROVE  Waits(w) \/ Starts(w)
    <3>1. devices[d] \in Row /\ v \in Workers BY DEF TypeOK, Workers
    <3>2. /\ devices'[d] = devices[d] /\ devices[d].status # "absent"
          /\ StartRun(v, d, devices[d])
      BY <2>2 DEF Reclassify
    <3> QED BY <3>1, <3>2, StartRunSteps
  <2> QED BY <1>2, <2>1, <2>2 DEF Begin
<1>3. ASSUME NEW v \in Workers, Persist(v) \/ Raise(v)
      PROVE  Waits(w) \/ run'[w] = Idle
  BY <1>3 DEF Persist, Raise, EndRun, Waits, TypeOK
<1>4. ASSUME NEW v \in Workers, Retrieve(v) \/ ReadOwn(v) \/ ReadMate(v)
      PROVE  Waits(w) \/ Reads(w)
  <2>1. CASE v = w BY <1>4, <2>1 DEF Reads
  <2>2. CASE v # w
    BY <1>4, <2>2 DEF Retrieve, ReadOwn, ReadMate, Waits, TypeOK
  <2> QED BY <2>1, <2>2
<1>5. CASE Crash BY <1>5 DEF Crash, Waits, TypeOK
<1>6. CASE UNCHANGED vars BY <1>6 DEF vars, Waits
<1> QED BY <1>1, <1>2, <1>3, <1>4, <1>5, <1>6 DEF Next, Work

(* A read keeps the device and its gateway, and is of what is active.      *)
LEMMA ReadStep ==
  ASSUME TypeOK, NEW w \in Workers, Reads(w)
  PROVE  /\ run[w].pc # "idle" /\ run'[w].device = run[w].device
         /\ run'[w].gateway_id = run[w].gateway_id
         /\ UNCHANGED <<devices, corrections, outdated>>
         /\ Right(run[w]) => Right(run'[w])
<1>0. run[w] \in Run /\ run \in [Workers -> Run] BY DEF TypeOK
<1>1. CASE Retrieve(w)
  <2>1. /\ run[w].pc # "idle" /\ run'[w].device = run[w].device
        /\ run'[w].gateway_id = run[w].gateway_id /\ run'[w].pc = "latest"
    BY <1>0, <1>1 DEF Retrieve, Run
  <2>2. UNCHANGED <<devices, corrections, outdated>>
    BY <1>1 DEF Retrieve, human
  <2> QED BY <2>1, <2>2 DEF Right
<1>2. CASE ReadOwn(w)
  <2> DEFINE own == Own(run[w].device)
             val == Newest(own)
             pc == IF val # None \/ run[w].gateway_id = None
                   THEN "persist" ELSE "mate"
             new == [run[w] EXCEPT !.latest = val, !.pc = pc]
  <2>1. /\ new.device = run[w].device /\ new.gateway_id = run[w].gateway_id
        /\ new.latest = val /\ new.pc = pc
    BY <1>0 DEF Run
  <2>2. run' = [run EXCEPT ![w] = new] BY <1>2 DEF ReadOwn
  <2> HIDE DEF new
  <2>3. run'[w] = new BY <1>0, <2>2
  <2>4. val = None <=> own = {}
    <3>1. own \in SUBSET Typed /\ own \in SUBSET Ids BY DEF Own, Typed
    <3>2. CASE own # {}
      <4>1. Max(own) \in own BY <3>1, <3>2, MaxOfIds
      <4> QED BY <3>1, <3>2, <4>1 DEF Newest, Typed
    <3> QED BY <3>2 DEF Newest
  <2>5. own = Own(new.device) BY <2>1
  <2>6. run[w].gateway_id = None => Newest(Mate(new.gateway_id)) = None
    BY <2>1 DEF Mate, Newest
  <2>7. run[w].pc # "idle" /\ UNCHANGED <<devices, corrections, outdated>>
    BY <1>2 DEF ReadOwn, human
  <2>8. Right(run[w]) => Right(new)
    <3>1. Right(run[w]) => devices[new.device].gateway_id = new.gateway_id
      BY <2>1 DEF Right
    <3>2. new.pc = "mate" => own = {} BY <2>1, <2>4
    <3>3. new.pc = "persist" =>
            new.latest = IF own # {} THEN Newest(own)
                                     ELSE Newest(Mate(new.gateway_id))
      BY <2>1, <2>4, <2>6
    <3> HIDE DEF own
    <3> QED BY <2>5, <3>1, <3>2, <3>3 DEF Right
  <2> QED BY <2>1, <2>3, <2>7, <2>8
<1>3. CASE ReadMate(w)
  <2> DEFINE val == Newest(Mate(run[w].gateway_id))
             new == [run[w] EXCEPT !.pc = "persist", !.latest = val]
  <2>1. /\ new.device = run[w].device /\ new.gateway_id = run[w].gateway_id
        /\ new.latest = val /\ new.pc = "persist"
    BY <1>0 DEF Run
  <2>2. run' = [run EXCEPT ![w] = new] BY <1>3 DEF ReadMate
  <2> HIDE DEF new
  <2>3. run'[w] = new BY <1>0, <2>2
  <2>4. run[w].pc = "mate" /\ UNCHANGED <<devices, corrections, outdated>>
    BY <1>3 DEF ReadMate, human
  <2>5. Right(run[w]) => Right(new) BY <2>1, <2>4 DEF Right
  <2> QED BY <2>1, <2>3, <2>4, <2>5
<1> QED BY <1>1, <1>2, <1>3 DEF Reads

LEMMA AnchoredNext ==
  ASSUME TypeOK, Anchored, [Next]_vars
  PROVE  Anchored'
<1>1. Stay BY StayStep
<1>2. ASSUME NEW k \in Ids, corrections'[k].is_active
      PROVE  /\ corrections'[k].device \in Devices
             /\ devices'[corrections'[k].device].status # "absent"
  <2>1. ASSUME corrections[k].is_active,
               corrections'[k].device = corrections[k].device
        PROVE  /\ corrections'[k].device \in Devices
             /\ devices'[corrections'[k].device].status # "absent"
    BY <1>1, <2>1 DEF Anchored, Stay, Exists
  <2>2. CASE SameCorrections BY <1>2, <2>1, <2>2 DEF SameCorrections
  <2>3. ASSUME NEW d \in Devices, NEW t, NEW demote, Feedback(d, t, demote)
        PROVE  /\ corrections'[k].device \in Devices
             /\ devices'[corrections'[k].device].status # "absent"
    <3>1. /\ corrections' = [corrections EXCEPT ![last_id + 1] =
               [device |-> d, device_type |-> t, is_active |-> TRUE,
                applied_count |-> 0]]
          /\ Exists(d)
      BY <2>3 DEF Feedback
    <3>2. CASE k = last_id + 1
      <4>1. corrections'[k].device = d BY <3>1, <3>2 DEF TypeOK
      <4> QED BY <1>1, <3>1, <4>1 DEF Stay, Exists
    <3>3. CASE k # last_id + 1
      <4>1. corrections'[k] = corrections[k] BY <3>1, <3>3 DEF TypeOK
      <4> QED BY <1>2, <2>1, <4>1
    <3> QED BY <3>2, <3>3
  <2>4. ASSUME NEW j \in Ids, Deactivate(j)
        PROVE  /\ corrections'[k].device \in Devices
             /\ devices'[corrections'[k].device].status # "absent"
    <3>1. /\ corrections'[k].device = corrections[k].device
          /\ corrections[k].is_active
      BY <1>2, <2>4 DEF Deactivate, TypeOK, Correction
    <3> QED BY <2>1, <3>1
  <2> QED BY <2>2, <2>3, <2>4, CorrectionStep
<1>3. ASSUME NEW w \in Workers, run'[w].pc # "idle"
      PROVE  /\ run'[w].device \in Devices
             /\ devices'[run'[w].device].status # "absent"
  <2>1. CASE Waits(w) BY <1>1, <1>3, <2>1 DEF Waits, Anchored, Stay, Exists
  <2>2. CASE Starts(w) BY <2>2 DEF Starts
  <2>3. CASE Reads(w) BY <1>1, <2>3, ReadStep DEF Anchored, Stay, Exists
  <2>4. CASE run'[w] = Idle BY <1>3, <2>4 DEF Idle
  <2> QED BY <2>1, <2>2, <2>3, <2>4, RunSteps
<1> QED BY <1>2, <1>3 DEF Anchored, Exists

LEMMA OutdateMarks ==
  ASSUME TypeOK, NEW labels, Outdate(labels)
  PROVE  \A w \in Workers : run[w].pc \in labels => outdated'[w]
BY DEF Outdate

(* Who only waits: what it has read is left alone, or it is marked.        *)
LEMMA WaitsRight ==
  ASSUME TypeOK, Heeding, [Next]_vars, NEW w \in Workers, Waits(w),
         run[w].pc # "idle", ~outdated'[w]
  PROVE  Right(run[w])'
<1>0. run[w].pc \in {"retrieve", "latest", "mate", "persist"}
  BY DEF TypeOK, Run
<1>1. SameGateways
  <2>1. ASSUME NEW d \in Devices, NEW t \in Types \cup {None},
               NEW g \in Gateways, g # None, Patch(d, t, g)
        PROVE  FALSE
    <3>1. Outdate({"retrieve", "latest", "mate", "persist"})
      BY <2>1 DEF Patch
    <3> QED BY <1>0, <3>1, OutdateMarks
  <2> QED BY <2>1, GatewayStep
<1>2. SameCorrections \/ run[w].pc \in {"retrieve", "latest"}
  <2>1. Outdate({"mate", "persist"}) => run[w].pc \in {"retrieve", "latest"}
    BY <1>0, OutdateMarks
  <2> QED BY <2>1, CorrectionStep DEF Feedback, Deactivate
<1>3. PICK r : r = run[w] OBVIOUS
<1>4. Right(r)
  BY <1>3 DEF Heeding, Waits
<1>5. r.device \in Devices /\ Exists(r.device) BY <1>3 DEF Heeding, Anchored
<1>6. Right(r)' BY <1>1, <1>2, <1>3, <1>4, <1>5, StillRight DEF Heeding
<1>7. run'[w] = r BY <1>3 DEF Waits
<1> QED BY <1>6, <1>7 DEF Right, Own, Mate, Newest, Typed

LEMMA HeedingNext ==
  ASSUME TypeOK, Heeding, [Next]_vars
  PROVE  Heeding'
<1>1. Anchored' BY AnchoredNext DEF Heeding
<1>2. ASSUME NEW w \in Workers, run'[w].pc # "idle", ~outdated'[w]
      PROVE  Right(run[w])'
  <2>1. CASE Waits(w) BY <1>2, <2>1, WaitsRight DEF Waits
  <2>2. CASE Starts(w) BY <2>2 DEF Starts, Right
  <2>3. CASE Reads(w)
    <3>1. /\ run[w].pc # "idle" /\ UNCHANGED <<devices, corrections, outdated>>
          /\ Right(run[w]) => Right(run'[w])
      BY <2>3, ReadStep
    <3>2. Right(run'[w]) BY <1>2, <3>1 DEF Heeding
    <3> QED BY <3>1, <3>2 DEF Right, Own, Mate, Newest, Typed
  <2>4. CASE run'[w] = Idle BY <1>2, <2>4 DEF Idle
  <2> QED BY <2>1, <2>2, <2>3, <2>4, RunSteps
<1> QED BY <1>1, <1>2 DEF Heeding

(* Who confirms by itself persists an outcome that does not contradict what *)
(* it has read.                                                            *)
LEMMA ConfirmingStep ==
  ASSUME TypeOK, Heeding, [Next]_vars, NEW w \in Workers, AutoConfirms(w)
  PROVE  \E t \in Types : /\ devices'[run[w].device].device_type = t
                          /\ ~Conflict(run[w], t)
<1>1. /\ run'[w] # run[w] /\ devices' # devices
      /\ run[w].device \in Devices
  BY DEF AutoConfirms, Heeding, Anchored
<1>2. ~Ops
  BY <1>1
  DEF Ops, Delete, Confirm, Reject, Override, Feedback, Create, Patch,
      Deactivate, work
<1>3. ~Begin
  <2>1. ~(\E d \in Devices, v \in Requests : Reclassify(v, d))
    BY <1>1 DEF Reclassify
  <2>2. ASSUME NEW d \in Devices, NEW prefix \in Prefixes, Discover(d, prefix)
        PROVE  FALSE
    <3>1. run'[w].pc # "idle" \/ run'[w] = run[w]
      BY <2>2, RunSteps DEF Discover, StartRun, TypeOK, Idle, Workers
    <3> QED BY <1>1, <3>1 DEF AutoConfirms
  <2> QED BY <2>1, <2>2 DEF Begin
<1>4. ~Crash /\ \A v \in Workers : ~Raise(v) BY <1>1 DEF Crash, Raise
<1>5. \A v \in Workers : ~Retrieve(v) /\ ~ReadOwn(v) /\ ~ReadMate(v)
  BY <1>1 DEF Retrieve, ReadOwn, ReadMate
<1>6. PICK v \in Workers : Persist(v)
  BY <1>1, <1>2, <1>3, <1>4, <1>5 DEF Next, Work, vars
<1>7. v = w BY <1>1, <1>6 DEF Persist, EndRun, TypeOK
<1>8. PICK o \in Outcomes(run[w]) : ApplyOutcome(run[w].device, o)
  BY <1>6, <1>7 DEF Persist
<1>9. devices'[run[w].device] = [devices[run[w].device] EXCEPT
        !.status = o.status, !.device_type = o.type, !.classified_by = "ai"]
  BY <1>1, <1>8 DEF ApplyOutcome, Update, TypeOK
<1>10. devices[run[w].device] \in Row BY <1>1 DEF TypeOK
<1>11. /\ o.status = "confirmed"
       /\ devices'[run[w].device].device_type = o.type
  BY <1>9, <1>10 DEF AutoConfirms, Row
<1>12. o.type \in Types /\ ~Conflict(run[w], o.type)
  BY <1>8, <1>11 DEF Outcomes
<1> QED BY <1>11, <1>12

LEMMA NoContradiction ==
  ASSUME TypeOK, NEW S \in SUBSET Ids, S \subseteq Typed,
         NEW k \in S, \A j \in S : j <= k
  PROVE  Newest(S) = corrections[k].device_type /\ Newest(S) # None
<1>1. Max(S) \in S /\ \A j \in S : j <= Max(S) BY MaxOfIds
<1>2. PICK m \in S : m = Max(S) BY <1>1
<1>3. k <= m /\ m <= k BY <1>1, <1>2
<1>4. k \in Nat /\ m \in Nat BY RegistryAssumption DEF Ids
<1>5. Max(S) = k BY <1>2, <1>3, <1>4
<1> QED BY <1>5 DEF Newest, Typed

LEMMA HeedStep ==
  ASSUME TypeOK, Heeding, [Next]_vars, NEW w \in Workers, AutoConfirms(w),
         ~outdated[w]
  PROVE  Agrees(run[w].device, devices'[run[w].device].device_type)
<1>1. PICK t \in Types : /\ devices'[run[w].device].device_type = t
                         /\ ~Conflict(run[w], t)
  BY ConfirmingStep
<1>2. Right(run[w]) /\ run[w].pc = "persist" BY DEF Heeding, AutoConfirms
<1> DEFINE own == Own(run[w].device)
           mate == Mate(run[w].gateway_id)
<1>3. /\ own \in SUBSET Ids /\ own \subseteq Typed
      /\ mate \in SUBSET Ids /\ mate \subseteq Typed
  BY DEF Own, Mate, Typed
<1>4. /\ run[w].latest = IF own # {} THEN Newest(own) ELSE Newest(mate)
      /\ Mate(devices[run[w].device].gateway_id) = mate
  BY <1>2 DEF Right
<1>5. ASSUME NEW k \in own, \A j \in own : j <= k
      PROVE  corrections[k].device_type = t
  <2>1. Newest(own) = corrections[k].device_type /\ Newest(own) # None
    BY <1>3, <1>5, NoContradiction
  <2> QED BY <1>1, <1>4, <2>1 DEF Conflict
<1>6. ASSUME own = {}, NEW k \in mate, \A j \in mate : j <= k
      PROVE  corrections[k].device_type = t
  <2>1. Newest(mate) = corrections[k].device_type /\ Newest(mate) # None
    BY <1>3, <1>6, NoContradiction
  <2> QED BY <1>1, <1>4, <1>6, <2>1 DEF Conflict
<1> QED BY <1>1, <1>4, <1>5, <1>6 DEF Agrees

(* FR-332 for any number of devices, gateways, corrections and workers: a   *)
(* classification whose context has not been changed under it confirms no  *)
(* type that contradicts the newest active correction.                     *)
THEOREM CorrectionsHeeded == Spec => AutoConfirmHeedsCorrections
<1>1. TypeOK /\ Heeding /\ [Next]_vars => Heeding' BY HeedingNext
<1>2. TypeOK /\ Heeding /\ [Next]_vars =>
        [\A w \in Workers :
           AutoConfirms(w) /\ ~outdated[w] =>
             Agrees(run[w].device, devices'[run[w].device].device_type)]_vars
  BY HeedStep
<1> QED BY <1>1, <1>2, HeedingInit, TypeCorrect,
           PTL DEF Spec, AutoConfirmHeedsCorrections
=============================================================================
