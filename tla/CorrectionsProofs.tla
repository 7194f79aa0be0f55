------------------------- MODULE CorrectionsProofs -------------------------
(***************************************************************************)
(* The limits, the alert and the order of the locks of Corrections, for    *)
(* any number of concurrent requests, keys, devices and corrections.       *)
(***************************************************************************)
EXTENDS Corrections, FiniteSetTheorems, SequenceTheorems, TLAPS

LEMMA ConstantTypes ==
  /\ None \notin Keys /\ None \notin Slots
  /\ KeyLimit \in Nat /\ DeviceLimit \in Nat /\ Hour \in Nat
  /\ MaxNow \in Nat /\ MaxRequests \in Nat /\ MaxFaults \in Nat
  /\ Seeds \in Seq(Correction) /\ Len(Seeds) \in Nat
<1>1. Seeds \in Seq([device : Devices, key : Keys, created_at : {0},
                     active : BOOLEAN])
  BY CorrectionsAssumption
<1>2. [device : Devices, key : Keys, created_at : {0}, active : BOOLEAN]
        \subseteq Correction
  BY DEF Correction
<1>3. Seeds \in Seq(Correction) BY <1>1, <1>2, SeqMonotonic
<1> QED BY <1>3, CorrectionsAssumption

-----------------------------------------------------------------------------
(* Type correctness.  A request that writes knows what it writes.          *)

Targets ==
  \A s \in Slots :
    /\ tx[s].kind = "feedback" => tx[s].device \in Devices /\ tx[s].key \in Keys
    /\ tx[s].kind = "deactivate" => tx[s].row \in 1..Len(corrections)

Typed == TypeOK /\ Targets

LEMMA IdleType == Idle \in Tx
<1>1. <<>> \in Seq(Locks) BY EmptySeq
<1> QED BY <1>1 DEF Idle, Tx, Kinds

LEMMA TypeInit == Init => Typed
<1> SUFFICES ASSUME Init PROVE Typed OBVIOUS
<1> USE ConstantTypes
<1>1. corrections \in Seq(Correction) /\ audit \in Seq(Event)
  BY EmptySeq DEF Init
<1>2. tx \in [Slots -> Tx] BY IdleType DEF Init
<1>3. holder \in [Locks -> Slots \cup {None}] BY DEF Init
<1>4. /\ now \in Nat /\ now >= Hour
      /\ requests \in 0..MaxRequests /\ faults \in 0..MaxFaults
  BY DEF Init
<1>5. Targets BY DEF Init, Targets, Idle
<1> QED BY <1>1, <1>2, <1>3, <1>4, <1>5 DEF Typed, TypeOK

LEMMA ReleasedType ==
  ASSUME TypeOK, NEW s \in Slots
  PROVE  Released(s) \in [Locks -> Slots \cup {None}]
BY DEF TypeOK, Released

LEMMA RollbackType ==
  ASSUME Typed, NEW s \in Slots, Rollback(s), faults' \in 0..MaxFaults
  PROVE  Typed'
<1>1. tx' \in [Slots -> Tx] BY IdleType DEF Rollback, Typed, TypeOK
<1>2. Targets'
  BY DEF Rollback, Typed, TypeOK, Targets, Idle
<1> QED BY <1>1, <1>2, ReleasedType DEF Rollback, Typed, TypeOK

LEMMA RequestType ==
  ASSUME Typed, NEW s \in Slots, NEW call \in Tx, Request(s, call),
         call.kind = "feedback" => call.device \in Devices /\ call.key \in Keys,
         call.kind = "deactivate" => call.row \in 1..Len(corrections)
  PROVE  Typed'
<1>1. tx' \in [Slots -> Tx] BY DEF Request, Typed, TypeOK
<1>2. Targets' BY DEF Request, Typed, TypeOK, Targets
<1>3. requests' \in 0..MaxRequests
  BY ConstantTypes DEF Request, Typed, TypeOK
<1> QED BY <1>1, <1>2, <1>3 DEF Request, Typed, TypeOK

LEMMA CallType ==
  ASSUME Typed, NEW s \in Slots, Call(s)
  PROVE  Typed'
<1> USE ConstantTypes
<1>1. ASSUME NEW f \in Feedbacks, CreateFeedback(s, f[1], f[2]) PROVE Typed'
  <2>1. f[1] \in Devices /\ f[2] \in Keys BY CorrectionsAssumption
  <2>2. FeedbackLocks(f[1], f[2]) \in Seq(Locks)
    BY <2>1 DEF FeedbackLocks, Locks
  <2>3. now - Hour \in Nat BY DEF Typed, TypeOK
  <2> DEFINE call == [Idle EXCEPT !.pc = "called", !.kind = "feedback",
                        !.device = f[1], !.key = f[2], !.since = now - Hour,
                        !.todo = FeedbackLocks(f[1], f[2])]
  <2>4. call \in Tx BY <2>1, <2>2, <2>3 DEF Tx, Kinds, Idle
  <2>5. call.kind = "feedback" /\ call.device = f[1] /\ call.key = f[2]
    BY DEF Idle
  <2>6. Request(s, call) BY <1>1 DEF CreateFeedback
  <2> HIDE DEF call
  <2> QED BY <2>1, <2>4, <2>5, <2>6, RequestType
<1>2. ASSUME NEW x \in Deactivations, x[1] \in 1..Len(corrections),
             Deactivate(s, x[1], x[2]) PROVE Typed'
  <2>1. x[1] \in Ids /\ x[2] \in Keys \cup {None} BY CorrectionsAssumption
  <2>2. DeactivateLocks(x[2], x[1]) \in Seq(Locks)
    <3>1. Row(x[1]) \in Locks BY <2>1 DEF Locks
    <3>2. CASE x[2] = None BY <3>1, <3>2 DEF DeactivateLocks
    <3>3. CASE x[2] # None
      <4>1. Key(x[2]) \in Locks BY <2>1, <3>3 DEF Locks
      <4> QED BY <3>1, <3>3, <4>1 DEF DeactivateLocks
    <3> QED BY <3>2, <3>3
  <2> DEFINE call == [Idle EXCEPT !.pc = "called", !.kind = "deactivate",
                        !.row = x[1], !.key = x[2],
                        !.todo = DeactivateLocks(x[2], x[1])]
  <2>3. call \in Tx BY <2>1, <2>2 DEF Tx, Kinds, Idle
  <2>4. call.kind = "deactivate" /\ call.row = x[1] BY DEF Idle
  <2>5. Request(s, call) BY <1>2 DEF Deactivate
  <2> HIDE DEF call
  <2> QED BY <1>2, <2>3, <2>4, <2>5, RequestType
<1>3. ASSUME NEW o \in Outcomes, PersistOutcome(s, o[1], o[2]) PROVE Typed'
  <2>1. o[1] \in Devices /\ o[2] \in Seq(Ids) BY CorrectionsAssumption
  <2>2. PersistLocks(o[1], o[2]) \in Seq(Locks)
    <3> DEFINE rows == [i \in DOMAIN o[2] |-> Row(o[2][i])]
    <3>1. \A i \in 1..Len(o[2]) : o[2][i] \in Ids BY <2>1, ElementOfSeq
    <3>2. DOMAIN o[2] = 1..Len(o[2]) /\ Len(o[2]) \in Nat
      BY <2>1, LenProperties
    <3>3. \A i \in 1..Len(o[2]) : Row(o[2][i]) \in Locks BY <3>1 DEF Locks
    <3>4. rows \in Seq(Locks) BY <3>2, <3>3
    <3>5. <<Device(o[1])>> \in Seq(Locks) BY <2>1 DEF Locks
    <3> HIDE DEF rows
    <3>6. <<Device(o[1])>> \o rows \in Seq(Locks)
      BY <3>4, <3>5, ConcatProperties
    <3> QED BY <3>6 DEF PersistLocks, rows
  <2> DEFINE call == [Idle EXCEPT !.pc = "called", !.kind = "persist",
                        !.device = o[1], !.todo = PersistLocks(o[1], o[2])]
  <2>3. call \in Tx BY <2>1, <2>2 DEF Tx, Kinds, Idle
  <2>4. call.kind = "persist" BY DEF Idle
  <2>5. Request(s, call) BY <1>3 DEF PersistOutcome
  <2> HIDE DEF call
  <2> QED BY <2>3, <2>4, <2>5, RequestType
<1> QED BY <1>1, <1>2, <1>3 DEF Call

LEMMA AcquireType ==
  ASSUME Typed, NEW s \in Slots, Acquire(s)
  PROVE  Typed'
<1>1. CASE Gone(s)
  BY <1>1, RollbackType, ConstantTypes DEF Acquire, Typed, TypeOK
<1>2. CASE ~Gone(s)
  <2>1. /\ tx[s].todo \in Seq(Locks) /\ tx[s].todo # <<>>
        /\ holder' = [holder EXCEPT ![Wanted(s)] = s]
        /\ tx' = [tx EXCEPT ![s].todo = Tail(tx[s].todo)]
        /\ UNCHANGED <<corrections, audit, now, requests, faults>>
    BY <1>2 DEF Acquire, Waiting, Typed, TypeOK, Tx
  <2>2. Tail(tx[s].todo) \in Seq(Locks) BY <2>1, HeadTailProperties
  <2>3. tx' \in [Slots -> Tx]
    <3> DEFINE t == [tx[s] EXCEPT !.todo = Tail(tx[s].todo)]
    <3>1. tx[s] \in Tx /\ tx \in [Slots -> Tx] BY DEF Typed, TypeOK
    <3>2. t \in Tx BY <2>2, <3>1 DEF Tx
    <3>3. tx' = [tx EXCEPT ![s] = t] BY <2>1, <3>1
    <3> HIDE DEF t
    <3> QED BY <3>1, <3>2, <3>3
  <2>4. holder' \in [Locks -> Slots \cup {None}]
    BY <2>1 DEF Typed, TypeOK
  <2>5. Targets' BY <2>1 DEF Typed, TypeOK, Tx, Targets
  <2> QED BY <2>1, <2>3, <2>4, <2>5 DEF Typed, TypeOK
<1> QED BY <1>1, <1>2

LEMMA BeginType ==
  ASSUME Typed, NEW s \in Slots, Begin(s)
  PROVE  Typed'
<1> DEFINE t == [tx[s] EXCEPT !.pc = "open", !.begun = now]
<1>1. tx[s] \in Tx /\ tx \in [Slots -> Tx] /\ now \in Nat
  BY DEF Typed, TypeOK
<1>2. t \in Tx BY <1>1 DEF Tx
<1>3. tx' = [tx EXCEPT ![s] = t] BY <1>1 DEF Begin
<1>4. t.kind = tx[s].kind /\ t.device = tx[s].device /\ t.key = tx[s].key
      /\ t.row = tx[s].row
  BY <1>1 DEF Tx
<1> HIDE DEF t
<1>5. tx' \in [Slots -> Tx] BY <1>1, <1>2, <1>3
<1>6. Targets' BY <1>1, <1>3, <1>4 DEF Typed, Targets, Begin
<1> QED BY <1>5, <1>6 DEF Begin, Typed, TypeOK

(* What Count puts into the transaction.                                   *)
LEMMA CountSteps ==
  ASSUME Typed, NEW s \in Slots, Count(s)
  PROVE  /\ tx[s].pc = "open" /\ tx[s].todo = <<>>
         /\ \E c \in Nat, v \in {"ok", "over", "suspicious"} :
              /\ tx' = [tx EXCEPT ![s] = [tx[s] EXCEPT !.pc = "counted",
                                           !.counted = c, !.verdict = v]]
              /\ tx[s].kind = "deactivate" => c = now
              /\ tx[s].kind = "feedback" /\ v # "over" => ~OverLimit(tx[s])
              /\ tx[s].kind = "deactivate" /\ v # "suspicious"
                   => ~mass_deactivate_suspicious(tx[s].key)
         /\ UNCHANGED <<corrections, audit, now, holder, requests, faults>>
<1> DEFINE c == IF tx[s].kind = "deactivate" THEN now ELSE 0
           v == CASE tx[s].kind = "feedback" /\ OverLimit(tx[s]) -> "over"
                  [] tx[s].kind = "deactivate"
                     /\ mass_deactivate_suspicious(tx[s].key) -> "suspicious"
                  [] OTHER -> "ok"
<1>1. tx[s] \in Tx /\ tx \in [Slots -> Tx] /\ now \in Nat
  BY DEF Typed, TypeOK
<1>2. c \in Nat BY <1>1
<1>3. /\ v \in {"ok", "over", "suspicious"}
      /\ tx[s].kind = "feedback" /\ v # "over" => ~OverLimit(tx[s])
      /\ tx[s].kind = "deactivate" /\ v # "suspicious"
           => ~mass_deactivate_suspicious(tx[s].key)
  OBVIOUS
<1>4. tx' = [tx EXCEPT ![s].pc = "counted", ![s].counted = c, ![s].verdict = v]
  BY DEF Count
<1> HIDE DEF v
<1>5. tx' = [tx EXCEPT ![s] = [tx[s] EXCEPT !.pc = "counted", !.counted = c,
                                            !.verdict = v]]
  BY <1>1, <1>4
<1>6. tx[s].kind = "deactivate" => c = now OBVIOUS
<1> HIDE DEF c
<1>7. \E x \in Nat, y \in {"ok", "over", "suspicious"} :
        /\ tx' = [tx EXCEPT ![s] = [tx[s] EXCEPT !.pc = "counted",
                                     !.counted = x, !.verdict = y]]
        /\ tx[s].kind = "deactivate" => x = now
        /\ tx[s].kind = "feedback" /\ y # "over" => ~OverLimit(tx[s])
        /\ tx[s].kind = "deactivate" /\ y # "suspicious"
             => ~mass_deactivate_suspicious(tx[s].key)
  BY <1>2, <1>3, <1>5, <1>6
<1> QED BY <1>7 DEF Count

LEMMA CountType ==
  ASSUME Typed, NEW s \in Slots, Count(s)
  PROVE  Typed'
<1>1. PICK c \in Nat, v \in {"ok", "over", "suspicious"} :
        tx' = [tx EXCEPT ![s] = [tx[s] EXCEPT !.pc = "counted",
                                 !.counted = c, !.verdict = v]]
  BY CountSteps
<1> DEFINE t == [tx[s] EXCEPT !.pc = "counted", !.counted = c, !.verdict = v]
<1>2. tx[s] \in Tx /\ tx \in [Slots -> Tx] BY DEF Typed, TypeOK
<1>3. t \in Tx BY <1>2 DEF Tx
<1>4. t.kind = tx[s].kind /\ t.device = tx[s].device /\ t.key = tx[s].key
      /\ t.row = tx[s].row
  BY <1>2 DEF Tx
<1>5. tx' = [tx EXCEPT ![s] = t] BY <1>1
<1> HIDE DEF t
<1>6. tx' \in [Slots -> Tx] BY <1>2, <1>3, <1>5
<1>7. Targets' BY <1>2, <1>4, <1>5 DEF Typed, Targets, Count
<1> QED BY <1>6, <1>7 DEF Count, Typed, TypeOK

LEMMA CommitFeedbackType ==
  ASSUME Typed, NEW s \in Slots, CommitFeedback(s)
  PROVE  Typed'
<1>1. holder' \in [Locks -> Slots \cup {None}]
  BY ReleasedType DEF CommitFeedback, Typed
<1>2. tx[s] \in Tx /\ tx \in [Slots -> Tx] BY DEF Typed, TypeOK
<1>3. CASE tx[s].verdict = "over"
  <2>1. [Idle EXCEPT !.pc = "refused"] \in Tx BY IdleType DEF Tx
  <2>2. tx' \in [Slots -> Tx] BY <1>2, <1>3, <2>1 DEF CommitFeedback
  <2>3. Targets'
    BY <1>2, <1>3 DEF CommitFeedback, Typed, Targets, Idle
  <2> QED BY <1>1, <1>3, <2>2, <2>3 DEF CommitFeedback, Typed, TypeOK
<1>4. CASE tx[s].verdict # "over"
  <2> DEFINE r == [device |-> tx[s].device, key |-> tx[s].key,
                   created_at |-> tx[s].begun, active |-> TRUE]
  <2>1. r \in Correction
    BY <1>2 DEF CommitFeedback, Typed, Targets, Tx, Correction
  <2>2. corrections' = Append(corrections, r) /\ tx' = [tx EXCEPT ![s] = Idle]
    BY <1>4 DEF CommitFeedback
  <2> HIDE DEF r
  <2>3. /\ corrections' \in Seq(Correction) /\ Len(corrections) \in Nat
        /\ Len(corrections') = Len(corrections) + 1
    BY <2>1, <2>2 DEF Typed, TypeOK
  <2>4. tx' \in [Slots -> Tx] BY <1>2, <2>2, IdleType
  <2>5. Targets' BY <1>2, <2>2, <2>3 DEF Typed, Targets, Idle
  <2> QED BY <1>1, <2>3, <2>4, <2>5 DEF CommitFeedback, Typed, TypeOK
<1> QED BY <1>3, <1>4

(* What CommitDeactivate writes.                                           *)
LEMMA DeactivateWrites ==
  ASSUME Typed, NEW s \in Slots, CommitDeactivate(s)
  PROVE  /\ corrections' \in Seq(Correction)
         /\ Len(corrections') = Len(corrections)
         /\ \A i \in 1..Len(corrections) :
              /\ corrections'[i].device = corrections[i].device
              /\ corrections'[i].key = corrections[i].key
              /\ corrections'[i].created_at = corrections[i].created_at
         /\ audit' \in Seq(Event)
         /\ Len(audit') = Len(audit) + 1 /\ Len(audit) \in Nat
         /\ \A i \in 1..Len(audit) : audit'[i] = audit[i]
         /\ audit'[Len(audit) + 1] =
              [key |-> tx[s].key, at |-> tx[s].begun,
               counted |-> tx[s].counted,
               suspicious |-> tx[s].verdict = "suspicious"]
<1> DEFINE i == tx[s].row
           e == [key |-> tx[s].key, at |-> tx[s].begun,
                 counted |-> tx[s].counted,
                 suspicious |-> tx[s].verdict = "suspicious"]
<1>1. /\ i \in 1..Len(corrections) /\ corrections \in Seq(Correction)
      /\ audit \in Seq(Event) /\ tx[s] \in Tx
  BY DEF CommitDeactivate, Typed, Targets, TypeOK
<1> DEFINE r == [corrections[i] EXCEPT !.active = FALSE]
<1>2. corrections[i] \in Correction BY <1>1, ElementOfSeq
<1>3. /\ r \in Correction /\ r.device = corrections[i].device
      /\ r.key = corrections[i].key /\ r.created_at = corrections[i].created_at
  BY <1>2 DEF Correction
<1>4. corrections' = [corrections EXCEPT ![i] = r]
  BY DEF CommitDeactivate
<1>5. e \in Event BY <1>1 DEF Tx, Event
<1>6. audit' = Append(audit, e) BY DEF CommitDeactivate
<1> HIDE DEF r, e, i
<1>7. /\ corrections' \in Seq(Correction)
      /\ Len(corrections') = Len(corrections)
      /\ \A j \in 1..Len(corrections) :
           corrections'[j] = IF j = i THEN r ELSE corrections[j]
  BY <1>1, <1>3, <1>4, ExceptSeq
<1>8. \A j \in 1..Len(corrections) :
        /\ corrections'[j].device = corrections[j].device
        /\ corrections'[j].key = corrections[j].key
        /\ corrections'[j].created_at = corrections[j].created_at
  BY <1>3, <1>7
<1>9. /\ audit' \in Seq(Event)
      /\ Len(audit') = Len(audit) + 1 /\ Len(audit) \in Nat
      /\ \A j \in 1..Len(audit) : audit'[j] = audit[j]
      /\ audit'[Len(audit) + 1] = e
  BY <1>1, <1>5, <1>6
<1> QED BY <1>7, <1>8, <1>9 DEF e

LEMMA CommitDeactivateType ==
  ASSUME Typed, NEW s \in Slots, CommitDeactivate(s)
  PROVE  Typed'
<1>1. holder' \in [Locks -> Slots \cup {None}]
  BY ReleasedType DEF CommitDeactivate, Typed
<1>2. tx' \in [Slots -> Tx]
  BY IdleType DEF CommitDeactivate, Typed, TypeOK
<1>3. Targets'
  BY DeactivateWrites DEF CommitDeactivate, Typed, TypeOK, Targets, Idle
<1> QED
  BY <1>1, <1>2, <1>3, DeactivateWrites DEF CommitDeactivate, Typed, TypeOK

LEMMA TypeStep == Typed /\ [Next]_vars => Typed'
<1> SUFFICES ASSUME Typed, [Next]_vars PROVE Typed' OBVIOUS
<1>1. faults \in 0..MaxFaults BY DEF Typed, TypeOK
<1>2. ASSUME NEW s \in Slots, Serve(s) PROVE Typed'
  <2>1. CASE Begin(s) BY <2>1, BeginType
  <2>2. CASE Acquire(s) BY <2>2, AcquireType
  <2>3. CASE Count(s) BY <2>3, CountType
  <2>4. CASE CommitFeedback(s) BY <2>4, CommitFeedbackType
  <2>5. CASE RecordRefusal(s)
    <3>1. tx' \in [Slots -> Tx]
      BY <2>5, IdleType DEF RecordRefusal, Typed, TypeOK
    <3>2. Targets' BY <2>5 DEF RecordRefusal, Typed, TypeOK, Targets, Idle
    <3> QED BY <2>5, <3>1, <3>2 DEF RecordRefusal, Typed, TypeOK
  <2>6. CASE CommitDeactivate(s) BY <2>6, CommitDeactivateType
  <2>7. CASE CommitPersist(s) BY <2>7, <1>1, RollbackType DEF CommitPersist
  <2>8. CASE DeadlockAbort(s) BY <2>8, <1>1, RollbackType DEF DeadlockAbort
  <2> QED BY <1>2, <2>1, <2>2, <2>3, <2>4, <2>5, <2>6, <2>7, <2>8 DEF Serve
<1>3. ASSUME NEW s \in Slots, Fail(s) PROVE Typed'
  <2>1. faults' \in 0..MaxFaults BY <1>1, <1>3, ConstantTypes DEF Fail
  <2> QED BY <1>3, <2>1, RollbackType DEF Fail
<1>4. ASSUME NEW s \in Slots, Call(s) PROVE Typed' BY <1>4, CallType
<1>5. CASE Tick
  BY <1>5, ConstantTypes DEF Tick, Typed, TypeOK, Targets
<1>6. CASE UNCHANGED vars BY <1>6 DEF vars, Typed, TypeOK, Targets
<1> QED BY <1>2, <1>3, <1>4, <1>5, <1>6 DEF Next

-----------------------------------------------------------------------------
(* The order of the locks.  What a request still has to lock tells what it  *)
(* holds: a request of an operator climbs from devices to keys to rows.     *)

Rows == {Row(c) : c \in Ids}
HoldsNothing(s) == \A l \in Locks : holder[l] # s

FeedbackOrder(s) ==
  LET d == Device(tx[s].device)
      k == Key(tx[s].key)
  IN \/ tx[s].todo = <<d, k>> /\ HoldsNothing(s)
     \/ /\ tx[s].todo = <<k>>
        /\ holder[d] = s /\ \A l \in Locks : holder[l] = s => l = d
     \/ tx[s].todo = <<>> /\ holder[d] = s /\ holder[k] = s

DeactivateOrder(s) ==
  LET k == Key(tx[s].key)
      r == Row(tx[s].row)
  IN \/ tx[s].todo = <<k, r>> /\ tx[s].key # None /\ HoldsNothing(s)
     \/ /\ tx[s].todo = <<r>>
        /\ tx[s].key # None => holder[k] = s
        /\ \A l \in Locks : holder[l] = s => tx[s].key # None /\ l = k
     \/ tx[s].todo = <<>> /\ (tx[s].key # None => holder[k] = s)

PersistOrder(s) ==
  \/ /\ tx[s].todo # <<>> /\ HoldsNothing(s)
     /\ \A i \in 2..Len(tx[s].todo) : tx[s].todo[i] \in Rows
  \/ \A i \in 1..Len(tx[s].todo) : tx[s].todo[i] \in Rows

OrderOf(s) ==
  /\ tx[s].pc \in {"called", "open", "counted"} =>
       \/ tx[s].kind = "feedback" /\ FeedbackOrder(s)
       \/ tx[s].kind = "deactivate" /\ DeactivateOrder(s)
       \/ tx[s].kind = "persist" /\ PersistOrder(s)
  /\ tx[s].pc = "counted" => tx[s].todo = <<>>
  /\ \A l \in Locks : holder[l] = s => InTransaction(s)

Ordered == \A s \in Slots : OrderOf(s)

(* A step of one request leaves the others their locks.                    *)
LEMMA Frame ==
  ASSUME Typed, Ordered, NEW s \in Slots,
         \A t \in Slots \ {s} :
           /\ tx'[t] = tx[t]
           /\ \A l \in Locks : holder'[l] = t <=> holder[l] = t,
         OrderOf(s)'
  PROVE  Ordered'
<1> SUFFICES ASSUME NEW t \in Slots, t # s PROVE OrderOf(t)'
  BY DEF Ordered
<1>1. /\ tx'[t] = tx[t] /\ OrderOf(t)
      /\ \A l \in Locks : holder'[l] = t <=> holder[l] = t
  BY DEF Ordered
<1>2. InTransaction(t)' <=> InTransaction(t) BY <1>1 DEF InTransaction
<1>3. HoldsNothing(t)' <=> HoldsNothing(t) BY <1>1 DEF HoldsNothing
<1>4. /\ tx[t].kind = "feedback" =>
           Device(tx[t].device) \in Locks /\ Key(tx[t].key) \in Locks
      /\ tx[t].key # None => Key(tx[t].key) \in Locks
  <2>1. tx[t].key \in Keys \cup {None} BY DEF Typed, TypeOK, Tx
  <2>2. tx[t].kind = "feedback" =>
          tx[t].device \in Devices /\ tx[t].key \in Keys
    BY DEF Typed, Targets
  <2> QED BY <2>1, <2>2 DEF Locks
<1>5. tx[t].kind = "feedback" /\ FeedbackOrder(t) => FeedbackOrder(t)'
  BY <1>1, <1>3, <1>4 DEF FeedbackOrder
<1>6. DeactivateOrder(t) => DeactivateOrder(t)'
  BY <1>1, <1>3, <1>4 DEF DeactivateOrder
<1>7. PersistOrder(t) => PersistOrder(t)'
  BY <1>1, <1>3 DEF PersistOrder
<1> QED BY <1>1, <1>2, <1>5, <1>6, <1>7 DEF OrderOf

LEMMA OrderedInit == Init => Ordered
BY ConstantTypes DEF Init, Ordered, OrderOf, Idle

LEMMA OrderedRequest ==
  ASSUME Typed, Ordered, NEW s \in Slots, NEW call \in Tx, Request(s, call)
  PROVE  /\ tx'[s] = call /\ HoldsNothing(s)'
         /\ OrderOf(s)' => Ordered'
<1>1. tx'[s] = call /\ \A t \in Slots \ {s} : tx'[t] = tx[t]
  BY DEF Request, Typed, TypeOK
<1>2. holder' = holder BY DEF Request
<1>3. HoldsNothing(s)
  BY DEF Request, Ordered, OrderOf, InTransaction, HoldsNothing
<1>4. HoldsNothing(s)' BY <1>2, <1>3 DEF HoldsNothing
<1>5. OrderOf(s)' => Ordered' BY <1>1, <1>2, Frame
<1> QED BY <1>1, <1>4, <1>5

LEMMA OrderedCall ==
  ASSUME Typed, Ordered, NEW s \in Slots, Call(s)
  PROVE  Ordered'
<1> USE ConstantTypes
<1>1. ASSUME NEW f \in Feedbacks, CreateFeedback(s, f[1], f[2]) PROVE Ordered'
  <2> DEFINE call == [Idle EXCEPT !.pc = "called", !.kind = "feedback",
                        !.device = f[1], !.key = f[2], !.since = now - Hour,
                        !.todo = FeedbackLocks(f[1], f[2])]
  <2>1. Request(s, call) BY <1>1 DEF CreateFeedback
  <2>2. /\ call.pc = "called" /\ call.kind = "feedback"
        /\ call.device = f[1] /\ call.key = f[2]
        /\ call.todo = <<Device(f[1]), Key(f[2])>>
    BY DEF Idle, FeedbackLocks
  <2>3. call \in Tx
    <3>1. f[1] \in Devices /\ f[2] \in Keys BY CorrectionsAssumption
    <3>2. FeedbackLocks(f[1], f[2]) \in Seq(Locks)
      BY <3>1 DEF FeedbackLocks, Locks
    <3>3. now - Hour \in Nat BY DEF Typed, TypeOK
    <3> QED BY <3>1, <3>2, <3>3 DEF Tx, Kinds, Idle
  <2> HIDE DEF call
  <2>4. /\ tx'[s] = call /\ HoldsNothing(s)'
        /\ OrderOf(s)' => Ordered'
    BY <2>1, <2>3, OrderedRequest
  <2>5. OrderOf(s)'
    BY <2>2, <2>4 DEF OrderOf, FeedbackOrder, HoldsNothing
  <2> QED BY <2>4, <2>5
<1>2. ASSUME NEW x \in Deactivations, Deactivate(s, x[1], x[2]) PROVE Ordered'
  <2> DEFINE call == [Idle EXCEPT !.pc = "called", !.kind = "deactivate",
                        !.row = x[1], !.key = x[2],
                        !.todo = DeactivateLocks(x[2], x[1])]
  <2>1. Request(s, call) BY <1>2 DEF Deactivate
  <2>2. /\ call.pc = "called" /\ call.kind = "deactivate"
        /\ call.row = x[1] /\ call.key = x[2]
        /\ call.todo = DeactivateLocks(x[2], x[1])
    BY DEF Idle
  <2>3. /\ x[2] = None => DeactivateLocks(x[2], x[1]) = <<Row(x[1])>>
        /\ x[2] # None =>
             DeactivateLocks(x[2], x[1]) = <<Key(x[2]), Row(x[1])>>
    BY DEF DeactivateLocks
  <2>4. call \in Tx
    <3>1. x[1] \in Ids /\ x[2] \in Keys \cup {None} BY CorrectionsAssumption
    <3>2. Row(x[1]) \in Locks /\ (x[2] # None => Key(x[2]) \in Locks)
      BY <3>1 DEF Locks
    <3>3. CASE x[2] = None
      <4>1. <<Row(x[1])>> \in Seq(Locks) BY <3>2
      <4> QED BY <2>3, <3>1, <3>3, <4>1 DEF Tx, Kinds, Idle
    <3>4. CASE x[2] # None
      <4>1. <<Key(x[2]), Row(x[1])>> \in Seq(Locks) BY <3>2, <3>4
      <4> QED BY <2>3, <3>1, <3>4, <4>1 DEF Tx, Kinds, Idle
    <3> QED BY <3>3, <3>4
  <2> HIDE DEF call
  <2>5. /\ tx'[s] = call /\ HoldsNothing(s)'
        /\ OrderOf(s)' => Ordered'
    BY <2>1, <2>4, OrderedRequest
  <2>6. OrderOf(s)'
    BY <2>2, <2>3, <2>5 DEF OrderOf, DeactivateOrder, HoldsNothing
  <2> QED BY <2>5, <2>6
<1>3. ASSUME NEW o \in Outcomes, PersistOutcome(s, o[1], o[2]) PROVE Ordered'
  <2> DEFINE call == [Idle EXCEPT !.pc = "called", !.kind = "persist",
                        !.device = o[1], !.todo = PersistLocks(o[1], o[2])]
             rows == [i \in DOMAIN o[2] |-> Row(o[2][i])]
  <2>1. Request(s, call) BY <1>3 DEF PersistOutcome
  <2>2. /\ call.pc = "called" /\ call.kind = "persist"
        /\ call.todo = PersistLocks(o[1], o[2])
    BY DEF Idle
  <2>3. o[1] \in Devices /\ o[2] \in Seq(Ids) BY CorrectionsAssumption
  <2>4. rows \in Seq(Rows) /\ rows \in Seq(Locks)
    <3>1. \A i \in 1..Len(o[2]) : o[2][i] \in Ids BY <2>3, ElementOfSeq
    <3>2. DOMAIN o[2] = 1..Len(o[2]) /\ Len(o[2]) \in Nat
      BY <2>3, LenProperties
    <3>3. \A i \in 1..Len(o[2]) : Row(o[2][i]) \in Rows /\ Row(o[2][i]) \in Locks
      BY <3>1 DEF Locks, Rows
    <3> QED BY <3>2, <3>3
  <2>5. <<Device(o[1])>> \in Seq(Locks) /\ Len(<<Device(o[1])>>) = 1
    BY <2>3 DEF Locks
  <2>6. call.todo = <<Device(o[1])>> \o rows BY <2>2 DEF PersistLocks
  <2> HIDE DEF rows
  <2>7. /\ call.todo \in Seq(Locks) /\ Len(call.todo) = 1 + Len(rows)
        /\ \A i \in 2..Len(call.todo) : call.todo[i] \in Rows
    <3> DEFINE device == <<Device(o[1])>>
    <3>0. device \in Seq(Locks) /\ Len(device) = 1 /\ call.todo = device \o rows
      BY <2>5, <2>6
    <3> HIDE DEF device, call
    <3>1. /\ call.todo \in Seq(Locks) /\ Len(call.todo) = 1 + Len(rows)
          /\ \A i \in 1..(1 + Len(rows)) :
               call.todo[i] = IF i <= 1 THEN device[i] ELSE rows[i - 1]
      <4>1. /\ device \o rows \in Seq(Locks)
            /\ Len(device \o rows) = Len(device) + Len(rows)
            /\ \A i \in 1..Len(device) + Len(rows) : (device \o rows)[i] =
                 IF i <= Len(device) THEN device[i] ELSE rows[i - Len(device)]
        BY <2>4, <3>0, ConcatProperties
      <4> QED BY <3>0, <4>1
    <3>2. Len(rows) \in Nat /\ \A j \in 1..Len(rows) : rows[j] \in Rows
      BY <2>4, LenProperties, ElementOfSeq
    <3>3. \A i \in 2..(1 + Len(rows)) : call.todo[i] \in Rows
      <4> SUFFICES ASSUME NEW i \in 2..(1 + Len(rows)) PROVE call.todo[i] \in Rows
        OBVIOUS
      <4>1. i \in 1..(1 + Len(rows)) /\ ~(i <= 1) /\ i - 1 \in 1..Len(rows)
        BY <3>2
      <4> QED BY <3>1, <3>2, <4>1
    <3> QED BY <3>1, <3>3
  <2>8. call \in Tx
    <3>1. PersistLocks(o[1], o[2]) \in Seq(Locks) BY <2>2, <2>7
    <3> QED BY <2>3, <3>1 DEF Tx, Kinds, Idle
  <2>9. call.todo # <<>>
    <3>1. Len(rows) \in Nat BY <2>4
    <3> QED BY <2>7, <3>1
  <2> HIDE DEF call
  <2>10. /\ tx'[s] = call /\ HoldsNothing(s)'
         /\ OrderOf(s)' => Ordered'
    BY <2>1, <2>8, OrderedRequest
  <2>11. OrderOf(s)'
    BY <2>2, <2>7, <2>9, <2>10 DEF OrderOf, PersistOrder, HoldsNothing
  <2> QED BY <2>10, <2>11
<1> QED BY <1>1, <1>2, <1>3 DEF Call

(* A transaction that ends holds nothing.                                  *)
LEMMA OrderedEnd ==
  ASSUME Typed, Ordered, NEW s \in Slots, NEW t \in Tx,
         t.pc \in {"idle", "refused"}, tx' = [tx EXCEPT ![s] = t],
         holder' = Released(s)
  PROVE  Ordered'
<1>1. tx'[s] = t /\ \A u \in Slots \ {s} : tx'[u] = tx[u]
  BY DEF Typed, TypeOK
<1>2. \A l \in Locks : /\ holder'[l] # s
                      /\ \A u \in Slots \ {s} : holder'[l] = u <=> holder[l] = u
  BY ConstantTypes DEF Released
<1>3. OrderOf(s)' BY <1>1, <1>2 DEF OrderOf
<1> QED BY <1>1, <1>2, <1>3, Frame

LEMMA OrderedRollback ==
  ASSUME Typed, Ordered, NEW s \in Slots, Rollback(s)
  PROVE  Ordered'
<1>1. Idle.pc = "idle" BY DEF Idle
<1> QED BY <1>1, IdleType, OrderedEnd DEF Rollback

LEMMA OrderedBegin ==
  ASSUME Typed, Ordered, NEW s \in Slots, Begin(s)
  PROVE  Ordered'
<1>1. /\ holder' = holder /\ \A t \in Slots \ {s} : tx'[t] = tx[t]
      /\ tx[s].pc = "called" /\ tx'[s].pc = "open"
      /\ tx'[s].kind = tx[s].kind /\ tx'[s].todo = tx[s].todo
      /\ tx'[s].key = tx[s].key /\ tx'[s].row = tx[s].row
      /\ tx'[s].device = tx[s].device
  BY DEF Begin, Typed, TypeOK, Tx
<1>2. OrderOf(s) BY DEF Ordered
<1>3. HoldsNothing(s)' <=> HoldsNothing(s) BY <1>1 DEF HoldsNothing
<1>4. FeedbackOrder(s) => FeedbackOrder(s)' BY <1>1, <1>3 DEF FeedbackOrder
<1>5. DeactivateOrder(s) => DeactivateOrder(s)'
  BY <1>1, <1>3 DEF DeactivateOrder
<1>6. PersistOrder(s) => PersistOrder(s)' BY <1>1, <1>3 DEF PersistOrder
<1>7. OrderOf(s)'
  BY <1>1, <1>2, <1>4, <1>5, <1>6 DEF OrderOf, InTransaction
<1> QED BY <1>1, <1>7, Frame

LEMMA OrderedCount ==
  ASSUME Typed, Ordered, NEW s \in Slots, Count(s)
  PROVE  Ordered'
<1>1. /\ holder' = holder /\ \A t \in Slots \ {s} : tx'[t] = tx[t]
      /\ tx[s].pc = "open" /\ tx'[s].pc = "counted" /\ tx[s].todo = <<>>
      /\ tx'[s].kind = tx[s].kind /\ tx'[s].todo = tx[s].todo
      /\ tx'[s].key = tx[s].key /\ tx'[s].row = tx[s].row
      /\ tx'[s].device = tx[s].device
  BY DEF Count, Typed, TypeOK, Tx
<1>2. OrderOf(s) BY DEF Ordered
<1>3. HoldsNothing(s)' <=> HoldsNothing(s) BY <1>1 DEF HoldsNothing
<1>4. FeedbackOrder(s) => FeedbackOrder(s)' BY <1>1, <1>3 DEF FeedbackOrder
<1>5. DeactivateOrder(s) => DeactivateOrder(s)'
  BY <1>1, <1>3 DEF DeactivateOrder
<1>6. PersistOrder(s) => PersistOrder(s)' BY <1>1, <1>3 DEF PersistOrder
<1>7. OrderOf(s)'
  BY <1>1, <1>2, <1>4, <1>5, <1>6 DEF OrderOf, InTransaction
<1> QED BY <1>1, <1>7, Frame

LEMMA OrderedAcquire ==
  ASSUME Typed, Ordered, NEW s \in Slots, Acquire(s)
  PROVE  Ordered'
<1> USE ConstantTypes
<1>1. CASE Gone(s) BY <1>1, OrderedRollback DEF Acquire
<1>2. CASE ~Gone(s)
  <2> DEFINE w == Wanted(s)
  <2>1. /\ tx[s].pc = "open" /\ tx[s].todo # <<>> /\ holder[w] = None
        /\ holder' = [holder EXCEPT ![w] = s]
        /\ tx' = [tx EXCEPT ![s].todo = Tail(tx[s].todo)]
    BY <1>2 DEF Acquire, Waiting
  <2>2. /\ \A t \in Slots \ {s} : tx'[t] = tx[t]
        /\ tx'[s].pc = "open" /\ tx'[s].todo = Tail(tx[s].todo)
        /\ tx'[s].kind = tx[s].kind /\ tx'[s].key = tx[s].key
        /\ tx'[s].row = tx[s].row /\ tx'[s].device = tx[s].device
    BY <2>1 DEF Typed, TypeOK, Tx
  <2>3. tx[s].todo \in Seq(Locks) /\ w \in Locks
    <3>1. tx[s].todo \in Seq(Locks) BY DEF Typed, TypeOK, Tx
    <3> QED BY <2>1, <3>1, HeadTailProperties DEF Wanted
  <2>4. \A l \in Locks : holder'[l] = IF l = w THEN s ELSE holder[l]
    BY <2>1 DEF Typed, TypeOK
  <2> HIDE DEF w
  <2>5. \A t \in Slots \ {s} : \A l \in Locks : holder'[l] = t <=> holder[l] = t
    BY <2>1, <2>4
  <2>6. OrderOf(s) BY DEF Ordered
  <2>7. ASSUME tx[s].kind = "feedback", FeedbackOrder(s)
        PROVE  FeedbackOrder(s)'
    <3> DEFINE d == Device(tx[s].device)
               k == Key(tx[s].key)
    <3>1. d \in Locks /\ k \in Locks /\ d # k
      BY <2>7 DEF Typed, Targets, Locks, Device, Key
    <3>2. d' = d /\ k' = k BY <2>2
    <3> HIDE DEF d, k
    <3>3. CASE tx[s].todo = <<d, k>> /\ HoldsNothing(s)
      <4>1. w = d /\ tx'[s].todo = <<k>> BY <2>2, <3>3 DEF w, Wanted
      <4> QED BY <2>4, <3>1, <3>2, <3>3, <4>1 DEF FeedbackOrder, HoldsNothing, d, k
    <3>4. CASE tx[s].todo = <<k>> /\ holder[d] = s
      <4>1. w = k /\ tx'[s].todo = <<>> BY <2>2, <3>4 DEF w, Wanted
      <4> QED BY <2>4, <3>1, <3>2, <3>4, <4>1 DEF FeedbackOrder, d, k
    <3> QED BY <2>1, <2>7, <3>3, <3>4 DEF FeedbackOrder, d, k
  <2>8. ASSUME tx[s].kind = "deactivate", DeactivateOrder(s)
        PROVE  DeactivateOrder(s)'
    <3> DEFINE k == Key(tx[s].key)
               r == Row(tx[s].row)
    <3>1. k # r /\ (tx[s].key # None => k \in Locks)
      <4>1. tx[s].key \in Keys \cup {None} BY DEF Typed, TypeOK, Tx
      <4> QED BY <4>1 DEF Locks, Key, Row
    <3>2. k' = k /\ r' = r BY <2>2
    <3> HIDE DEF k, r
    <3>3. CASE tx[s].todo = <<k, r>> /\ tx[s].key # None /\ HoldsNothing(s)
      <4>1. w = k /\ tx'[s].todo = <<r>> BY <2>2, <3>3 DEF w, Wanted
      <4> QED BY <2>2, <2>4, <3>1, <3>2, <3>3, <4>1
              DEF DeactivateOrder, HoldsNothing, k, r
    <3>4. CASE tx[s].todo = <<r>> /\ (tx[s].key # None => holder[k] = s)
      <4>1. w = r /\ tx'[s].todo = <<>> BY <2>2, <3>4 DEF w, Wanted
      <4> QED BY <2>2, <2>4, <3>1, <3>2, <3>4, <4>1 DEF DeactivateOrder, k, r
    <3> QED BY <2>1, <2>8, <3>3, <3>4 DEF DeactivateOrder, k, r
  <2>9. ASSUME PersistOrder(s) PROVE PersistOrder(s)'
    <3>1. /\ Len(tx'[s].todo) = Len(tx[s].todo) - 1
          /\ Len(tx[s].todo) \in Nat
          /\ \A i \in 1..Len(tx'[s].todo) : tx'[s].todo[i] = tx[s].todo[i + 1]
      <4> DEFINE todo == tx[s].todo
      <4>1. todo \in Seq(Locks) /\ todo # <<>> /\ tx'[s].todo = Tail(todo)
        BY <2>1, <2>2, <2>3
      <4> HIDE DEF todo
      <4>2. /\ Len(Tail(todo)) = Len(todo) - 1 /\ Len(todo) \in Nat
            /\ \A i \in 1..Len(Tail(todo)) : Tail(todo)[i] = todo[i + 1]
        BY <4>1, HeadTailProperties, LenProperties
      <4>3. todo = tx[s].todo BY DEF todo
      <4> QED BY <4>1, <4>2, <4>3
    <3>2. \A i \in 2..Len(tx[s].todo) : tx[s].todo[i] \in Rows
      BY <2>9, <3>1 DEF PersistOrder
    <3>3. \A i \in 1..Len(tx'[s].todo) : tx'[s].todo[i] \in Rows
      <4> SUFFICES ASSUME NEW i \in 1..Len(tx'[s].todo)
                   PROVE  tx'[s].todo[i] \in Rows
        OBVIOUS
      <4>1. i + 1 \in 2..Len(tx[s].todo) BY <3>1
      <4> QED BY <3>1, <3>2, <4>1
    <3> QED BY <3>3 DEF PersistOrder, Rows
  <2>10. \A l \in Locks : holder'[l] = s => InTransaction(s)'
    BY <2>2 DEF InTransaction
  <2>11. OrderOf(s)'
    BY <2>1, <2>2, <2>6, <2>7, <2>8, <2>9, <2>10 DEF OrderOf
  <2> QED BY <2>2, <2>5, <2>11, Frame
<1> QED BY <1>1, <1>2

LEMMA OrderedStep ==
  ASSUME Typed, Ordered, [Next]_vars
  PROVE  Ordered'
<1>1. ASSUME NEW s \in Slots, CommitFeedback(s) PROVE Ordered'
  <2>1. /\ Idle.pc = "idle"
        /\ [Idle EXCEPT !.pc = "refused"] \in Tx
        /\ [Idle EXCEPT !.pc = "refused"].pc = "refused"
    BY IdleType DEF Tx, Idle
  <2> QED BY <1>1, <2>1, IdleType, OrderedEnd DEF CommitFeedback
<1>2. ASSUME NEW s \in Slots, RecordRefusal(s) PROVE Ordered'
  <2>1. /\ tx[s].pc = "refused" /\ holder' = holder /\ tx'[s] = Idle
        /\ \A t \in Slots \ {s} : tx'[t] = tx[t]
    BY <1>2 DEF RecordRefusal, Typed, TypeOK
  <2>2. \A l \in Locks : holder[l] # s
    BY <2>1 DEF Ordered, OrderOf, InTransaction
  <2>3. OrderOf(s)' BY <2>1, <2>2 DEF OrderOf, Idle
  <2> QED BY <2>1, <2>3, Frame
<1>3. ASSUME NEW s \in Slots, CommitDeactivate(s) PROVE Ordered'
  <2>1. Idle.pc = "idle" BY DEF Idle
  <2> QED BY <1>3, <2>1, IdleType, OrderedEnd DEF CommitDeactivate
<1>4. ASSUME NEW s \in Slots, CommitPersist(s) \/ DeadlockAbort(s) \/ Fail(s)
      PROVE  Ordered'
  BY <1>4, OrderedRollback DEF CommitPersist, DeadlockAbort, Fail
<1>5. ASSUME Tick \/ UNCHANGED vars PROVE Ordered'
  BY <1>5 DEF Tick, vars, Ordered, OrderOf, FeedbackOrder, DeactivateOrder,
              PersistOrder, HoldsNothing, InTransaction
<1> QED
  BY <1>1, <1>2, <1>3, <1>4, <1>5, OrderedCall, OrderedBegin, OrderedAcquire,
     OrderedCount
     DEF Next, Serve

-----------------------------------------------------------------------------
(* Who waits, and is waited for, holds a lock: as an operator, the lock     *)
(* below the one it wants.                                                 *)

LEMMA Holding ==
  ASSUME Typed, Ordered, NEW s \in Slots, Waiting(s), ~HoldsNothing(s)
  PROVE  \/ /\ tx[s].kind = "feedback" /\ Wanted(s)[1] = "key"
            /\ \A l \in Locks : holder[l] = s => l[1] = "device"
         \/ /\ tx[s].kind = "deactivate" /\ Wanted(s)[1] = "row"
            /\ \A l \in Locks : holder[l] = s => l[1] = "key"
         \/ Persists(s) /\ Wanted(s)[1] = "row"
<1>1. /\ tx[s].pc = "open" /\ tx[s].todo # <<>> /\ OrderOf(s)
      /\ tx[s].todo \in Seq(Locks)
  BY DEF Waiting, Ordered, Typed, TypeOK, Tx
<1>2. CASE tx[s].kind = "feedback" /\ FeedbackOrder(s)
  <2>1. /\ tx[s].todo = <<Key(tx[s].key)>>
        /\ \A l \in Locks : holder[l] = s => l = Device(tx[s].device)
    BY <1>1, <1>2 DEF FeedbackOrder
  <2> QED BY <1>2, <2>1 DEF Wanted, Key, Device
<1>3. CASE tx[s].kind = "deactivate" /\ DeactivateOrder(s)
  <2>1. /\ tx[s].todo = <<Row(tx[s].row)>>
        /\ \A l \in Locks : holder[l] = s => l = Key(tx[s].key)
    BY <1>1, <1>3 DEF DeactivateOrder
  <2> QED BY <1>3, <2>1 DEF Wanted, Key, Row
<1>4. CASE tx[s].kind = "persist" /\ PersistOrder(s)
  <2>1. \A i \in 1..Len(tx[s].todo) : tx[s].todo[i] \in Rows
    BY <1>4 DEF PersistOrder
  <2>2. Len(tx[s].todo) \in Nat /\ Len(tx[s].todo) # 0
    BY <1>1, EmptySeq, LenProperties
  <2>3. Head(tx[s].todo) \in Rows BY <1>1, <2>1, <2>2
  <2> QED BY <1>4, <2>3 DEF Wanted, Rows, Row, Persists
<1> QED BY <1>1, <1>2, <1>3, <1>4 DEF OrderOf

LEMMA ThreeDeep ==
  ASSUME Typed, Ordered, NEW s \in Slots, NEW t \in Slots, NEW u \in Slots,
         NEW v \in Slots,
         Waiting(s), WaitsFor(t, s), WaitsFor(u, t), WaitsFor(v, u)
  PROVE  Persists(s)
<1>1. /\ Waiting(t) /\ Waiting(u) /\ Waiting(v)
      /\ holder[Wanted(t)] = s /\ holder[Wanted(u)] = t /\ holder[Wanted(v)] = u
  BY DEF WaitsFor
<1>2. \A x \in Slots : Waiting(x) => Wanted(x) \in Locks
  <2> SUFFICES ASSUME NEW x \in Slots, Waiting(x) PROVE Wanted(x) \in Locks
    OBVIOUS
  <2>1. tx[x].todo \in Seq(Locks) /\ tx[x].todo # <<>>
    BY DEF Waiting, Typed, TypeOK, Tx
  <2> QED BY <2>1, HeadTailProperties DEF Wanted
<1>3. ~HoldsNothing(s) /\ ~HoldsNothing(t) /\ ~HoldsNothing(u)
  BY <1>1, <1>2 DEF HoldsNothing
<1>4. Wanted(u)[1] \in {"key", "row"} BY <1>1, <1>3, Holding
<1>5. Wanted(t)[1] \in {"key", "row"} /\ ~(tx[t].kind = "feedback")
  BY <1>1, <1>2, <1>3, <1>4, Holding DEF Persists
<1>6. Wanted(t)[1] = "row" BY <1>1, <1>3, <1>5, Holding
<1> QED BY <1>1, <1>2, <1>3, <1>6, Holding

LEMMA OrderedIsEnough == Typed /\ Ordered => NoOpsDeadlock
<1> SUFFICES ASSUME Typed, Ordered, NEW S \in SUBSET Slots, Circle(S), NEW s \in S
             PROVE  Persists(s)
  BY DEF NoOpsDeadlock
<1>1. \A x \in S : \E y \in S : WaitsFor(y, x) BY DEF Circle
<1>2. PICK t \in S : WaitsFor(t, s) BY <1>1
<1>3. PICK u \in S : WaitsFor(u, t) BY <1>1
<1>4. PICK v \in S : WaitsFor(v, u) BY <1>1
<1>5. Waiting(s) BY DEF Circle, WaitsFor
<1> QED BY <1>2, <1>3, <1>4, <1>5, ThreeDeep

(* No request of an operator is ever in a deadlock.                        *)
THEOREM NoDeadlock == Spec => []NoOpsDeadlock
<1>1. Init => Typed /\ Ordered BY TypeInit, OrderedInit
<1>2. (Typed /\ Ordered) /\ [Next]_vars => (Typed /\ Ordered)'
  BY TypeStep, OrderedStep
<1>3. Typed /\ Ordered => NoOpsDeadlock BY OrderedIsEnough
<1> QED BY <1>1, <1>2, <1>3, PTL DEF Spec

(* TypeOK, of Corrections.                                                 *)
THEOREM TypeCorrect == Spec => []TypeOK
<1>1. Typed => TypeOK BY DEF Typed
<1> QED BY <1>1, TypeInit, TypeStep, PTL DEF Spec

-----------------------------------------------------------------------------
(* The limits of corrections and the alert of deactivations.  Whoever has   *)
(* counted holds the lock of what it counted (Ordered), so that what it     *)
(* counted is still so when it commits.                                     *)

(* How a step changes one transaction.                                     *)
LEMMA TxStep ==
  ASSUME Typed, NEW s \in Slots, [Next]_vars
  PROVE  \/ tx'[s] = tx[s]
         \/ tx'[s].pc \in {"idle", "refused"}
         \/ /\ tx'[s].pc = "called" /\ now' = now
            /\ tx'[s].kind = "feedback" => tx'[s].since + Hour = now
         \/ /\ tx[s].pc = "called" /\ tx'[s].pc = "open" /\ now' = now
            /\ tx'[s].kind = tx[s].kind /\ tx'[s].since = tx[s].since
            /\ tx'[s].begun = now
         \/ /\ tx[s].pc = "open" /\ tx'[s].pc = "open" /\ now' = now
            /\ tx'[s].kind = tx[s].kind /\ tx'[s].since = tx[s].since
            /\ tx'[s].begun = tx[s].begun
         \/ Count(s)
<1>0. tx[s] \in Tx /\ tx \in [Slots -> Tx] /\ now \in Nat /\ now >= Hour /\ Hour \in Nat
  BY ConstantTypes DEF Typed, TypeOK
<1>1. ASSUME NEW t \in Slots, Call(t)
      PROVE  \/ tx'[s] = tx[s]
             \/ /\ tx'[s].pc = "called" /\ now' = now
                /\ tx'[s].kind = "feedback" => tx'[s].since + Hour = now
  <2>1. ASSUME NEW c, Request(t, c), c.pc = "called",
               c.kind = "feedback" => c.since + Hour = now
        PROVE  \/ tx'[s] = tx[s]
               \/ /\ tx'[s].pc = "called" /\ now' = now
                  /\ tx'[s].kind = "feedback" => tx'[s].since + Hour = now
    BY <1>0, <2>1 DEF Request
  <2>2. ASSUME NEW f \in Feedbacks, CreateFeedback(t, f[1], f[2])
        PROVE  \E c : /\ Request(t, c) /\ c.pc = "called"
                      /\ c.kind = "feedback" => c.since + Hour = now
    <3> DEFINE c == [Idle EXCEPT !.pc = "called", !.kind = "feedback",
                       !.device = f[1], !.key = f[2], !.since = now - Hour,
                       !.todo = FeedbackLocks(f[1], f[2])]
    <3>1. Request(t, c) BY <2>2 DEF CreateFeedback
    <3>2. c.pc = "called" /\ c.since + Hour = now BY <1>0 DEF Idle
    <3> HIDE DEF c
    <3> QED BY <3>1, <3>2
  <2>3. ASSUME NEW x \in Deactivations, Deactivate(t, x[1], x[2])
        PROVE  \E c : /\ Request(t, c) /\ c.pc = "called"
                      /\ c.kind = "feedback" => c.since + Hour = now
    <3> DEFINE c == [Idle EXCEPT !.pc = "called", !.kind = "deactivate",
                       !.row = x[1], !.key = x[2],
                       !.todo = DeactivateLocks(x[2], x[1])]
    <3>1. Request(t, c) BY <2>3 DEF Deactivate
    <3>2. c.pc = "called" /\ c.kind = "deactivate" BY DEF Idle
    <3> HIDE DEF c
    <3> QED BY <3>1, <3>2
  <2>4. ASSUME NEW o \in Outcomes, PersistOutcome(t, o[1], o[2])
        PROVE  \E c : /\ Request(t, c) /\ c.pc = "called"
                      /\ c.kind = "feedback" => c.since + Hour = now
    <3> DEFINE c == [Idle EXCEPT !.pc = "called", !.kind = "persist",
                       !.device = o[1], !.todo = PersistLocks(o[1], o[2])]
    <3>1. Request(t, c) BY <2>4 DEF PersistOutcome
    <3>2. c.pc = "called" /\ c.kind = "persist" BY DEF Idle
    <3> HIDE DEF c
    <3> QED BY <3>1, <3>2
  <2> QED BY <1>1, <2>1, <2>2, <2>3, <2>4 DEF Call
<1>2. ASSUME NEW t \in Slots, Begin(t)
      PROVE  \/ tx'[s] = tx[s]
             \/ /\ tx[s].pc = "called" /\ tx'[s].pc = "open" /\ now' = now
                /\ tx'[s].kind = tx[s].kind /\ tx'[s].since = tx[s].since
                /\ tx'[s].begun = now
  BY <1>0, <1>2 DEF Begin, Tx
<1>3. ASSUME NEW t \in Slots, Rollback(t)
      PROVE  tx'[s] = tx[s] \/ tx'[s].pc \in {"idle", "refused"}
  BY <1>0, <1>3 DEF Rollback, Idle
<1>4. ASSUME NEW t \in Slots, Acquire(t)
      PROVE  \/ tx'[s] = tx[s]
             \/ tx'[s].pc \in {"idle", "refused"}
             \/ /\ tx[s].pc = "open" /\ tx'[s].pc = "open" /\ now' = now
                /\ tx'[s].kind = tx[s].kind /\ tx'[s].since = tx[s].since
                /\ tx'[s].begun = tx[s].begun
  BY <1>0, <1>3, <1>4 DEF Acquire, Waiting, Tx
<1>5. ASSUME NEW t \in Slots, Count(t)
      PROVE  tx'[s] = tx[s] \/ Count(s)
  BY <1>0, <1>5 DEF Count
<1>6. ASSUME NEW t \in Slots,
             CommitFeedback(t) \/ RecordRefusal(t) \/ CommitDeactivate(t)
      PROVE  tx'[s] = tx[s] \/ tx'[s].pc \in {"idle", "refused"}
  BY <1>0, <1>6 DEF CommitFeedback, RecordRefusal, CommitDeactivate, Idle
<1>7. ASSUME NEW t \in Slots, CommitPersist(t) \/ DeadlockAbort(t) \/ Fail(t)
      PROVE  tx'[s] = tx[s] \/ tx'[s].pc \in {"idle", "refused"}
  BY <1>3, <1>7 DEF CommitPersist, DeadlockAbort, Fail
<1>8. CASE Tick \/ UNCHANGED vars BY <1>8 DEF Tick, vars
<1> QED
  BY <1>1, <1>2, <1>4, <1>5, <1>6, <1>7, <1>8 DEF Next, Serve

LEMMA NowStep == Typed /\ [Next]_vars => now' >= now
<1> SUFFICES ASSUME Typed, [Next]_vars PROVE now' >= now OBVIOUS
<1>1. now' = now \/ now' = now + 1
  BY DEF Next, vars, Call, Serve, Tick, Request, CreateFeedback,
         Deactivate, PersistOutcome, Begin, Rollback, Acquire, Count,
         CommitFeedback, RecordRefusal, CommitDeactivate, CommitPersist, Fail,
         DeadlockAbort
<1> QED BY <1>1 DEF Typed, TypeOK

(* A transaction begins no sooner than its window ends.                    *)
Times ==
  \A s \in Slots :
    tx[s].kind = "feedback" =>
      /\ tx[s].pc = "called" => tx[s].since + Hour <= now
      /\ tx[s].pc \in {"open", "counted"} => tx[s].since + Hour <= tx[s].begun

LEMMA TimesInit == Init => Times
BY DEF Init, Times, Idle

LEMMA TimesStep ==
  ASSUME Typed, Times, [Next]_vars
  PROVE  Times'
<1> SUFFICES ASSUME NEW s \in Slots, tx'[s].kind = "feedback"
             PROVE  /\ tx'[s].pc = "called" => tx'[s].since + Hour <= now'
                    /\ tx'[s].pc \in {"open", "counted"} =>
                         tx'[s].since + Hour <= tx'[s].begun
  BY DEF Times
<1>1. /\ tx[s] \in Tx /\ tx \in [Slots -> Tx] /\ now \in Nat /\ now' \in Nat
      /\ Hour \in Nat
  BY TypeStep, ConstantTypes DEF Typed, TypeOK
<1>2. tx[s].since \in Nat BY <1>1 DEF Tx
<1>3. now' >= now BY NowStep
<1>4. CASE tx'[s] = tx[s] BY <1>1, <1>2, <1>3, <1>4 DEF Times
<1>5. CASE Count(s)
  <2>1. /\ tx[s].pc = "open" /\ tx'[s].pc = "counted"
        /\ tx'[s].kind = tx[s].kind /\ tx'[s].since = tx[s].since
        /\ tx'[s].begun = tx[s].begun
    BY <1>1, <1>5 DEF Count, Tx
  <2> QED BY <2>1 DEF Times
<1> QED BY <1>1, <1>2, <1>3, <1>4, <1>5, TxStep DEF Times

(* What a transaction has counted is locked until it ends.                 *)
LEMMA CountedLocks ==
  ASSUME Typed, Ordered, NEW s \in Slots, tx[s].pc = "counted"
  PROVE  /\ tx[s].kind = "feedback" =>
              holder[Device(tx[s].device)] = s /\ holder[Key(tx[s].key)] = s
         /\ tx[s].kind = "deactivate" /\ tx[s].key # None =>
              holder[Key(tx[s].key)] = s
<1>1. OrderOf(s) /\ tx[s].todo = <<>> BY DEF Ordered, OrderOf
<1>2. \A a, b : <<a>> # <<>> /\ <<a, b>> # <<>> OBVIOUS
<1> QED BY <1>1, <1>2 DEF OrderOf, FeedbackOrder, DeactivateOrder

(* How a step changes the two tables.                                      *)
LEMMA WriteStep ==
  ASSUME Typed, [Next]_vars
  PROVE  \/ UNCHANGED <<corrections, audit>>
         \/ \E s \in Slots :
              /\ CommitFeedback(s) /\ tx[s].verdict # "over" /\ audit' = audit
         \/ \E s \in Slots : CommitDeactivate(s)
BY DEF Next, vars, Call, Serve, Tick, Request, CreateFeedback,
       Deactivate, PersistOutcome, Begin, Rollback, Acquire, Count,
       CommitFeedback, RecordRefusal, CommitPersist, Fail, DeadlockAbort

LEMMA OneMore ==
  ASSUME NEW n \in Nat, NEW A \in SUBSET (1..n), NEW B \in SUBSET A,
         NEW L \in Nat, Cardinality(A) < L
  PROVE  Cardinality(B \cup {n + 1}) <= L
<1>1. IsFiniteSet(1..n) BY FS_Interval
<1>2. IsFiniteSet(A) /\ Cardinality(A) \in Nat BY <1>1, FS_Subset, FS_CardinalityType
<1>3. IsFiniteSet(B) /\ Cardinality(B) <= Cardinality(A) BY <1>2, FS_Subset
<1>4. Cardinality(B) \in Nat BY <1>3, FS_CardinalityType
<1>5. Cardinality(B \cup {n + 1}) <= Cardinality(B) + 1
  <2>1. Cardinality(B \cup {n + 1}) =
          IF n + 1 \in B THEN Cardinality(B) ELSE Cardinality(B) + 1
    BY <1>3, FS_AddElement
  <2> QED BY <1>4, <2>1
<1>6. Cardinality(B \cup {n + 1}) \in Nat
  BY <1>3, FS_AddElement, FS_CardinalityType
<1> QED BY <1>2, <1>3, <1>4, <1>5, <1>6

(* What CommitFeedback writes.                                             *)
LEMMA FeedbackWrites ==
  ASSUME Typed, NEW s \in Slots, CommitFeedback(s), tx[s].verdict # "over"
  PROVE  /\ Len(corrections) \in Nat
         /\ Len(corrections') = Len(corrections) + 1
         /\ \A i \in 1..Len(corrections) : corrections'[i] = corrections[i]
         /\ corrections'[Len(corrections) + 1] =
              [device |-> tx[s].device, key |-> tx[s].key,
               created_at |-> tx[s].begun, active |-> TRUE]
<1> DEFINE r == [device |-> tx[s].device, key |-> tx[s].key,
                 created_at |-> tx[s].begun, active |-> TRUE]
<1>1. corrections' = Append(corrections, r) BY DEF CommitFeedback
<1>2. corrections \in Seq(Correction) /\ r \in Correction
  BY DEF CommitFeedback, Typed, TypeOK, Targets, Tx, Correction
<1> HIDE DEF r
<1>3. /\ Len(corrections) \in Nat
      /\ Len(corrections') = Len(corrections) + 1
      /\ \A i \in 1..Len(corrections) : corrections'[i] = corrections[i]
      /\ corrections'[Len(corrections) + 1] = r
  BY <1>1, <1>2
<1> QED BY <1>3 DEF r

-----------------------------------------------------------------------------
(* The limits.                                                             *)

WithinLimits(t) ==
  /\ count_recent_by_key(t.key, t.since) < KeyLimit
  /\ count_recent_by_device(t.device, t.since) < DeviceLimit

Verdicts ==
  \A s \in Slots :
    tx[s].pc = "counted" /\ tx[s].kind = "feedback" /\ tx[s].verdict # "over"
    => WithinLimits(tx[s])

KeyWindow(k, x) ==
  {i \in 1..Len(corrections) :
    corrections[i].key = k /\ corrections[i].created_at \in x..(x + Hour)}
DeviceWindow(d, x) ==
  {i \in 1..Len(corrections) :
    corrections[i].device = d /\ corrections[i].created_at \in x..(x + Hour)}

Windows ==
  /\ \A k \in Keys, x \in Nat : Cardinality(KeyWindow(k, x)) <= KeyLimit
  /\ \A d \in Devices, x \in Nat : Cardinality(DeviceWindow(d, x)) <= DeviceLimit

LEMMA LimitsInit == Init => Verdicts /\ Windows
<1> SUFFICES ASSUME Init PROVE Verdicts /\ Windows OBVIOUS
<1>0. Len(Seeds) \in Nat /\ KeyLimit \in Nat /\ DeviceLimit \in Nat
  BY ConstantTypes
<1>1. Verdicts BY DEF Init, Verdicts, Idle
<1>2. IsFiniteSet(1..Len(Seeds)) BY <1>0, FS_Interval
<1>3. ASSUME NEW k \in Keys, NEW x \in Nat
      PROVE  Cardinality(KeyWindow(k, x)) <= KeyLimit
  <2> DEFINE A == {i \in 1..Len(Seeds) : Seeds[i].key = k}
  <2>1. KeyWindow(k, x) \in SUBSET A BY DEF Init, KeyWindow
  <2>2. IsFiniteSet(A) /\ Cardinality(A) \in Nat
    BY <1>2, FS_Subset, FS_CardinalityType
  <2>3. Cardinality(A) <= KeyLimit BY CorrectionsAssumption
  <2> HIDE DEF A
  <2>4. Cardinality(KeyWindow(k, x)) <= Cardinality(A)
        /\ Cardinality(KeyWindow(k, x)) \in Nat
    BY <2>1, <2>2, FS_Subset, FS_CardinalityType
  <2> QED BY <1>0, <2>2, <2>3, <2>4
<1>4. ASSUME NEW d \in Devices, NEW x \in Nat
      PROVE  Cardinality(DeviceWindow(d, x)) <= DeviceLimit
  <2> DEFINE A == {i \in 1..Len(Seeds) : Seeds[i].device = d}
  <2>1. DeviceWindow(d, x) \in SUBSET A BY DEF Init, DeviceWindow
  <2>2. IsFiniteSet(A) /\ Cardinality(A) \in Nat
    BY <1>2, FS_Subset, FS_CardinalityType
  <2>3. Cardinality(A) <= DeviceLimit BY CorrectionsAssumption
  <2> HIDE DEF A
  <2>4. Cardinality(DeviceWindow(d, x)) <= Cardinality(A)
        /\ Cardinality(DeviceWindow(d, x)) \in Nat
    BY <2>1, <2>2, FS_Subset, FS_CardinalityType
  <2> QED BY <1>0, <2>2, <2>3, <2>4
<1> QED BY <1>1, <1>3, <1>4 DEF Windows

(* A deactivation and a step that writes nothing leave the windows, and     *)
(* what was counted.                                                       *)
LEMMA SameRows ==
  ASSUME Len(corrections') = Len(corrections),
         \A i \in 1..Len(corrections) :
           /\ corrections'[i].device = corrections[i].device
           /\ corrections'[i].key = corrections[i].key
           /\ corrections'[i].created_at = corrections[i].created_at
  PROVE  /\ \A k, x : KeyWindow(k, x)' = KeyWindow(k, x)
         /\ \A d, x : DeviceWindow(d, x)' = DeviceWindow(d, x)
         /\ \A k, x : count_recent_by_key(k, x)' = count_recent_by_key(k, x)
         /\ \A d, x : count_recent_by_device(d, x)' = count_recent_by_device(d, x)
<1>1. \A k, x : KeyWindow(k, x)' = KeyWindow(k, x) BY DEF KeyWindow
<1>2. \A d, x : DeviceWindow(d, x)' = DeviceWindow(d, x) BY DEF DeviceWindow
<1>3. ASSUME NEW k, NEW x
      PROVE  count_recent_by_key(k, x)' = count_recent_by_key(k, x)
  <2>1. {i \in 1..Len(corrections') :
           corrections'[i].key = k /\ corrections'[i].created_at >= x}
        = {i \in 1..Len(corrections) :
            corrections[i].key = k /\ corrections[i].created_at >= x}
    OBVIOUS
  <2> QED BY <2>1 DEF count_recent_by_key
<1>4. ASSUME NEW d, NEW x
      PROVE  count_recent_by_device(d, x)' = count_recent_by_device(d, x)
  <2>1. {i \in 1..Len(corrections') :
           corrections'[i].device = d /\ corrections'[i].created_at >= x}
        = {i \in 1..Len(corrections) :
            corrections[i].device = d /\ corrections[i].created_at >= x}
    OBVIOUS
  <2> QED BY <2>1 DEF count_recent_by_device
<1> QED BY <1>1, <1>2, <1>3, <1>4

(* A correction that is within the limits stays within them in every hour.  *)
LEMMA WindowsKept ==
  ASSUME Typed, Times, Verdicts, Windows,
         NEW s \in Slots, CommitFeedback(s), tx[s].verdict # "over"
  PROVE  Windows'
<1> DEFINE n == Len(corrections)
<1>1. /\ n \in Nat /\ Len(corrections') = n + 1
      /\ \A i \in 1..n : corrections'[i] = corrections[i]
      /\ corrections'[n + 1].key = tx[s].key
      /\ corrections'[n + 1].device = tx[s].device
      /\ corrections'[n + 1].created_at = tx[s].begun
  <2> DEFINE r == [device |-> tx[s].device, key |-> tx[s].key,
                   created_at |-> tx[s].begun, active |-> TRUE]
  <2>1. r.key = tx[s].key /\ r.device = tx[s].device /\ r.created_at = tx[s].begun
    OBVIOUS
  <2>2. /\ n \in Nat /\ Len(corrections') = n + 1
        /\ \A i \in 1..n : corrections'[i] = corrections[i]
        /\ corrections'[n + 1] = r
    BY FeedbackWrites
  <2> HIDE DEF r
  <2> QED BY <2>1, <2>2
<1>2. /\ tx[s].pc = "counted" /\ tx[s].kind = "feedback"
      /\ tx[s].begun \in Nat /\ tx[s].since \in Nat
      /\ tx[s].since + Hour <= tx[s].begun
      /\ WithinLimits(tx[s])
  BY DEF CommitFeedback, Typed, TypeOK, Tx, Times, Verdicts
<1>3. \A i \in 1..n : corrections[i].created_at \in Nat
  <2>1. corrections \in Seq(Correction) BY DEF Typed, TypeOK
  <2>2. \A i \in 1..n : corrections[i] \in Correction BY <2>1, ElementOfSeq
  <2> QED BY <2>2 DEF Correction
<1>4. KeyLimit \in Nat /\ DeviceLimit \in Nat /\ Hour \in Nat BY ConstantTypes
<1>5. ASSUME NEW k \in Keys, NEW x \in Nat
      PROVE  Cardinality(KeyWindow(k, x)') <= KeyLimit
  <2>1. KeyWindow(k, x)' \subseteq KeyWindow(k, x) \cup {n + 1}
    BY <1>1 DEF KeyWindow
  <2>2. n + 1 \in KeyWindow(k, x)' => k = tx[s].key /\ tx[s].begun \in x..(x + Hour)
    BY <1>1 DEF KeyWindow
  <2>3. KeyWindow(k, x) \subseteq KeyWindow(k, x)'
    BY <1>1 DEF KeyWindow
  <2>4. CASE n + 1 \notin KeyWindow(k, x)'
    <3>1. KeyWindow(k, x)' = KeyWindow(k, x) BY <2>1, <2>3, <2>4
    <3> QED BY <3>1 DEF Windows
  <2>5. CASE n + 1 \in KeyWindow(k, x)'
    <3> DEFINE A == {i \in 1..n : /\ corrections[i].key = k
                                  /\ corrections[i].created_at >= tx[s].since}
    <3>1. A \in SUBSET (1..n) OBVIOUS
    <3>2. KeyWindow(k, x) \in SUBSET A
      BY <1>1, <1>2, <1>3, <1>4, <2>2, <2>5 DEF KeyWindow
    <3>3. Cardinality(A) < KeyLimit
      BY <1>2, <2>2, <2>5 DEF WithinLimits, count_recent_by_key
    <3>4. KeyWindow(k, x)' = KeyWindow(k, x) \cup {n + 1} BY <2>1, <2>3, <2>5
    <3> HIDE DEF A, n
    <3> QED BY <1>1, <1>4, <3>1, <3>2, <3>3, <3>4, OneMore
  <2> QED BY <2>4, <2>5
<1>6. ASSUME NEW d \in Devices, NEW x \in Nat
      PROVE  Cardinality(DeviceWindow(d, x)') <= DeviceLimit
  <2>1. DeviceWindow(d, x)' \subseteq DeviceWindow(d, x) \cup {n + 1}
    BY <1>1 DEF DeviceWindow
  <2>2. n + 1 \in DeviceWindow(d, x)' =>
          d = tx[s].device /\ tx[s].begun \in x..(x + Hour)
    BY <1>1 DEF DeviceWindow
  <2>3. DeviceWindow(d, x) \subseteq DeviceWindow(d, x)'
    BY <1>1 DEF DeviceWindow
  <2>4. CASE n + 1 \notin DeviceWindow(d, x)'
    <3>1. DeviceWindow(d, x)' = DeviceWindow(d, x) BY <2>1, <2>3, <2>4
    <3> QED BY <3>1 DEF Windows
  <2>5. CASE n + 1 \in DeviceWindow(d, x)'
    <3> DEFINE A == {i \in 1..n : /\ corrections[i].device = d
                                  /\ corrections[i].created_at >= tx[s].since}
    <3>1. A \in SUBSET (1..n) OBVIOUS
    <3>2. DeviceWindow(d, x) \in SUBSET A
      BY <1>1, <1>2, <1>3, <1>4, <2>2, <2>5 DEF DeviceWindow
    <3>3. Cardinality(A) < DeviceLimit
      BY <1>2, <2>2, <2>5 DEF WithinLimits, count_recent_by_device
    <3>4. DeviceWindow(d, x)' = DeviceWindow(d, x) \cup {n + 1} BY <2>1, <2>3, <2>5
    <3> HIDE DEF A, n
    <3> QED BY <1>1, <1>4, <3>1, <3>2, <3>3, <3>4, OneMore
  <2> QED BY <2>4, <2>5
<1> QED BY <1>4, <1>5, <1>6 DEF Windows

LEMMA WindowsStep ==
  ASSUME Typed, Times, Verdicts, Windows, [Next]_vars
  PROVE  Windows'
<1>1. ASSUME \A k, x : KeyWindow(k, x)' = KeyWindow(k, x),
             \A d, x : DeviceWindow(d, x)' = DeviceWindow(d, x)
      PROVE  Windows'
  <2>1. ASSUME NEW k \in Keys, NEW x \in Nat
        PROVE  Cardinality(KeyWindow(k, x)') <= KeyLimit
    BY <1>1 DEF Windows
  <2>2. ASSUME NEW d \in Devices, NEW x \in Nat
        PROVE  Cardinality(DeviceWindow(d, x)') <= DeviceLimit
    BY <1>1 DEF Windows
  <2> QED BY <2>1, <2>2 DEF Windows
<1>2. ASSUME NEW s \in Slots, CommitDeactivate(s) PROVE Windows'
  <2>1. /\ Len(corrections') = Len(corrections)
        /\ \A i \in 1..Len(corrections) :
             /\ corrections'[i].device = corrections[i].device
             /\ corrections'[i].key = corrections[i].key
             /\ corrections'[i].created_at = corrections[i].created_at
    BY <1>2, DeactivateWrites
  <2> QED BY <2>1, <1>1, SameRows
<1>3. CASE corrections' = corrections BY <1>3, <1>1, SameRows
<1> QED BY <1>2, <1>3, WindowsKept, WriteStep

LEMMA CountsAreNumbers ==
  ASSUME Typed, NEW k, NEW d, NEW x
  PROVE  /\ count_recent_by_key(k, x) \in Nat
         /\ count_recent_by_device(d, x) \in Nat
<1> DEFINE n == Len(corrections)
           A == {i \in 1..n : corrections[i].key = k /\ corrections[i].created_at >= x}
           B == {i \in 1..n :
                  corrections[i].device = d /\ corrections[i].created_at >= x}
<1>1. n \in Nat BY LenProperties DEF Typed, TypeOK
<1>2. IsFiniteSet(1..n) BY <1>1, FS_Interval
<1>3. A \in SUBSET (1..n) /\ B \in SUBSET (1..n) OBVIOUS
<1>4. count_recent_by_key(k, x) = Cardinality(A)
      /\ count_recent_by_device(d, x) = Cardinality(B)
  BY DEF count_recent_by_key, count_recent_by_device
<1> HIDE DEF A, B
<1> QED BY <1>2, <1>3, <1>4, FS_Subset, FS_CardinalityType

(* The correction of another key, and of another device, is not counted.    *)
LEMMA OthersNotCounted ==
  ASSUME Typed, NEW s \in Slots, CommitFeedback(s), tx[s].verdict # "over",
         NEW k, NEW d, NEW x, k # tx[s].key, d # tx[s].device
  PROVE  /\ count_recent_by_key(k, x)' = count_recent_by_key(k, x)
         /\ count_recent_by_device(d, x)' = count_recent_by_device(d, x)
<1> DEFINE n == Len(corrections)
<1>1. /\ n \in Nat /\ Len(corrections') = n + 1
      /\ \A i \in 1..n : corrections'[i] = corrections[i]
      /\ corrections'[n + 1].key = tx[s].key
      /\ corrections'[n + 1].device = tx[s].device
  <2> DEFINE r == [device |-> tx[s].device, key |-> tx[s].key,
                   created_at |-> tx[s].begun, active |-> TRUE]
  <2>1. r.key = tx[s].key /\ r.device = tx[s].device OBVIOUS
  <2>2. /\ n \in Nat /\ Len(corrections') = n + 1
        /\ \A i \in 1..n : corrections'[i] = corrections[i]
        /\ corrections'[n + 1] = r
    BY FeedbackWrites
  <2> HIDE DEF r
  <2> QED BY <2>1, <2>2
<1> HIDE DEF n
<1>2. {i \in 1..Len(corrections') :
         corrections'[i].key = k /\ corrections'[i].created_at >= x}
      = {i \in 1..n : corrections[i].key = k /\ corrections[i].created_at >= x}
  BY <1>1
<1>3. {i \in 1..Len(corrections') :
         corrections'[i].device = d /\ corrections'[i].created_at >= x}
      = {i \in 1..n : corrections[i].device = d /\ corrections[i].created_at >= x}
  BY <1>1
<1> QED BY <1>2, <1>3 DEF count_recent_by_key, count_recent_by_device, n

LEMMA VerdictsStep ==
  ASSUME Typed, Ordered, Verdicts, [Next]_vars
  PROVE  Verdicts'
<1> SUFFICES ASSUME NEW s \in Slots, tx'[s].pc = "counted",
                    tx'[s].kind = "feedback", tx'[s].verdict # "over"
             PROVE  /\ count_recent_by_key(tx[s].key, tx[s].since)' < KeyLimit
                    /\ count_recent_by_device(tx[s].device, tx[s].since)'
                         < DeviceLimit
  BY DEF Verdicts, WithinLimits
<1>1. tx[s] \in Tx /\ tx \in [Slots -> Tx] /\ KeyLimit \in Nat /\ DeviceLimit \in Nat
  BY ConstantTypes DEF Typed, TypeOK
<1>2. CASE Count(s)
  <2>1. /\ corrections' = corrections /\ tx'[s].key = tx[s].key
        /\ tx'[s].device = tx[s].device /\ tx'[s].since = tx[s].since
        /\ tx'[s].kind = tx[s].kind
    BY <1>1, <1>2 DEF Count, Tx
  <2>2. ~OverLimit(tx[s])
    <3>1. PICK c \in Nat, v \in {"ok", "over", "suspicious"} :
            /\ tx' = [tx EXCEPT ![s] = [tx[s] EXCEPT !.pc = "counted",
                                         !.counted = c, !.verdict = v]]
            /\ tx[s].kind = "feedback" /\ v # "over" => ~OverLimit(tx[s])
      BY <1>2, CountSteps
    <3>2. tx'[s].verdict = v BY <1>1, <3>1 DEF Tx
    <3> QED BY <2>1, <3>1, <3>2
  <2>3. count_recent_by_key(tx[s].key, tx[s].since) \in Nat
        /\ count_recent_by_device(tx[s].device, tx[s].since) \in Nat
    BY CountsAreNumbers
  <2>4. WithinLimits(tx[s]) BY <1>1, <2>2, <2>3 DEF OverLimit, WithinLimits
  <2> QED
    BY <2>1, <2>4 DEF WithinLimits, count_recent_by_key, count_recent_by_device
<1>3. CASE tx'[s] = tx[s]
  <2>1. tx[s].pc = "counted" /\ tx[s].kind = "feedback" /\ WithinLimits(tx[s])
    BY <1>3 DEF Verdicts
  <2>2. PICK k, d, x : k = tx[s].key /\ d = tx[s].device /\ x = tx[s].since
    OBVIOUS
  <2>3. k = tx'[s].key /\ d = tx'[s].device /\ x = tx'[s].since BY <1>3, <2>2
  <2>4. /\ count_recent_by_key(tx[s].key, tx[s].since)'
             = count_recent_by_key(k, x)'
        /\ count_recent_by_device(tx[s].device, tx[s].since)'
             = count_recent_by_device(d, x)'
    BY <2>3 DEF count_recent_by_key, count_recent_by_device
  <2>5. /\ count_recent_by_key(k, x) < KeyLimit
        /\ count_recent_by_device(d, x) < DeviceLimit
    BY <2>1, <2>2 DEF WithinLimits
  <2> SUFFICES count_recent_by_key(k, x)' = count_recent_by_key(k, x)
               /\ count_recent_by_device(d, x)' = count_recent_by_device(d, x)
    BY <2>4, <2>5
  <2>6. ASSUME NEW t \in Slots, CommitFeedback(t), tx[t].verdict # "over"
        PROVE  count_recent_by_key(k, x)' = count_recent_by_key(k, x)
               /\ count_recent_by_device(d, x)' = count_recent_by_device(d, x)
    <3>1. tx'[t].pc = "idle" /\ tx[t].pc = "counted" /\ tx[t].kind = "feedback"
      BY <1>1, <2>6 DEF CommitFeedback, Idle
    <3>2. t # s BY <3>1
    <3>3. k # tx[t].key /\ d # tx[t].device
      BY <2>1, <2>2, <3>1, <3>2, CountedLocks
    <3> QED BY <2>6, <3>3, OthersNotCounted
  <2>7. ASSUME NEW t \in Slots, CommitDeactivate(t)
        PROVE  count_recent_by_key(k, x)' = count_recent_by_key(k, x)
               /\ count_recent_by_device(d, x)' = count_recent_by_device(d, x)
    BY <2>7, DeactivateWrites, SameRows
  <2>8. CASE corrections' = corrections
    BY <2>8 DEF count_recent_by_key, count_recent_by_device
  <2> QED BY <2>6, <2>7, <2>8, WriteStep
<1> QED BY <1>2, <1>3, TxStep

-----------------------------------------------------------------------------
(* The alert.                                                              *)

Recent(k, a, t) == {i \in 1..Len(audit) : audit[i].key = k /\ audit[i].at + a.window >= t}

Unsuspected(k, t) ==
  k # None => \A a \in Alerts : Cardinality(Recent(k, a, t)) + 1 < a.count

Alarms ==
  \A s \in Slots :
    tx[s].pc = "counted" /\ tx[s].kind = "deactivate"
    /\ tx[s].verdict # "suspicious" => Unsuspected(tx[s].key, tx[s].counted)

LEMMA RecentIsFinite ==
  ASSUME Typed, NEW k, NEW a, NEW t
  PROVE  IsFiniteSet(Recent(k, a, t)) /\ Cardinality(Recent(k, a, t)) \in Nat
<1>1. Len(audit) \in Nat BY LenProperties DEF Typed, TypeOK
<1>2. IsFiniteSet(1..Len(audit)) BY <1>1, FS_Interval
<1>3. Recent(k, a, t) \in SUBSET (1..Len(audit)) BY DEF Recent
<1> QED BY <1>2, <1>3, FS_Subset, FS_CardinalityType

(* Who holds the lock of a key sees no deactivation of it recorded.         *)
LEMMA OthersNotRecent ==
  ASSUME Typed, NEW s \in Slots, CommitDeactivate(s),
         NEW k, NEW a, NEW t, k # tx[s].key
  PROVE  Recent(k, a, t)' = Recent(k, a, t)
<1> DEFINE n == Len(audit)
           e == [key |-> tx[s].key, at |-> tx[s].begun,
                 counted |-> tx[s].counted,
                 suspicious |-> tx[s].verdict = "suspicious"]
<1>1. /\ n \in Nat /\ Len(audit') = n + 1 /\ audit'[n + 1] = e
      /\ \A i \in 1..n : audit'[i] = audit[i]
  BY DeactivateWrites
<1>2. e.key = tx[s].key OBVIOUS
<1> HIDE DEF n, e
<1>3. {i \in 1..Len(audit') : audit'[i].key = k /\ audit'[i].at + a.window >= t}
      = {i \in 1..n : audit[i].key = k /\ audit[i].at + a.window >= t}
  BY <1>1, <1>2
<1> QED BY <1>3 DEF Recent, n

LEMMA AlarmsStep ==
  ASSUME Typed, Ordered, Alarms, [Next]_vars
  PROVE  Alarms'
<1> SUFFICES ASSUME NEW s \in Slots, tx'[s].pc = "counted",
                    tx'[s].kind = "deactivate", tx'[s].verdict # "suspicious"
             PROVE  Unsuspected(tx[s].key, tx[s].counted)'
  BY DEF Alarms
<1>1. tx[s] \in Tx /\ tx \in [Slots -> Tx] BY DEF Typed, TypeOK
<1>2. PICK k, t : k = tx'[s].key /\ t = tx'[s].counted OBVIOUS
<1>3. SUFFICES ASSUME k # None, NEW a \in Alerts
               PROVE  Cardinality(Recent(k, a, t)') + 1 < a.count
  BY <1>2 DEF Unsuspected, Recent
<1>4. CASE Count(s)
  <2>1. PICK c \in Nat, v \in {"ok", "over", "suspicious"} :
          /\ tx' = [tx EXCEPT ![s] = [tx[s] EXCEPT !.pc = "counted",
                                       !.counted = c, !.verdict = v]]
          /\ tx[s].kind = "deactivate" => c = now
          /\ tx[s].kind = "deactivate" /\ v # "suspicious"
               => ~mass_deactivate_suspicious(tx[s].key)
          /\ audit' = audit
    BY <1>4, CountSteps
  <2>2. tx'[s].verdict = v /\ tx'[s].counted = c /\ tx'[s].key = tx[s].key
        /\ tx'[s].kind = tx[s].kind
    BY <1>1, <2>1 DEF Tx
  <2>3. ~mass_deactivate_suspicious(k) /\ t = now BY <1>2, <2>1, <2>2
  <2>4. ~(Cardinality(Recent(k, a, t)) + 1 >= a.count)
    BY <1>3, <2>3 DEF mass_deactivate_suspicious, count_recent, Recent
  <2>5. Cardinality(Recent(k, a, t)) \in Nat /\ a.count \in Nat
    BY RecentIsFinite, CorrectionsAssumption
  <2>6. Recent(k, a, t)' = Recent(k, a, t) BY <2>1 DEF Recent
  <2> QED BY <2>4, <2>5, <2>6
<1>5. CASE tx'[s] = tx[s]
  <2>1. /\ tx[s].pc = "counted" /\ tx[s].kind = "deactivate"
        /\ Unsuspected(k, t)
    BY <1>2, <1>5 DEF Alarms
  <2>2. ASSUME NEW u \in Slots, CommitDeactivate(u)
        PROVE  Recent(k, a, t)' = Recent(k, a, t)
    <3>1. tx'[u].pc = "idle" /\ tx[u].pc = "counted" /\ tx[u].kind = "deactivate"
      BY <1>1, <2>2 DEF CommitDeactivate, Idle
    <3>2. u # s BY <3>1
    <3>3. k # tx[u].key
      BY <1>2, <1>3, <1>5, <2>1, <3>1, <3>2, CountedLocks
    <3> QED BY <2>2, <3>3, OthersNotRecent
  <2>3. audit' = audit => Recent(k, a, t)' = Recent(k, a, t) BY DEF Recent
  <2>4. Recent(k, a, t)' = Recent(k, a, t) BY <2>2, <2>3, WriteStep
  <2> QED BY <1>3, <2>1, <2>4 DEF Unsuspected
<1> QED BY <1>1, <1>4, <1>5, TxStep

(* One that was not suspected is the last of too few.                       *)
LEMMA CrossingStep ==
  ASSUME Typed, Alarms, CrossingMarked, [Next]_vars
  PROVE  CrossingMarked'
<1>1. CASE audit' = audit BY <1>1 DEF CrossingMarked
<1>2. ASSUME NEW s \in Slots, CommitDeactivate(s) PROVE CrossingMarked'
  <2> DEFINE n == Len(audit)
             e == [key |-> tx[s].key, at |-> tx[s].begun,
                   counted |-> tx[s].counted,
                   suspicious |-> tx[s].verdict = "suspicious"]
  <2>1. /\ n \in Nat /\ Len(audit') = n + 1 /\ audit'[n + 1] = e
        /\ \A i \in 1..n : audit'[i] = audit[i]
    BY <1>2, DeactivateWrites
  <2>2. /\ e.key = tx[s].key /\ e.counted = tx[s].counted
        /\ e.suspicious = (tx[s].verdict = "suspicious")
    OBVIOUS
  <2>3. tx[s].pc = "counted" /\ tx[s].kind = "deactivate" /\ tx[s].counted \in Nat
    BY <1>2 DEF CommitDeactivate, Typed, TypeOK, Tx
  <2>4. \A i \in 1..n : audit[i].at \in Nat
    <3>1. audit \in Seq(Event) BY DEF Typed, TypeOK
    <3>2. \A i \in 1..n : audit[i] \in Event BY <3>1, ElementOfSeq
    <3> QED BY <3>2 DEF Event
  <2> HIDE DEF n, e
  <2> SUFFICES ASSUME NEW a \in Alerts, NEW k \in Keys,
                      NEW R \in SUBSET {i \in 1..Len(audit') : audit'[i].key = k},
                      Cardinality(R) >= a.count,
                      \A i, j \in R : audit'[j].counted <= audit'[i].at + a.window,
                      \A i \in R : ~audit'[i].suspicious
               PROVE  FALSE
    BY DEF CrossingMarked
  <2>5. CASE n + 1 \notin R
    <3>1. R \in SUBSET {i \in 1..n : audit[i].key = k} BY <2>1, <2>5
    <3>2. \A i \in R : audit'[i] = audit[i] BY <2>1, <3>1
    <3> QED BY <3>1, <3>2 DEF CrossingMarked, n
  <2>6. CASE n + 1 \in R
    <3>1. k = tx[s].key /\ tx[s].verdict # "suspicious" BY <2>1, <2>2, <2>6
    <3>2. PICK t \in Nat : t = tx[s].counted BY <2>3
    <3>3. Cardinality(Recent(k, a, t)) + 1 < a.count
      BY <2>3, <3>1, <3>2, ConstantTypes DEF Alarms, Unsuspected
    <3>4. R \ {n + 1} \in SUBSET Recent(k, a, t)
      <4> SUFFICES ASSUME NEW i \in R, i # n + 1
                   PROVE  i \in Recent(k, a, t)
        OBVIOUS
      <4>1. i \in 1..n /\ audit'[i] = audit[i] /\ audit[i].key = k
        BY <2>1
      <4>2. t <= audit[i].at + a.window BY <2>1, <2>2, <2>6, <3>2, <4>1
      <4>3. a.window \in Nat BY CorrectionsAssumption
      <4> QED BY <2>4, <4>1, <4>2, <4>3 DEF Recent, n
    <3>5. IsFiniteSet(R \ {n + 1}) /\ Cardinality(R \ {n + 1}) \in Nat
          /\ Cardinality(R \ {n + 1}) <= Cardinality(Recent(k, a, t))
      BY <3>4, RecentIsFinite, FS_Subset, FS_CardinalityType
    <3>6. Cardinality(R) = Cardinality(R \ {n + 1}) + 1
      <4>1. R = (R \ {n + 1}) \cup {n + 1} BY <2>6
      <4> QED BY <3>5, <4>1, FS_AddElement
    <3>7. Cardinality(Recent(k, a, t)) \in Nat /\ a.count \in Nat
      BY RecentIsFinite, CorrectionsAssumption
    <3> QED BY <3>3, <3>5, <3>6, <3>7
  <2> QED BY <2>5, <2>6
<1> QED BY <1>1, <1>2, WriteStep

-----------------------------------------------------------------------------
Bounded ==
  /\ Typed /\ Ordered /\ Times /\ Verdicts /\ Windows
  /\ Alarms /\ CrossingMarked

LEMMA BoundedInit == Init => Bounded
<1> SUFFICES ASSUME Init PROVE Bounded OBVIOUS
<1>1. Alarms BY DEF Init, Alarms, Idle
<1>2. CrossingMarked
  <2> SUFFICES ASSUME NEW a \in Alerts, NEW k \in Keys,
                      NEW R \in SUBSET {i \in 1..Len(audit) : audit[i].key = k},
                      Cardinality(R) >= a.count
               PROVE  FALSE
    BY DEF CrossingMarked
  <2>1. R = {}
    <3>1. Len(audit) = 0 BY DEF Init
    <3>2. 1..Len(audit) = {} BY <3>1
    <3> QED BY <3>2
  <2>2. Cardinality(R) = 0 BY <2>1, FS_EmptySet
  <2> QED BY <2>2, CorrectionsAssumption
<1> QED
  BY <1>1, <1>2, TypeInit, OrderedInit, TimesInit, LimitsInit DEF Bounded

LEMMA BoundedStep == Bounded /\ [Next]_vars => Bounded'
BY TypeStep, OrderedStep, TimesStep, VerdictsStep, WindowsStep, AlarmsStep,
   CrossingStep
   DEF Bounded

LEMMA BoundedIsEnough == Bounded => KeyLimitHolds /\ DeviceLimitHolds
<1> SUFFICES ASSUME Bounded PROVE KeyLimitHolds /\ DeviceLimitHolds OBVIOUS
<1>1. Windows /\ now \in Nat BY DEF Bounded, Typed, TypeOK
<1>2. \A x \in 0..now : x \in Nat BY <1>1
<1>3. KeyLimitHolds BY <1>1, <1>2 DEF Windows, KeyWindow, KeyLimitHolds
<1>4. DeviceLimitHolds BY <1>1, <1>2 DEF Windows, DeviceWindow, DeviceLimitHolds
<1> QED BY <1>3, <1>4

(* KEY_LIMIT_PER_HOUR bounds what one key writes, over all devices.         *)
THEOREM KeysAreLimited == Spec => []KeyLimitHolds
BY BoundedInit, BoundedStep, BoundedIsEnough, PTL DEF Spec

(* DEVICE_LIMIT_PER_HOUR bounds what is written for a device, by all keys.  *)
THEOREM DevicesAreLimited == Spec => []DeviceLimitHolds
BY BoundedInit, BoundedStep, BoundedIsEnough, PTL DEF Spec

(* No crossing of a threshold of deactivations goes unmarked.               *)
THEOREM CrossingsAreMarked == Spec => []CrossingMarked
<1>1. Bounded => CrossingMarked BY DEF Bounded
<1> QED BY <1>1, BoundedInit, BoundedStep, PTL DEF Spec
=============================================================================
