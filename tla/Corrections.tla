---------------------------- MODULE Corrections ----------------------------
(***************************************************************************)
(* Human corrections under contention: the transactions of                 *)
(* CorrectionService.create_feedback and deactivate, and those of          *)
(* persist_outcome they meet at the locks, with every lock taken one by    *)
(* one.  A transaction of PostgreSQL (READ COMMITTED) sees what has been   *)
(* committed when a statement starts, its own rows become visible when it  *)
(* commits, and now() is the time it began (migrations 007 and 014).       *)
(* datetime.now of the service and now() are one clock, for both run in    *)
(* containers of one host (docker-compose.yml).                            *)
(*                                                                         *)
(* What a correction says, demotion, and what a classification writes are  *)
(* in DeviceRegistry.  counted is a history variable of a deactivation.    *)
(* A definition marked "Faulty" is no part of the model: it is a plausible *)
(* bug that the properties are shown to notice.                            *)
(***************************************************************************)
EXTENDS Naturals, Sequences, FiniteSets

CONSTANTS
  Devices, Keys,            \* registered devices, hashed OPS keys
  KeyLimit, DeviceLimit,    \* KEY_LIMIT_PER_HOUR, DEVICE_LIMIT_PER_HOUR
  Hour,                     \* the window of both
  Alerts,                   \* the two DEACTIVATE_ALERTs: [count, window]
  OpsPool, AiPool,          \* max_size of the pools
  Seeds,                    \* corrections of long ago
  Feedbacks,                \* what is requested: devices and keys,
  Deactivations,            \* corrections and keys (or None),
  Outcomes,                 \* devices and the corrections in their prompts
  Slots,                    \* requests that are served concurrently
  MaxNow,                   \* bound: time
  MaxRequests,              \* bound: requests
  MaxFaults                 \* bound: transactions that fail

None == "none"
Kinds == {"none", "feedback", "deactivate", "persist"}

(* A row of device_corrections, and one of device_audit_log whose type is   *)
(* "deactivate"; nothing reads those of other types.                       *)
Correction == [device : Devices, key : Keys, created_at : Nat, active : BOOLEAN]
Event == [key : Keys \cup {None}, at : Nat, counted : Nat, suspicious : BOOLEAN]
Ids == 1..(Len(Seeds) + MaxRequests)

ASSUME CorrectionsAssumption ==
  /\ None \notin Keys /\ None \notin Slots
  /\ KeyLimit \in Nat \ {0} /\ DeviceLimit \in Nat \ {0} /\ Hour \in Nat \ {0}
  /\ Alerts \subseteq [count : Nat \ {0}, window : Nat]
  /\ OpsPool \in Nat \ {0} /\ AiPool \in Nat \ {0}
  /\ Seeds \in Seq([device : Devices, key : Keys, created_at : {0},
                    active : BOOLEAN])
  /\ \A k \in Keys :
       Cardinality({i \in 1..Len(Seeds) : Seeds[i].key = k}) <= KeyLimit
  /\ \A d \in Devices :
       Cardinality({i \in 1..Len(Seeds) : Seeds[i].device = d}) <= DeviceLimit
  /\ Feedbacks \subseteq Devices \X Keys
  /\ Deactivations \subseteq Ids \X (Keys \cup {None})
  /\ Outcomes \subseteq Devices \X Seq(Ids)
  /\ \A o \in Outcomes : \A i, j \in DOMAIN o[2] : o[2][i] = o[2][j] => i = j
  /\ MaxNow \in Nat /\ MaxRequests \in Nat /\ MaxFaults \in Nat

VARIABLES
  corrections,    \* device_corrections, in the order of their commits
  audit,          \* the deactivations of device_audit_log
  now,
  tx,             \* per slot, the request and its transaction
  holder,         \* of each lock
  requests, faults

vars == <<corrections, audit, now, tx, holder, requests, faults>>

-----------------------------------------------------------------------------
(* Locks.                                                                  *)

Device(d) == <<"device", d>>            \* advisory, 'device:' || id
Key(k) == <<"key", k>>                  \* advisory, 'correction-key:' || id
Row(c) == <<"row", c>>                  \* a row of device_corrections
Locks == {Device(d) : d \in Devices} \cup {Key(k) : k \in Keys}
         \cup {Row(c) : c \in Ids}

(* Faulty: the limit per key is counted under the device lock alone.        *)
FeedbackLocks_NoKey(d, k) == <<Device(d)>>

FeedbackLocks(d, k) == <<Device(d), Key(k)>>

(* Faulty: the device of the correction is locked as well.                  *)
DeactivateLocks_DeviceToo(k, c) ==
  (IF k = None THEN <<>> ELSE <<Key(k)>>)
  \o <<Device(corrections[c].device), Row(c)>>

(* Faulty: no key lock.                                                     *)
DeactivateLocks_NoKey(k, c) == <<Row(c)>>

(* Without AUDIT_HASH_SALT there is no key, and no lock of it.              *)
DeactivateLocks(k, c) ==
  IF k = None THEN <<Row(c)>> ELSE <<Key(k), Row(c)>>

(* mark_applied is one UPDATE, which locks its rows in the order of a scan. *)
PersistLocks(d, rows) ==
  <<Device(d)>> \o [i \in DOMAIN rows |-> Row(rows[i])]

Released(s) == [l \in Locks |-> IF holder[l] = s THEN None ELSE holder[l]]

-----------------------------------------------------------------------------
Idle == [pc |-> "idle", kind |-> "none", device |-> None, key |-> None,
         row |-> 0, todo |-> <<>>, since |-> 0, begun |-> 0, counted |-> 0,
         verdict |-> "none"]

InTransaction(s) == tx[s].pc \in {"open", "counted"}
Persists(s) == tx[s].kind = "persist"
OpsFree == Cardinality({s \in Slots : InTransaction(s) /\ ~Persists(s)}) < OpsPool
AiFree == Cardinality({s \in Slots : InTransaction(s) /\ Persists(s)}) < AiPool

Init ==
  /\ corrections = Seeds
  /\ audit = <<>>
  /\ now = Hour
  /\ tx = [s \in Slots |-> Idle]
  /\ holder = [l \in Locks |-> None]
  /\ requests = 0 /\ faults = 0

Request(s, call) ==
  /\ tx[s].pc = "idle"
  /\ requests < MaxRequests /\ requests' = requests + 1
  /\ tx' = [tx EXCEPT ![s] = call]
  /\ UNCHANGED <<corrections, audit, now, holder, faults>>

(* Faulty: without the salt, the correction is written without a key.       *)
CreateFeedback_KeyLess(s, d, k) ==
  Request(s, [Idle EXCEPT !.pc = "called", !.kind = "feedback", !.device = d,
                          !.since = now - Hour, !.todo = <<Device(d)>>])

(* The window of a limit begins an hour before the request, the row will    *)
(* carry the time its transaction began.                                    *)
CreateFeedback(s, d, k) ==
  Request(s, [Idle EXCEPT !.pc = "called", !.kind = "feedback", !.device = d,
                          !.key = k, !.since = now - Hour,
                          !.todo = FeedbackLocks(d, k)])

Deactivate(s, c, k) ==
  Request(s, [Idle EXCEPT !.pc = "called", !.kind = "deactivate", !.row = c,
                          !.key = k, !.todo = DeactivateLocks(k, c)])

(* rows: the corrections that were in the prompt, of any device.            *)
PersistOutcome(s, d, rows) ==
  Request(s, [Idle EXCEPT !.pc = "called", !.kind = "persist", !.device = d,
                          !.todo = PersistLocks(d, rows)])

(* A connection of the pool, and BEGIN.                                    *)
Begin(s) ==
  /\ tx[s].pc = "called"
  /\ IF Persists(s) THEN AiFree ELSE OpsFree
  /\ tx' = [tx EXCEPT ![s].pc = "open", ![s].begun = now]
  /\ UNCHANGED <<corrections, audit, now, holder, requests, faults>>

(* The transaction of s ends without effect.                               *)
Rollback(s) ==
  /\ tx' = [tx EXCEPT ![s] = Idle]
  /\ holder' = Released(s)
  /\ UNCHANGED <<corrections, audit, now, requests>>

Wanted(s) == Head(tx[s].todo)
Waiting(s) == tx[s].pc = "open" /\ tx[s].todo # <<>>

(* 409: the UPDATE finds the correction inactive, once it has the row.      *)
Gone(s) ==
  /\ tx[s].kind = "deactivate"
  /\ Wanted(s) = Row(tx[s].row)
  /\ ~corrections[tx[s].row].active

Acquire(s) ==
  /\ Waiting(s)
  /\ holder[Wanted(s)] = None
  /\ IF Gone(s)
     THEN Rollback(s)
     ELSE /\ holder' = [holder EXCEPT ![Wanted(s)] = s]
          /\ tx' = [tx EXCEPT ![s].todo = Tail(tx[s].todo)]
          /\ UNCHANGED <<corrections, audit, now, requests>>
  /\ UNCHANGED faults

-----------------------------------------------------------------------------
count_recent_by_key(k, since) ==
  Cardinality({i \in 1..Len(corrections) :
    corrections[i].key = k /\ corrections[i].created_at >= since})

(* Faulty: the window is open on the old end.                              *)
count_recent_by_device_Open(d, since) ==
  Cardinality({i \in 1..Len(corrections) :
    corrections[i].device = d /\ corrections[i].created_at > since})

count_recent_by_device(d, since) ==
  Cardinality({i \in 1..Len(corrections) :
    corrections[i].device = d /\ corrections[i].created_at >= since})

OverLimit(t) ==
  \/ count_recent_by_key(t.key, t.since) >= KeyLimit
  \/ count_recent_by_device(t.device, t.since) >= DeviceLimit

count_recent(k, window) ==
  Cardinality({i \in 1..Len(audit) :
    audit[i].key = k /\ audit[i].at + window >= now})

mass_deactivate_suspicious(k) ==
  k # None /\ \E a \in Alerts : count_recent(k, a.window) + 1 >= a.count

(* The reads of the transaction, once it has its locks.                    *)
Count(s) ==
  LET t == tx[s]
  IN /\ t.pc = "open" /\ t.todo = <<>> /\ ~Persists(s)
     /\ tx' = [tx EXCEPT ![s].pc = "counted",
          ![s].counted = IF t.kind = "deactivate" THEN now ELSE 0,
          ![s].verdict =
            CASE t.kind = "feedback" /\ OverLimit(t) -> "over"
              [] t.kind = "deactivate" /\ mass_deactivate_suspicious(t.key)
                   -> "suspicious"
              [] OTHER -> "ok"]
     /\ UNCHANGED <<corrections, audit, now, holder, requests, faults>>

(* The writes and COMMIT.  Over the limit, nothing is written.             *)
CommitFeedback(s) ==
  /\ tx[s].pc = "counted" /\ tx[s].kind = "feedback"
  /\ holder' = Released(s)
  /\ IF tx[s].verdict = "over"
     THEN /\ tx' = [tx EXCEPT ![s] = [Idle EXCEPT !.pc = "refused"]]
          /\ UNCHANGED corrections
     ELSE /\ corrections' = Append(corrections,
               [device |-> tx[s].device, key |-> tx[s].key,
                created_at |-> tx[s].begun, active |-> TRUE])
          /\ tx' = [tx EXCEPT ![s] = Idle]
  /\ UNCHANGED <<audit, now, requests, faults>>

(* 429, recorded in a transaction of its own.                              *)
RecordRefusal(s) ==
  /\ tx[s].pc = "refused" /\ OpsFree
  /\ tx' = [tx EXCEPT ![s] = Idle]
  /\ UNCHANGED <<corrections, audit, now, holder, requests, faults>>

CommitDeactivate(s) ==
  /\ tx[s].pc = "counted" /\ tx[s].kind = "deactivate"
  /\ corrections' = [corrections EXCEPT ![tx[s].row].active = FALSE]
  /\ audit' = Append(audit,
       [key |-> tx[s].key, at |-> tx[s].begun, counted |-> tx[s].counted,
        suspicious |-> tx[s].verdict = "suspicious"])
  /\ tx' = [tx EXCEPT ![s] = Idle]
  /\ holder' = Released(s)
  /\ UNCHANGED <<now, requests, faults>>

CommitPersist(s) ==
  /\ tx[s].pc = "open" /\ tx[s].todo = <<>> /\ Persists(s)
  /\ Rollback(s)         \* what it writes is not seen here
  /\ UNCHANGED faults

(* Faulty: the advisory locks are those of the session.                     *)
Fail_KeepsLocks(s) ==
  /\ tx[s].pc \notin {"idle", "called"}
  /\ faults < MaxFaults /\ faults' = faults + 1
  /\ tx' = [tx EXCEPT ![s] = Idle]
  /\ UNCHANGED <<corrections, audit, now, holder, requests>>

(* 404, 409 of a demotion, a failing statement, a closed connection.        *)
Fail(s) ==
  /\ tx[s].pc \notin {"idle", "called"}
  /\ faults < MaxFaults /\ faults' = faults + 1
  /\ Rollback(s)

(* Who waits for whom.  PostgreSQL aborts one of the transactions of a      *)
(* cycle.                                                                  *)
WaitsFor(s, t) == Waiting(s) /\ holder[Wanted(s)] = t
Circle(S) == \A s \in S : /\ \E t \in S : WaitsFor(s, t)
                          /\ \E t \in S : WaitsFor(t, s)

DeadlockAbort(s) ==
  /\ \E S \in SUBSET Slots : s \in S /\ Circle(S)
  /\ Rollback(s)
  /\ UNCHANGED faults

Tick ==
  /\ now < MaxNow /\ now' = now + 1
  /\ UNCHANGED <<corrections, audit, tx, holder, requests, faults>>

-----------------------------------------------------------------------------
Call(s) ==
  \/ \E f \in Feedbacks : CreateFeedback(s, f[1], f[2])
  \/ \E x \in Deactivations :
       x[1] \in 1..Len(corrections) /\ Deactivate(s, x[1], x[2])
  \/ \E o \in Outcomes : PersistOutcome(s, o[1], o[2])

Serve(s) ==
  \/ Begin(s) \/ Acquire(s) \/ Count(s)
  \/ CommitFeedback(s) \/ RecordRefusal(s) \/ CommitDeactivate(s)
  \/ CommitPersist(s) \/ DeadlockAbort(s)

Next ==
  \/ \E s \in Slots : Call(s) \/ Serve(s) \/ Fail(s)
  \/ Tick

Spec == Init /\ [][Next]_vars

(* Statements return; the pool and the lock manager serve first come, first *)
(* served; the deadlock detector runs after deadlock_timeout.               *)
FairSpec == Spec /\ \A s \in Slots : SF_vars(Serve(s))

-----------------------------------------------------------------------------
(* Properties.                                                             *)

Tx == [pc : {"idle", "called", "open", "counted", "refused"}, kind : Kinds,
       device : Devices \cup {None}, key : Keys \cup {None},
       row : Ids \cup {0}, todo : Seq(Locks), since : Nat, begun : Nat,
       counted : Nat, verdict : {"none", "ok", "over", "suspicious"}]

TypeOK ==
  /\ corrections \in Seq(Correction)
  /\ audit \in Seq(Event)
  /\ now \in Nat /\ now >= Hour
  /\ tx \in [Slots -> Tx]
  /\ holder \in [Locks -> Slots \cup {None}]
  /\ requests \in 0..MaxRequests /\ faults \in 0..MaxFaults

(* FR-343: whatever the order in which concurrent requests get their        *)
(* transactions, their locks and their commits, no closed hour holds more   *)
(* corrections of a key than KEY_LIMIT_PER_HOUR, over all devices...        *)
KeyLimitHolds ==
  \A k \in Keys : \A x \in 0..now :
    Cardinality({i \in 1..Len(corrections) :
      /\ corrections[i].key = k
      /\ corrections[i].created_at \in x..(x + Hour)}) <= KeyLimit

(* ... nor more of a device than DEVICE_LIMIT_PER_HOUR, over all keys.      *)
DeviceLimitHolds ==
  \A d \in Devices : \A x \in 0..now :
    Cardinality({i \in 1..Len(corrections) :
      /\ corrections[i].device = d
      /\ corrections[i].created_at \in x..(x + Hour)}) <= DeviceLimit

(* FR-344: concurrent deactivations cannot slip over a threshold: of as     *)
(* many deactivations of one key as an alert counts, the last of them       *)
(* counted within the window after the first began, one is marked.          *)
CrossingMarked ==
  \A a \in Alerts, k \in Keys :
    \A R \in SUBSET {i \in 1..Len(audit) : audit[i].key = k} :
      /\ Cardinality(R) >= a.count
      /\ \A i, j \in R : audit[j].counted <= audit[i].at + a.window
      => \E i \in R : audit[i].suspicious

(* "The fixed order cannot deadlock" (correction_service.py:139): only      *)
(* classifications that mark each other's corrections as applied can wait   *)
(* for one another in a circle, never a request of an operator.             *)
NoOpsDeadlock ==
  \A S \in SUBSET Slots : Circle(S) => \A s \in S : Persists(s)

(* Every request comes to an end: no lock outlives its transaction.         *)
Answered == \A s \in Slots : []<>(tx[s].pc = "idle")
=============================================================================
