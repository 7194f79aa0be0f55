------------------------------ MODULE Signals ------------------------------
(***************************************************************************)
(* The signals of a registered device: POST and DELETE of                  *)
(* /devices/{id}/signals, which take no device lock, beside the lifecycle   *)
(* of the device, which does, statement by statement under READ COMMITTED:  *)
(* the freeze trigger of migration 010 and the partial unique index of      *)
(* migration 004.  The devices of the registry do not meet here: there is   *)
(* one, and it exists (404 otherwise).                                     *)
(*                                                                         *)
(* A retired row is never read again and is left out.  stale is a history   *)
(* variable.  A definition marked "Faulty" is no part of the model: it is a *)
(* plausible bug that the properties are shown to notice.                   *)
(***************************************************************************)
EXTENDS Naturals, Sequences

CONSTANTS
  Names,          \* signal names
  Initially,      \* the signals at first, a set of names
  Bodies,         \* the signals of an override, sequences of names
  Slots,          \* requests that are served concurrently
  MaxRequests,    \* bound: requests on signals, and overrides
  MaxFaults       \* bound: transactions that fail

None == "none"

ASSUME SignalsAssumption ==
  /\ Initially \subseteq Names
  /\ Bodies \subseteq Seq(Names)
  /\ None \notin Slots
  /\ MaxRequests \in Nat /\ MaxFaults \in Nat

VARIABLES
  signals,        \* the rows that are active, or are in some transaction
  frozen,         \* classified_by is human, manual_override or a backfill
  lock,           \* of the device
  tx,             \* per slot, the request and its transaction
  requests, faults,
  stale           \* those under way when the device was last frozen

vars == <<signals, frozen, lock, tx, requests, faults, stale>>

-----------------------------------------------------------------------------
(* A row: the request and its statement that inserted it; born and dying    *)
(* name the open transaction that inserts it and the one that retires it.   *)
Row == [name : Names, request : Nat, statement : Nat, override : BOOLEAN,
        born : Slots \cup {None}, dying : Slots \cup {None}]

Committed(r) == r.born = None
Active == {r.name : r \in {q \in signals : Committed(q)}}
Identity(r) == <<r.name, r.request, r.statement>>

(* What a request has left to do: names to retire, then names to add; name  *)
(* and rows are of the UPDATE that is under way.                            *)
Idle == [pc |-> "idle", override |-> FALSE, request |-> 0, retire |-> {},
         add |-> <<>>, name |-> None, rows |-> {}]

Init ==
  /\ signals = {[name |-> n, request |-> 0, statement |-> 0, override |-> FALSE,
                 born |-> None, dying |-> None] : n \in Initially}
  /\ frozen \in BOOLEAN
  /\ lock = None
  /\ tx = [s \in Slots |-> Idle]
  /\ requests = 0 /\ faults = 0
  /\ stale = {}

Request(s, call) ==
  /\ tx[s].pc = "idle"
  /\ requests < MaxRequests /\ requests' = requests + 1
  /\ tx' = [tx EXCEPT ![s] = [call EXCEPT !.request = requests + 1]]
  /\ UNCHANGED <<signals, frozen, lock, faults, stale>>

add_signal(s, n) == Request(s, [Idle EXCEPT !.pc = "next", !.add = <<n>>])
delete_signal(s, n) == Request(s, [Idle EXCEPT !.pc = "next", !.retire = {n}])

(* Faulty: an override does not take the lock of the device.                *)
override_device_Unlocked(s, b) ==
  Request(s, [Idle EXCEPT !.pc = "list", !.override = TRUE, !.add = b])

(* Faulty: the signals of a body have no default.                           *)
override_device_NoDefault(s, b) ==
  Request(s, [Idle EXCEPT !.pc = "lock", !.override = TRUE, !.add = None])

override_device(s, b) ==
  Request(s, [Idle EXCEPT !.pc = "lock", !.override = TRUE, !.add = b])

-----------------------------------------------------------------------------
(* The end of a transaction.                                               *)

Unlocked(s) == IF lock = s THEN None ELSE lock

(* Faulty: the rows of a transaction outlive it.                            *)
Rollback_KeepsRows(s) ==
  /\ tx' = [tx EXCEPT ![s] = Idle]
  /\ lock' = Unlocked(s)
  /\ stale' = stale \ {s}
  /\ UNCHANGED <<signals, frozen, requests>>

Rollback(s) ==
  /\ signals' = {[r EXCEPT !.dying = IF @ = s THEN None ELSE @] :
                   r \in {q \in signals : q.born # s}}
  /\ tx' = [tx EXCEPT ![s] = Idle]
  /\ lock' = Unlocked(s)
  /\ stale' = stale \ {s}
  /\ UNCHANGED <<frozen, requests>>

Underway == {s \in Slots : tx[s].pc # "idle"}

Commit(s) ==
  /\ tx[s].pc = "next" /\ tx[s].retire = {} /\ tx[s].add = <<>>
  /\ signals' = {[r EXCEPT !.born = IF @ = s THEN None ELSE @] :
                   r \in {q \in signals : q.dying # s}}
  /\ frozen' = (frozen \/ tx[s].override)
  /\ stale' = (IF frozen' /\ ~frozen THEN Underway ELSE stale) \ {s}
  /\ tx' = [tx EXCEPT ![s] = Idle]
  /\ lock' = Unlocked(s)
  /\ UNCHANGED <<requests, faults>>

(* A refused statement ends the request: 404, 409, or 500 of an override.   *)
Refuse(s) == Rollback(s) /\ UNCHANGED faults

-----------------------------------------------------------------------------
(* An override: the lock, then every active signal is retired and those of  *)
(* the body are added.                                                     *)
Lock(s) ==
  /\ tx[s].pc = "lock" /\ lock = None
  /\ lock' = s
  /\ tx' = [tx EXCEPT ![s].pc = "list"]
  /\ UNCHANGED <<signals, frozen, requests, faults, stale>>

list_active(s) ==
  /\ tx[s].pc = "list"
  /\ tx' = [tx EXCEPT ![s].pc = "next", ![s].retire = Active]
  /\ UNCHANGED <<signals, frozen, lock, requests, faults, stale>>

(* enforce_signals_freeze: the token is set by an override alone.           *)
Blocked(s) == frozen /\ ~tx[s].override

(* The UPDATE of retire() finds its row as it begins, waits for whoever     *)
(* retires it, and looks again; then the trigger runs.  No such row is 404  *)
(* for a DELETE, and nothing for an override.                               *)
Find(s) ==
  /\ tx[s].pc = "next"
  /\ \E n \in tx[s].retire :
       tx' = [tx EXCEPT ![s].pc = "row", ![s].name = n,
                ![s].rows = {Identity(r) : r \in
                   {q \in signals : q.name = n /\ Committed(q)}}]
  /\ UNCHANGED <<signals, frozen, lock, requests, faults, stale>>

Found(s) == {r \in signals : Identity(r) \in tx[s].rows}

Retired(s) ==
  [tx EXCEPT ![s].pc = "next", ![s].retire = @ \ {tx[s].name},
             ![s].name = None, ![s].rows = {}]

NotFound(s) ==
  /\ tx[s].pc = "row" /\ Found(s) = {}
  /\ IF tx[s].override
     THEN /\ tx' = Retired(s)
          /\ UNCHANGED <<signals, frozen, lock, requests, faults, stale>>
     ELSE Refuse(s)

(* Faulty: the trigger of signals is BEFORE INSERT only.                    *)
retire_Unguarded(s) ==
  /\ tx[s].pc = "row" /\ Found(s) # {}
  /\ \A r \in Found(s) : r.dying = None
  /\ signals' = {[r EXCEPT !.dying = IF r \in Found(s) THEN s ELSE @] :
                   r \in signals}
  /\ tx' = Retired(s)
  /\ UNCHANGED <<frozen, lock, requests, faults, stale>>

retire(s) ==
  /\ tx[s].pc = "row" /\ Found(s) # {}
  /\ \A r \in Found(s) : r.dying = None
  /\ IF Blocked(s)
     THEN Refuse(s)
     ELSE /\ signals' = {[r EXCEPT !.dying = IF r \in Found(s) THEN s ELSE @] :
                           r \in signals}
          /\ tx' = Retired(s)
          /\ UNCHANGED <<frozen, lock, requests, faults, stale>>

(* The INSERT of add(): the trigger, then the index, which waits for whoever *)
(* inserts or retires a row of that name.                                  *)
Trigger(s) ==
  /\ tx[s].pc = "next" /\ tx[s].retire = {} /\ tx[s].add # <<>>
  /\ IF Blocked(s)
     THEN Refuse(s)
     ELSE /\ tx' = [tx EXCEPT ![s].pc = "index"]
          /\ UNCHANGED <<signals, frozen, lock, requests, faults, stale>>

Namesakes(s) == {r \in signals : r.name = Head(tx[s].add) /\ r.dying # s}

(* Faulty: whether the name is active is looked up before it is inserted.   *)
add_CheckFirst(s) ==
  /\ tx[s].pc = "index"
  /\ IF \E r \in Namesakes(s) : r.born \in {None, s}
     THEN Refuse(s)
     ELSE /\ signals' = signals \cup
               {[name |-> Head(tx[s].add), request |-> tx[s].request,
                 statement |-> Len(tx[s].add), override |-> tx[s].override,
                 born |-> s, dying |-> None]}
          /\ tx' = [tx EXCEPT ![s].pc = "next", ![s].add = Tail(@)]
          /\ UNCHANGED <<frozen, lock, requests, faults, stale>>

add(s) ==
  /\ tx[s].pc = "index"
  /\ \A r \in Namesakes(s) : r.born \in {None, s} /\ r.dying = None
  /\ IF Namesakes(s) # {}
     THEN Refuse(s)      \* UniqueViolationError
     ELSE /\ signals' = signals \cup
               {[name |-> Head(tx[s].add), request |-> tx[s].request,
                 statement |-> Len(tx[s].add), override |-> tx[s].override,
                 born |-> s, dying |-> None]}
          /\ tx' = [tx EXCEPT ![s].pc = "next", ![s].add = Tail(@)]
          /\ UNCHANGED <<frozen, lock, requests, faults, stale>>

-----------------------------------------------------------------------------
(* Others' transactions, under the lock; what else they write is not seen   *)
(* here.                                                                   *)
Fail(s) ==
  /\ tx[s].pc # "idle"
  /\ faults < MaxFaults /\ faults' = faults + 1
  /\ Rollback(s)

confirm_device ==
  /\ lock = None /\ ~frozen
  /\ frozen' = TRUE /\ stale' = Underway
  /\ UNCHANGED <<signals, lock, tx, requests, faults>>

demote_to_candidate ==
  /\ lock = None /\ frozen
  /\ frozen' = FALSE /\ stale' = {}
  /\ UNCHANGED <<signals, lock, tx, requests, faults>>

Call(s) ==
  \/ \E n \in Names : add_signal(s, n) \/ delete_signal(s, n)
  \/ \E b \in Bodies : override_device(s, b)

Serve(s) ==
  \/ Lock(s) \/ list_active(s) \/ Find(s) \/ NotFound(s) \/ retire(s)
  \/ Trigger(s) \/ add(s) \/ Commit(s)

Next ==
  \/ \E s \in Slots : Call(s) \/ Serve(s) \/ Fail(s)
  \/ confirm_device \/ demote_to_candidate

Spec == Init /\ [][Next]_vars

(* Statements return, and the lock manager serves first come, first served. *)
FairSpec == Spec /\ \A s \in Slots : SF_vars(Serve(s))

-----------------------------------------------------------------------------
(* Properties.                                                             *)

Tx == [pc : {"idle", "lock", "list", "next", "row", "index"},
       override : BOOLEAN, request : Nat, retire : SUBSET Names,
       add : Seq(Names), name : Names \cup {None},
       rows : SUBSET (Names \X Nat \X Nat)]

TypeOK ==
  /\ signals \subseteq Row
  /\ frozen \in BOOLEAN
  /\ lock \in Slots \cup {None}
  /\ tx \in [Slots -> Tx]
  /\ requests \in 0..MaxRequests /\ faults \in 0..MaxFaults
  /\ stale \subseteq Slots

(* ADR-011: a signal has one active version, whoever adds, deletes and      *)
(* overrides at once.                                                      *)
OneVersion ==
  \A q, r \in signals : Committed(q) /\ Committed(r) /\ q.name = r.name => q = r

(* An override replaces what earlier overrides set: the active signals are  *)
(* never of two bodies mixed.                                              *)
BodiesNeverMix ==
  \A q, r \in signals :
    Committed(q) /\ Committed(r) /\ q.override /\ r.override
    => q.request = r.request

(* Once a freeze is committed, what is active is changed by overrides, and  *)
(* by the requests that were already under way: never by a later one.       *)
FreezeHolds ==
  [][frozen /\ Active' # Active =>
       \E s \in Slots : /\ tx[s].pc = "next" /\ tx'[s].pc = "idle"
                        /\ tx[s].override \/ s \in stale]_vars

(* ADR-018:34, "signals are fully frozen": the signals of a frozen device   *)
(* change by an override alone.                                            *)
FrozenSignalsStay ==
  [][frozen /\ Active' # Active =>
       \E s \in Slots : tx[s].override /\ tx[s].pc = "next"
                        /\ tx'[s].pc = "idle"]_vars

(* Every request comes to an end: no circle of waits among rows, names and  *)
(* the lock.                                                               *)
Answered == \A s \in Slots : []<>(tx[s].pc = "idle")
=============================================================================
