--------------------------- MODULE SignalsProofs ---------------------------
(***************************************************************************)
(* One active version per signal and the hold of a freeze, for any names,   *)
(* bodies and number of concurrent requests.                               *)
(***************************************************************************)
EXTENDS Signals, SequenceTheorems, TLAPS

LEMMA NoneIsNoSlot == None \notin Slots
BY SignalsAssumption

-----------------------------------------------------------------------------
(* Type correctness.                                                       *)

LEMMA IdleType == Idle \in Tx
<1>1. <<>> \in Seq(Names) BY EmptySeq
<1> QED BY <1>1 DEF Idle, Tx

Pending == \A s \in Slots : tx[s].pc = "index" => tx[s].add # <<>>

Typed == TypeOK /\ Pending

LEMMA TypeInit == Init => Typed
<1> SUFFICES ASSUME Init PROVE Typed OBVIOUS
<1>1. signals \subseteq Row
  <2>1. \A n \in Initially :
          [name |-> n, request |-> 0, statement |-> 0, override |-> FALSE,
           born |-> None, dying |-> None] \in Row
    BY SignalsAssumption DEF Row
  <2> QED BY <2>1 DEF Init
<1>2. tx \in [Slots -> Tx] BY IdleType DEF Init
<1>3. requests \in 0..MaxRequests /\ faults \in 0..MaxFaults
  BY SignalsAssumption DEF Init
<1>4. Pending BY DEF Init, Pending, Idle
<1> QED BY <1>1, <1>2, <1>3, <1>4 DEF Init, Typed, TypeOK

LEMMA RollbackType ==
  ASSUME Typed, NEW s \in Slots, Rollback(s), faults' \in 0..MaxFaults
  PROVE  Typed'
<1>1. signals' \subseteq Row BY DEF Rollback, Typed, TypeOK, Row
<1>2. tx' \in [Slots -> Tx] BY IdleType DEF Rollback, Typed, TypeOK
<1>3. lock' \in Slots \cup {None} BY DEF Rollback, Unlocked, Typed, TypeOK
<1>4. Pending' BY DEF Rollback, Typed, TypeOK, Pending, Idle
<1> QED BY <1>1, <1>2, <1>3, <1>4 DEF Rollback, Typed, TypeOK

LEMMA RefuseType ==
  ASSUME Typed, NEW s \in Slots, Refuse(s)
  PROVE  Typed'
BY RollbackType DEF Refuse, Typed, TypeOK

LEMMA RequestType ==
  ASSUME Typed, NEW s \in Slots, NEW call \in Tx, call.pc # "index",
         Request(s, call)
  PROVE  Typed'
<1> DEFINE t == [call EXCEPT !.request = requests + 1]
<1>1. requests \in Nat /\ requests' \in 0..MaxRequests
  BY SignalsAssumption DEF Request, Typed, TypeOK
<1>2. t \in Tx /\ t.pc # "index" BY <1>1 DEF Tx
<1>3. tx' = [tx EXCEPT ![s] = t] BY DEF Request
<1> HIDE DEF t
<1>4. tx' \in [Slots -> Tx] BY <1>2, <1>3 DEF Typed, TypeOK
<1>5. Pending' BY <1>2, <1>3 DEF Typed, TypeOK, Pending
<1> QED BY <1>1, <1>4, <1>5 DEF Request, Typed, TypeOK

LEMMA CallType ==
  ASSUME Typed, NEW s \in Slots, Call(s)
  PROVE  Typed'
<1>1. ASSUME NEW n \in Names, add_signal(s, n) PROVE Typed'
  <2> DEFINE call == [Idle EXCEPT !.pc = "next", !.add = <<n>>]
  <2>1. <<n>> \in Seq(Names) OBVIOUS
  <2>2. call \in Tx /\ call.pc # "index" BY <2>1, IdleType DEF Tx, Idle
  <2>3. Request(s, call) BY <1>1 DEF add_signal
  <2> HIDE DEF call
  <2> QED BY <2>2, <2>3, RequestType
<1>2. ASSUME NEW n \in Names, delete_signal(s, n) PROVE Typed'
  <2> DEFINE call == [Idle EXCEPT !.pc = "next", !.retire = {n}]
  <2>1. call \in Tx /\ call.pc # "index" BY IdleType DEF Tx, Idle
  <2>2. Request(s, call) BY <1>2 DEF delete_signal
  <2> HIDE DEF call
  <2> QED BY <2>1, <2>2, RequestType
<1>3. ASSUME NEW b \in Bodies, override_device(s, b) PROVE Typed'
  <2> DEFINE call == [Idle EXCEPT !.pc = "lock", !.override = TRUE, !.add = b]
  <2>1. b \in Seq(Names) BY SignalsAssumption
  <2>2. call \in Tx /\ call.pc # "index" BY <2>1, IdleType DEF Tx, Idle
  <2>3. Request(s, call) BY <1>3 DEF override_device
  <2> HIDE DEF call
  <2> QED BY <2>2, <2>3, RequestType
<1> QED BY <1>1, <1>2, <1>3 DEF Call

LEMMA RetiredType ==
  ASSUME Typed, NEW s \in Slots, tx' = Retired(s)
  PROVE  /\ tx' \in [Slots -> Tx] /\ Pending'
         /\ tx'[s].override = tx[s].override /\ tx'[s].pc = "next"
         /\ \A t \in Slots \ {s} : tx'[t] = tx[t]
<1> DEFINE t == [tx[s] EXCEPT !.pc = "next", !.retire = @ \ {tx[s].name},
                              !.name = None, !.rows = {}]
<1>1. tx[s] \in Tx /\ tx \in [Slots -> Tx] BY DEF Typed, TypeOK
<1>2. t \in Tx /\ t.override = tx[s].override /\ t.pc = "next" BY <1>1 DEF Tx
<1>3. tx' = [tx EXCEPT ![s] = t] BY <1>1 DEF Retired
<1> HIDE DEF t
<1> QED BY <1>1, <1>2, <1>3 DEF Typed, Pending

(* retire only marks rows that nobody retires.                             *)
LEMMA RetireRows ==
  ASSUME Typed, NEW s \in Slots, retire(s), ~Blocked(s)
  PROVE  /\ signals' \subseteq Row
         /\ \A q \in signals' : \E r \in signals :
              /\ q.name = r.name /\ q.born = r.born
              /\ q = r \/ (r.dying = None /\ q.dying = s)
         /\ tx' = Retired(s)
         /\ UNCHANGED <<frozen, lock, requests, faults, stale>>
<1> DEFINE Mark(r) == [r EXCEPT !.dying = IF r \in Found(s) THEN s ELSE @]
<1>1. /\ signals' = {Mark(r) : r \in signals}
      /\ \A r \in Found(s) : r.dying = None
      /\ tx' = Retired(s)
      /\ UNCHANGED <<frozen, lock, requests, faults, stale>>
  BY DEF retire
<1>2. signals \subseteq Row BY DEF Typed, TypeOK
<1>3. signals' \subseteq Row BY <1>1, <1>2 DEF Row
<1>4. \A r \in signals :
        /\ Mark(r).name = r.name /\ Mark(r).born = r.born
        /\ Mark(r) = r \/ (r.dying = None /\ Mark(r).dying = s)
  BY <1>1, <1>2 DEF Row
<1> HIDE DEF Mark
<1>5. \A q \in signals' : \E r \in signals :
        /\ q.name = r.name /\ q.born = r.born
        /\ q = r \/ (r.dying = None /\ q.dying = s)
  <2> SUFFICES ASSUME NEW q \in signals'
               PROVE  \E r \in signals :
                        /\ q.name = r.name /\ q.born = r.born
                        /\ q = r \/ (r.dying = None /\ q.dying = s)
    OBVIOUS
  <2>1. PICK r \in signals : q = Mark(r) BY <1>1
  <2>2. /\ q.name = r.name /\ q.born = r.born
        /\ q = r \/ (r.dying = None /\ q.dying = s)
    BY <1>4, <2>1
  <2> QED BY <2>2
<1> QED BY <1>1, <1>3, <1>5

(* add inserts one row, of its own.                                        *)
LEMMA AddRows ==
  ASSUME Typed, NEW s \in Slots, add(s), Namesakes(s) = {}
  PROVE  /\ \E r \in Row :
              /\ r.name = Head(tx[s].add) /\ r.born = s /\ r.dying = None
              /\ signals' = signals \cup {r}
         /\ tx' \in [Slots -> Tx] /\ Pending'
         /\ tx'[s].override = tx[s].override /\ tx'[s].pc = "next"
         /\ \A t \in Slots \ {s} : tx'[t] = tx[t]
         /\ UNCHANGED <<frozen, lock, requests, faults, stale>>
<1> DEFINE r == [name |-> Head(tx[s].add), request |-> tx[s].request,
                 statement |-> Len(tx[s].add), override |-> tx[s].override,
                 born |-> s, dying |-> None]
           t == [tx[s] EXCEPT !.pc = "next", !.add = Tail(@)]
<1>1. /\ tx[s] \in Tx /\ tx \in [Slots -> Tx] /\ tx[s].add \in Seq(Names)
      /\ tx[s].add # <<>>
  BY DEF add, Typed, TypeOK, Pending, Tx
<1>2. Head(tx[s].add) \in Names /\ Tail(tx[s].add) \in Seq(Names)
      /\ Len(tx[s].add) \in Nat
  BY <1>1, HeadTailProperties, LenProperties
<1>3. r \in Row /\ r.name = Head(tx[s].add) /\ r.born = s /\ r.dying = None
  BY <1>1, <1>2 DEF Row, Tx
<1>4. t \in Tx /\ t.override = tx[s].override /\ t.pc = "next"
  BY <1>1, <1>2 DEF Tx
<1>5. /\ signals' = signals \cup {r} /\ tx' = [tx EXCEPT ![s] = t]
      /\ UNCHANGED <<frozen, lock, requests, faults, stale>>
  BY <1>1 DEF add
<1> HIDE DEF r, t
<1> QED BY <1>1, <1>3, <1>4, <1>5 DEF Typed, Pending

LEMMA ServeType ==
  ASSUME Typed, NEW s \in Slots, Serve(s)
  PROVE  Typed'
<1> USE DEF Typed
<1>0. tx[s] \in Tx /\ tx \in [Slots -> Tx] /\ signals \subseteq Row BY DEF TypeOK
<1>1. CASE Lock(s)
  <2>1. tx' \in [Slots -> Tx] BY <1>0, <1>1 DEF Lock, Tx
  <2>2. Pending' BY <1>0, <1>1 DEF Lock, Pending, Tx
  <2> QED BY <1>1, <2>1, <2>2 DEF Lock, TypeOK
<1>2. CASE list_active(s)
  <2>1. Active \subseteq Names BY <1>0 DEF Active, Row
  <2>2. tx' \in [Slots -> Tx] BY <1>0, <1>2, <2>1 DEF list_active, Tx
  <2>3. Pending' BY <1>0, <1>2 DEF list_active, Pending, Tx
  <2> QED BY <1>2, <2>2, <2>3 DEF list_active, TypeOK
<1>3. CASE Find(s)
  <2>1. PICK n \in tx[s].retire :
          tx' = [tx EXCEPT ![s].pc = "row", ![s].name = n,
                   ![s].rows = {Identity(r) : r \in
                      {q \in signals : q.name = n /\ Committed(q)}}]
    BY <1>3 DEF Find
  <2>2. {Identity(r) : r \in {q \in signals : q.name = n /\ Committed(q)}}
          \in SUBSET (Names \X Nat \X Nat)
    BY <1>0 DEF Identity, Row
  <2>3. tx' \in [Slots -> Tx] BY <1>0, <2>1, <2>2 DEF Tx
  <2>4. Pending' BY <1>0, <2>1 DEF Pending, Tx
  <2> QED BY <1>3, <2>3, <2>4 DEF Find, TypeOK
<1>4. CASE NotFound(s)
  BY <1>4, RetiredType, RefuseType DEF NotFound, TypeOK
<1>5. CASE retire(s)
  <2>1. CASE Blocked(s) BY <1>5, <2>1, RefuseType DEF retire
  <2>2. CASE ~Blocked(s) BY <1>5, <2>2, RetireRows, RetiredType DEF TypeOK
  <2> QED BY <2>1, <2>2
<1>6. CASE Trigger(s)
  <2>1. CASE Blocked(s) BY <1>6, <2>1, RefuseType DEF Trigger
  <2>2. CASE ~Blocked(s)
    <3>1. tx' = [tx EXCEPT ![s].pc = "index"] /\ tx[s].add # <<>>
      BY <1>6, <2>2 DEF Trigger
    <3>2. tx' \in [Slots -> Tx] BY <1>0, <3>1 DEF Tx
    <3>3. Pending' BY <1>0, <3>1 DEF Pending, Tx
    <3> QED BY <1>6, <2>2, <3>2, <3>3 DEF Trigger, TypeOK
  <2> QED BY <2>1, <2>2
<1>7. CASE add(s)
  <2>1. CASE Namesakes(s) # {} BY <1>7, <2>1, RefuseType DEF add
  <2>2. CASE Namesakes(s) = {} BY <1>7, <2>2, AddRows DEF TypeOK
  <2> QED BY <2>1, <2>2
<1>8. CASE Commit(s)
  <2>1. signals' \subseteq Row BY <1>0, <1>8 DEF Commit, Row
  <2>2. tx' \in [Slots -> Tx] /\ Pending'
    BY <1>0, <1>8, IdleType DEF Commit, Pending, Idle
  <2>3. lock' \in Slots \cup {None} BY <1>8 DEF Commit, Unlocked, TypeOK
  <2>4. frozen' \in BOOLEAN /\ stale' \subseteq Slots
    BY <1>0, <1>8 DEF Commit, TypeOK, Underway, Tx
  <2> QED BY <1>8, <2>1, <2>2, <2>3, <2>4 DEF Commit, TypeOK
<1> QED BY <1>1, <1>2, <1>3, <1>4, <1>5, <1>6, <1>7, <1>8 DEF Serve

LEMMA TypeStep == Typed /\ [Next]_vars => Typed'
<1> SUFFICES ASSUME Typed, [Next]_vars PROVE Typed' OBVIOUS
<1>1. ASSUME NEW s \in Slots, Fail(s) PROVE Typed'
  <2>1. faults' \in 0..MaxFaults
    BY <1>1, SignalsAssumption DEF Fail, Typed, TypeOK
  <2> QED BY <1>1, <2>1, RollbackType DEF Fail
<1>2. CASE confirm_device \/ demote_to_candidate
  BY <1>2 DEF confirm_device, demote_to_candidate, Typed, TypeOK, Pending, Underway
<1>3. CASE UNCHANGED vars BY <1>3 DEF vars, Typed, TypeOK, Pending
<1> QED BY <1>1, <1>2, <1>3, CallType, ServeType DEF Next

(* TypeOK, of Signals.                                                     *)
THEOREM TypeCorrect == Spec => []TypeOK
<1>1. Typed => TypeOK BY DEF Typed
<1> QED BY <1>1, TypeInit, TypeStep, PTL DEF Spec

-----------------------------------------------------------------------------
(* One version: of two rows of a name, one is being replaced by the other.  *)

Replaces(q, r) == r.dying # None /\ q.born = r.dying
Versions ==
  \A q, r \in signals :
    q.name = r.name /\ q # r => Replaces(q, r) \/ Replaces(r, q)

LEMMA VersionsInit == Init => Versions
<1> SUFFICES ASSUME Init, NEW q \in signals, NEW r \in signals, q.name = r.name
             PROVE  q = r
  BY DEF Versions
<1> DEFINE First(n) == [name |-> n, request |-> 0, statement |-> 0,
                        override |-> FALSE, born |-> None, dying |-> None]
<1>1. signals = {First(n) : n \in Initially} BY DEF Init
<1>2. \A n \in Initially : First(n).name = n OBVIOUS
<1> HIDE DEF First
<1> QED BY <1>1, <1>2

LEMMA RollbackVersions ==
  ASSUME Typed, Versions, NEW s \in Slots, Rollback(s)
  PROVE  Versions'
<1> DEFINE Mark(r) == [r EXCEPT !.dying = IF @ = s THEN None ELSE @]
<1>1. signals' = {Mark(r) : r \in {q \in signals : q.born # s}} BY DEF Rollback
<1>2. \A r \in signals : /\ Mark(r).name = r.name /\ Mark(r).born = r.born
                         /\ r.dying # s => Mark(r).dying = r.dying
  BY DEF Typed, TypeOK, Row
<1> HIDE DEF Mark
<1> SUFFICES ASSUME NEW q \in signals, NEW r \in signals,
                    q.born # s, r.born # s, q.name = r.name, q # r
             PROVE  Replaces(Mark(q), Mark(r)) \/ Replaces(Mark(r), Mark(q))
  BY <1>1, <1>2 DEF Versions
<1> QED BY <1>2 DEF Versions, Replaces

LEMMA CommitVersions ==
  ASSUME Typed, Versions, NEW s \in Slots, Commit(s)
  PROVE  Versions'
<1> DEFINE Mark(r) == [r EXCEPT !.born = IF @ = s THEN None ELSE @]
<1>1. signals' = {Mark(r) : r \in {q \in signals : q.dying # s}} BY DEF Commit
<1>2. \A r \in signals : /\ Mark(r).name = r.name /\ Mark(r).dying = r.dying
                         /\ r.born # s => Mark(r).born = r.born
  BY DEF Typed, TypeOK, Row
<1> HIDE DEF Mark
<1> SUFFICES ASSUME NEW q \in signals, NEW r \in signals,
                    q.dying # s, r.dying # s, q.name = r.name, q # r
             PROVE  Replaces(Mark(q), Mark(r)) \/ Replaces(Mark(r), Mark(q))
  BY <1>1, <1>2 DEF Versions
<1> QED BY <1>2 DEF Versions, Replaces

LEMMA RetireVersions ==
  ASSUME Typed, Versions, NEW s \in Slots, retire(s), ~Blocked(s)
  PROVE  Versions'
<1> DEFINE Mark(r) == [r EXCEPT !.dying = IF r \in Found(s) THEN s ELSE @]
<1>1. signals' = {Mark(r) : r \in signals} /\ \A r \in Found(s) : r.dying = None
  BY DEF retire
<1>2. \A r \in signals : /\ Mark(r).name = r.name /\ Mark(r).born = r.born
                         /\ r.dying # None => Mark(r).dying = r.dying
  BY <1>1 DEF Typed, TypeOK, Row
<1> HIDE DEF Mark
<1> SUFFICES ASSUME NEW q \in signals, NEW r \in signals,
                    q.name = r.name, q # r
             PROVE  Replaces(Mark(q), Mark(r)) \/ Replaces(Mark(r), Mark(q))
  BY <1>1, <1>2 DEF Versions
<1> QED BY <1>2 DEF Versions, Replaces

LEMMA AddVersions ==
  ASSUME Typed, Versions, NEW s \in Slots, add(s), Namesakes(s) = {}
  PROVE  Versions'
<1>1. PICK r \in Row : /\ r.name = Head(tx[s].add) /\ r.born = s
                       /\ signals' = signals \cup {r}
  BY AddRows
<1>2. \A q \in signals : q.name = r.name => q.dying = s
  BY <1>1 DEF Namesakes
<1>3. \A q \in signals : q.name = r.name => Replaces(r, q)
  BY <1>1, <1>2, NoneIsNoSlot DEF Replaces
<1> QED BY <1>1, <1>3 DEF Versions, Replaces

LEMMA VersionsStep ==
  ASSUME Typed, Versions, [Next]_vars
  PROVE  Versions'
<1>1. ASSUME signals' = signals PROVE Versions' BY <1>1 DEF Versions, Replaces
<1>2. ASSUME NEW s \in Slots, Refuse(s) PROVE Versions'
  BY <1>2, RollbackVersions DEF Refuse
<1>3. ASSUME NEW s \in Slots, Call(s) PROVE signals' = signals
  BY <1>3 DEF Call, add_signal, delete_signal, override_device, Request
<1>4. ASSUME NEW s \in Slots, Serve(s) PROVE Versions'
  <2>1. CASE Lock(s) \/ list_active(s) \/ Find(s)
    BY <1>1, <2>1 DEF Lock, list_active, Find
  <2>2. CASE NotFound(s) BY <1>1, <1>2, <2>2 DEF NotFound
  <2>3. CASE retire(s) BY <1>2, <2>3, RetireVersions DEF retire
  <2>4. CASE Trigger(s) BY <1>1, <1>2, <2>4 DEF Trigger
  <2>5. CASE add(s) BY <1>2, <2>5, AddVersions DEF add
  <2>6. CASE Commit(s) BY <2>6, CommitVersions
  <2> QED BY <1>4, <2>1, <2>2, <2>3, <2>4, <2>5, <2>6 DEF Serve
<1>5. ASSUME NEW s \in Slots, Fail(s) PROVE Versions'
  BY <1>5, RollbackVersions DEF Fail
<1>6. CASE confirm_device \/ demote_to_candidate \/ UNCHANGED vars
  BY <1>1, <1>6 DEF confirm_device, demote_to_candidate, vars
<1> QED BY <1>1, <1>3, <1>4, <1>5, <1>6 DEF Next

LEMMA VersionsAreEnough == Typed /\ Versions => OneVersion
BY DEF Versions, Replaces, OneVersion, Committed

(* ADR-011: one active version of each signal.                             *)
THEOREM OneActiveVersion == Spec => []OneVersion
BY TypeInit, TypeStep, VersionsInit, VersionsStep, VersionsAreEnough,
   PTL DEF Spec

-----------------------------------------------------------------------------
(* The hold of a freeze.  Who is idle has no rows, and neither has, while   *)
(* the device is frozen, a request without the token that is not stale.     *)

NoRows(s) == \A r \in signals : r.born # s /\ r.dying # s

Held ==
  \A s \in Slots :
    /\ tx[s].pc = "idle" => NoRows(s)
    /\ frozen /\ ~tx[s].override /\ s \notin stale =>
         NoRows(s) /\ tx[s].pc # "index"

LEMMA HeldInit == Init => Held
<1> SUFFICES ASSUME Init PROVE Held OBVIOUS
<1>1. \A r \in signals : r.born = None /\ r.dying = None
  <2> DEFINE First(n) == [name |-> n, request |-> 0, statement |-> 0,
                          override |-> FALSE, born |-> None, dying |-> None]
  <2>1. signals = {First(n) : n \in Initially} BY DEF Init
  <2>2. \A n \in Initially : First(n).born = None /\ First(n).dying = None
    OBVIOUS
  <2> HIDE DEF First
  <2> QED BY <2>1, <2>2
<1>2. \A s \in Slots : tx[s].pc = "idle" BY DEF Init, Idle
<1>3. \A s \in Slots : NoRows(s) BY <1>1, NoneIsNoSlot DEF NoRows
<1> QED BY <1>2, <1>3 DEF Held

(* Where the rows of the others do not change.                             *)
LEMMA HeldFrame ==
  ASSUME Held, NEW s \in Slots, stale \ {s} \subseteq stale', frozen' = frozen,
         \A t \in Slots \ {s} : tx'[t] = tx[t] /\ (NoRows(t) => NoRows(t)'),
         tx'[s].pc = "idle" => NoRows(s)',
         frozen /\ ~tx'[s].override /\ s \notin stale' =>
           NoRows(s)' /\ tx'[s].pc # "index"
  PROVE  Held'
<1> SUFFICES ASSUME NEW t \in Slots
             PROVE  /\ tx'[t].pc = "idle" => NoRows(t)'
                    /\ frozen' /\ ~tx'[t].override /\ t \notin stale' =>
                         NoRows(t)' /\ tx'[t].pc # "index"
  BY DEF Held
<1>1. CASE t = s BY <1>1
<1>2. CASE t # s BY <1>2 DEF Held
<1> QED BY <1>1, <1>2

LEMMA EndOfRows ==
  ASSUME Typed, NEW s \in Slots, Rollback(s) \/ Commit(s)
  PROVE  /\ tx'[s].pc = "idle" /\ \A t \in Slots \ {s} : tx'[t] = tx[t]
         /\ stale \ {s} \subseteq stale' \/ frozen' # frozen
         /\ Rollback(s) => NoRows(s)'
         /\ \A t \in Slots \ {s} : NoRows(t) => NoRows(t)'
<1>1. signals \subseteq Row /\ tx \in [Slots -> Tx] BY DEF Typed, TypeOK
<1>2. tx'[s].pc = "idle" /\ \A t \in Slots \ {s} : tx'[t] = tx[t]
  BY <1>1 DEF Rollback, Commit, Idle
<1>3. CASE Rollback(s)
  <2> DEFINE Mark(r) == [r EXCEPT !.dying = IF @ = s THEN None ELSE @]
  <2>1. signals' = {Mark(r) : r \in {q \in signals : q.born # s}}
    BY <1>3 DEF Rollback
  <2>2. \A r \in signals : /\ Mark(r).born = r.born
                           /\ Mark(r).dying = IF r.dying = s THEN None ELSE r.dying
    BY <1>1 DEF Row
  <2> HIDE DEF Mark
  <2>3. \A t \in Slots \ {s} : NoRows(t) => NoRows(t)'
    BY <2>1, <2>2, NoneIsNoSlot DEF NoRows
  <2>4. NoRows(s)' BY <2>1, <2>2, NoneIsNoSlot DEF NoRows
  <2> QED BY <1>2, <1>3, <2>3, <2>4 DEF Rollback
<1>4. CASE Commit(s)
  <2> DEFINE Mark(r) == [r EXCEPT !.born = IF @ = s THEN None ELSE @]
  <2>1. signals' = {Mark(r) : r \in {q \in signals : q.dying # s}}
    BY <1>4 DEF Commit
  <2>2. \A r \in signals : /\ Mark(r).dying = r.dying
                           /\ Mark(r).born = IF r.born = s THEN None ELSE r.born
    BY <1>1 DEF Row
  <2> HIDE DEF Mark
  <2>3. \A t \in Slots \ {s} : NoRows(t) => NoRows(t)'
    BY <2>1, <2>2, NoneIsNoSlot DEF NoRows
  <2>4. NoRows(s)' BY <2>1, <2>2, NoneIsNoSlot DEF NoRows
  <2>5. stale \ {s} \subseteq stale' \/ frozen' # frozen
    BY <1>4 DEF Commit, Typed, TypeOK
  <2> QED BY <1>2, <2>3, <2>4, <2>5
<1> QED BY <1>3, <1>4

LEMMA HeldRollback ==
  ASSUME Typed, Held, NEW s \in Slots, Rollback(s)
  PROVE  Held'
<1>1. frozen' = frozen /\ stale' = stale \ {s} BY DEF Rollback
<1>2. tx'[s].pc # "index" BY EndOfRows
<1> QED BY <1>1, <1>2, EndOfRows, HeldFrame

LEMMA CommitRows ==
  ASSUME Typed, NEW s \in Slots, Commit(s)
  PROVE  /\ NoRows(s)'
         /\ NoRows(s) => signals' = signals
<1> DEFINE Mark(r) == [r EXCEPT !.born = IF @ = s THEN None ELSE @]
<1>1. signals' = {Mark(r) : r \in {q \in signals : q.dying # s}}
  BY DEF Commit
<1>2. \A r \in signals :
        /\ Mark(r).dying = r.dying
        /\ Mark(r).born = IF r.born = s THEN None ELSE r.born
        /\ r.born # s => Mark(r) = r
  BY DEF Typed, TypeOK, Row
<1> HIDE DEF Mark
<1>3. NoRows(s)' BY <1>1, <1>2, NoneIsNoSlot DEF NoRows
<1>4. NoRows(s) => signals' = signals BY <1>1, <1>2 DEF NoRows
<1> QED BY <1>3, <1>4

LEMMA HeldCommit ==
  ASSUME Typed, Held, NEW s \in Slots, Commit(s)
  PROVE  Held'
<1>1. /\ tx'[s].pc = "idle" /\ \A t \in Slots \ {s} : tx'[t] = tx[t]
      /\ \A t \in Slots \ {s} : NoRows(t) => NoRows(t)'
      /\ NoRows(s)'
  BY EndOfRows, CommitRows
<1>2. frozen' = (frozen \/ tx[s].override)
      /\ stale' = (IF frozen' /\ ~frozen THEN Underway ELSE stale) \ {s}
  BY DEF Commit
<1>3. frozen \in BOOLEAN /\ frozen' \in BOOLEAN BY TypeStep DEF Typed, TypeOK, Next, Serve
<1>4. CASE frozen' = frozen
  BY <1>1, <1>2, <1>4, HeldFrame
<1>5. CASE frozen' # frozen
  <2>1. stale' = Underway \ {s} /\ frozen' BY <1>2, <1>3, <1>5
  <2>2. \A t \in Slots \ {s} : t \in stale' \/ tx[t].pc = "idle"
    BY <2>1 DEF Underway
  <2> SUFFICES ASSUME NEW t \in Slots
               PROVE  /\ tx'[t].pc = "idle" => NoRows(t)'
                      /\ t \notin stale' => NoRows(t)' /\ tx'[t].pc # "index"
    BY DEF Held
  <2>3. CASE t = s BY <1>1, <2>3
  <2>4. CASE t # s BY <1>1, <2>2, <2>4 DEF Held
  <2> QED BY <2>3, <2>4
<1> QED BY <1>4, <1>5

LEMMA HeldServe ==
  ASSUME Typed, Held, NEW s \in Slots, Serve(s)
  PROVE  Held'
<1>0. tx[s] \in Tx /\ tx \in [Slots -> Tx] BY DEF Typed, TypeOK
<1>1. ASSUME Refuse(s) PROVE Held' BY <1>1, HeldRollback DEF Refuse
<1>2. ASSUME UNCHANGED <<signals, frozen, stale>>,
             \A t \in Slots \ {s} : tx'[t] = tx[t],
             tx[s].pc # "index", tx'[s].pc \notin {"idle", "index"},
             tx'[s].override = tx[s].override
      PROVE  Held'
  <2>1. \A t \in Slots : NoRows(t)' <=> NoRows(t) BY <1>2 DEF NoRows
  <2>2. frozen /\ ~tx'[s].override /\ s \notin stale' =>
          NoRows(s)' /\ tx'[s].pc # "index"
    BY <1>2, <2>1 DEF Held
  <2> QED BY <1>2, <2>1, <2>2, HeldFrame
<1>3. CASE Lock(s)
  <2>1. /\ \A t \in Slots \ {s} : tx'[t] = tx[t]
        /\ tx[s].pc = "lock" /\ tx'[s].pc = "list"
        /\ tx'[s].override = tx[s].override
        /\ UNCHANGED <<signals, frozen, stale>>
    BY <1>0, <1>3 DEF Lock, Tx
  <2> QED BY <1>2, <2>1
<1>4. CASE list_active(s)
  <2>1. /\ \A t \in Slots \ {s} : tx'[t] = tx[t]
        /\ tx[s].pc = "list" /\ tx'[s].pc = "next"
        /\ tx'[s].override = tx[s].override
        /\ UNCHANGED <<signals, frozen, stale>>
    BY <1>0, <1>4 DEF list_active, Tx
  <2> QED BY <1>2, <2>1
<1>5. CASE Find(s)
  <2>1. /\ \A t \in Slots \ {s} : tx'[t] = tx[t]
        /\ tx[s].pc = "next" /\ tx'[s].pc = "row"
        /\ tx'[s].override = tx[s].override
        /\ UNCHANGED <<signals, frozen, stale>>
    BY <1>0, <1>5 DEF Find, Tx
  <2> QED BY <1>2, <2>1
<1>6. CASE NotFound(s)
  <2>1. CASE tx[s].override
    <3>1. /\ tx' = Retired(s) /\ UNCHANGED <<signals, frozen, stale>>
          /\ tx[s].pc = "row"
      BY <1>6, <2>1 DEF NotFound
    <3> QED BY <1>2, <3>1, RetiredType
  <2>2. CASE ~tx[s].override BY <1>1, <1>6, <2>2 DEF NotFound
  <2> QED BY <2>1, <2>2
<1>7. CASE retire(s)
  <2>1. CASE Blocked(s) BY <1>1, <1>7, <2>1 DEF retire
  <2>2. CASE ~Blocked(s)
    <3>1. /\ \A q \in signals' : \E r \in signals :
               q.born = r.born /\ (q = r \/ q.dying = s)
          /\ tx' = Retired(s) /\ UNCHANGED <<frozen, stale>>
      BY <1>7, <2>2, RetireRows
    <3>2. \A t \in Slots \ {s} : NoRows(t) => NoRows(t)' BY <3>1 DEF NoRows
    <3>3. frozen => tx'[s].override BY <2>2, <3>1, RetiredType DEF Blocked
    <3>4. /\ tx'[s].pc = "next"
          /\ \A t \in Slots \ {s} : tx'[t] = tx[t]
      BY <3>1, RetiredType
    <3> QED BY <3>1, <3>2, <3>3, <3>4, HeldFrame
  <2> QED BY <2>1, <2>2
<1>8. CASE Trigger(s)
  <2>1. CASE Blocked(s) BY <1>1, <1>8, <2>1 DEF Trigger
  <2>2. CASE ~Blocked(s)
    <3>1. /\ tx' = [tx EXCEPT ![s].pc = "index"]
          /\ UNCHANGED <<signals, frozen, stale>>
      BY <1>8, <2>2 DEF Trigger
    <3>2. /\ \A t \in Slots \ {s} : tx'[t] = tx[t]
          /\ tx'[s].pc = "index" /\ tx'[s].override = tx[s].override
      BY <1>0, <3>1 DEF Tx
    <3>3. \A t \in Slots : NoRows(t) => NoRows(t)' BY <3>1 DEF NoRows
    <3>4. frozen => tx'[s].override BY <2>2, <3>2 DEF Blocked
    <3> QED BY <3>1, <3>2, <3>3, <3>4, HeldFrame
  <2> QED BY <2>1, <2>2
<1>9. CASE add(s)
  <2>1. CASE Namesakes(s) # {} BY <1>1, <1>9, <2>1 DEF add
  <2>2. CASE Namesakes(s) = {}
    <3>1. PICK r \in Row : /\ r.born = s /\ r.dying = None
                           /\ signals' = signals \cup {r}
      BY <1>9, <2>2, AddRows
    <3>2. /\ \A t \in Slots \ {s} : tx'[t] = tx[t]
          /\ tx'[s].pc = "next" /\ tx'[s].override = tx[s].override
          /\ UNCHANGED <<frozen, stale>>
      BY <1>9, <2>2, AddRows
    <3>3. \A t \in Slots \ {s} : NoRows(t) => NoRows(t)'
      BY <3>1, NoneIsNoSlot DEF NoRows
    <3>4. ~(frozen /\ ~tx[s].override /\ s \notin stale)
      BY <1>9 DEF add, Held
    <3> QED BY <3>2, <3>3, <3>4, HeldFrame
  <2> QED BY <2>1, <2>2
<1>10. CASE Commit(s) BY <1>10, HeldCommit
<1> QED
  BY <1>3, <1>4, <1>5, <1>6, <1>7, <1>8, <1>9, <1>10 DEF Serve

LEMMA HeldCall ==
  ASSUME Typed, Held, NEW s \in Slots, Call(s)
  PROVE  Held'
<1>1. ASSUME NEW call, Request(s, call), call.pc \in {"next", "lock"},
             call.override \in BOOLEAN
      PROVE  Held'
  <2>1. /\ \A t \in Slots \ {s} : tx'[t] = tx[t]
        /\ UNCHANGED <<signals, frozen, stale>> /\ tx[s].pc = "idle"
        /\ tx'[s].pc \notin {"idle", "index"}
    <3> DEFINE c == [call EXCEPT !.request = requests + 1]
    <3>1. c.pc = call.pc OBVIOUS
    <3>2. tx'[s] = c /\ \A t \in Slots \ {s} : tx'[t] = tx[t]
      BY <1>1 DEF Request, Typed, TypeOK
    <3> HIDE DEF c
    <3> QED BY <1>1, <3>1, <3>2 DEF Request
  <2>2. \A t \in Slots : NoRows(t) => NoRows(t)' BY <2>1 DEF NoRows
  <2>3. NoRows(s)' BY <2>1, <2>2 DEF Held
  <2> QED BY <2>1, <2>2, <2>3, HeldFrame
<1>2. ASSUME NEW n \in Names, add_signal(s, n) PROVE Held'
  <2> DEFINE call == [Idle EXCEPT !.pc = "next", !.add = <<n>>]
  <2>1. call.pc = "next" /\ call.override = FALSE BY DEF Idle
  <2>2. Request(s, call) BY <1>2 DEF add_signal
  <2> HIDE DEF call
  <2> QED BY <1>1, <2>1, <2>2
<1>3. ASSUME NEW n \in Names, delete_signal(s, n) PROVE Held'
  <2> DEFINE call == [Idle EXCEPT !.pc = "next", !.retire = {n}]
  <2>1. call.pc = "next" /\ call.override = FALSE BY DEF Idle
  <2>2. Request(s, call) BY <1>3 DEF delete_signal
  <2> HIDE DEF call
  <2> QED BY <1>1, <2>1, <2>2
<1>4. ASSUME NEW b \in Bodies, override_device(s, b) PROVE Held'
  <2> DEFINE call == [Idle EXCEPT !.pc = "lock", !.override = TRUE, !.add = b]
  <2>1. call.pc = "lock" /\ call.override = TRUE BY DEF Idle
  <2>2. Request(s, call) BY <1>4 DEF override_device
  <2> HIDE DEF call
  <2> QED BY <1>1, <2>1, <2>2
<1> QED BY <1>2, <1>3, <1>4 DEF Call

LEMMA HeldStep == Typed /\ Held /\ [Next]_vars => Held'
<1> SUFFICES ASSUME Typed, Held, [Next]_vars PROVE Held' OBVIOUS
<1>1. ASSUME NEW s \in Slots, Fail(s) PROVE Held'
  BY <1>1, HeldRollback DEF Fail
<1>2. CASE confirm_device
  BY <1>2 DEF confirm_device, Held, Underway, NoRows
<1>3. CASE demote_to_candidate BY <1>3 DEF demote_to_candidate, Held, NoRows
<1>4. CASE UNCHANGED vars BY <1>4 DEF vars, Held, NoRows
<1> QED BY <1>1, <1>2, <1>3, <1>4, HeldCall, HeldServe DEF Next

(* Only a commit changes what is active.                                   *)
LEMMA ActiveRollback ==
  ASSUME Typed, NEW s \in Slots, Rollback(s)
  PROVE  Active' = Active
<1> DEFINE Mark(r) == [r EXCEPT !.dying = IF @ = s THEN None ELSE @]
<1>1. signals' = {Mark(r) : r \in {q \in signals : q.born # s}}
  BY DEF Rollback
<1>2. \A r \in signals : Mark(r).born = r.born /\ Mark(r).name = r.name
  BY DEF Typed, TypeOK, Row
<1> HIDE DEF Mark
<1> QED BY <1>1, <1>2, NoneIsNoSlot DEF Active, Committed

LEMMA ActiveRetire ==
  ASSUME Typed, NEW s \in Slots, retire(s), ~Blocked(s)
  PROVE  Active' = Active
<1> DEFINE Mark(r) == [r EXCEPT !.dying = IF r \in Found(s) THEN s ELSE @]
<1>1. signals' = {Mark(r) : r \in signals} BY DEF retire
<1>2. \A r \in signals : Mark(r).born = r.born /\ Mark(r).name = r.name
  BY DEF Typed, TypeOK, Row
<1> HIDE DEF Mark
<1> QED BY <1>1, <1>2 DEF Active, Committed

LEMMA ActiveStep ==
  ASSUME Typed, [Next]_vars
  PROVE  Active' = Active \/ \E s \in Slots : Commit(s)
<1>1. signals' = signals => Active' = Active BY DEF Active, Committed
<1>2. ASSUME NEW s \in Slots, Refuse(s) \/ Fail(s) PROVE Active' = Active
  BY <1>2, ActiveRollback DEF Refuse, Fail
<1>3. ASSUME NEW s \in Slots, Call(s) PROVE signals' = signals
  BY <1>3 DEF Call, add_signal, delete_signal, override_device, Request
<1>4. ASSUME NEW s \in Slots, Serve(s), ~Commit(s) PROVE Active' = Active
  <2>1. CASE Lock(s) \/ list_active(s) \/ Find(s)
    BY <1>1, <2>1 DEF Lock, list_active, Find
  <2>2. CASE NotFound(s) BY <1>1, <1>2, <2>2 DEF NotFound
  <2>3. CASE retire(s) BY <1>2, <2>3, ActiveRetire DEF retire
  <2>4. CASE Trigger(s) BY <1>1, <1>2, <2>4 DEF Trigger
  <2>5. CASE add(s)
    <3>1. CASE Namesakes(s) # {} BY <1>2, <2>5, <3>1 DEF add
    <3>2. CASE Namesakes(s) = {}
      <4>1. PICK r \in Row : r.born = s /\ signals' = signals \cup {r}
        BY <2>5, <3>2, AddRows
      <4> QED BY <4>1, NoneIsNoSlot DEF Active, Committed
    <3> QED BY <3>1, <3>2
  <2> QED BY <1>4, <2>1, <2>2, <2>3, <2>4, <2>5 DEF Serve
<1>5. CASE confirm_device \/ demote_to_candidate \/ UNCHANGED vars
  BY <1>1, <1>5 DEF confirm_device, demote_to_candidate, vars
<1> QED BY <1>1, <1>2, <1>3, <1>4, <1>5 DEF Next

LEMMA FreezeStep ==
  ASSUME Typed, Held, [Next]_vars, frozen, Active' # Active
  PROVE  \E s \in Slots : /\ tx[s].pc = "next" /\ tx'[s].pc = "idle"
                          /\ tx[s].override \/ s \in stale
<1>1. PICK s \in Slots : Commit(s) BY ActiveStep
<1>2. tx[s].pc = "next" /\ tx'[s].pc = "idle" BY <1>1, EndOfRows DEF Commit
<1>3. ~NoRows(s) BY <1>1, CommitRows DEF Active, Committed
<1>4. tx[s].override \/ s \in stale BY <1>3 DEF Held
<1> QED BY <1>2, <1>4

(* The freeze of a device holds against every request that comes later.     *)
THEOREM FreezeIsKept == Spec => FreezeHolds
<1>1. Init => Typed /\ Held BY TypeInit, HeldInit
<1>2. (Typed /\ Held) /\ [Next]_vars => (Typed /\ Held)'
  BY TypeStep, HeldStep
<1>3. (Typed /\ Held) /\ [Next]_vars =>
        [frozen /\ Active' # Active =>
           \E s \in Slots : /\ tx[s].pc = "next" /\ tx'[s].pc = "idle"
                            /\ tx[s].override \/ s \in stale]_vars
  BY FreezeStep
<1> QED BY <1>1, <1>2, <1>3, PTL DEF Spec, FreezeHolds

-----------------------------------------------------------------------------
(* Bodies never mix: while an override holds the lock, what is set by       *)
(* overrides is retired by it or still on its list, and its UPDATE sees     *)
(* every such row of the name it is at.                                    *)

Current == {r \in signals : Committed(r) /\ r.override}

Replacing(s) ==
  tx[s].override =>
    /\ tx[s].pc \in {"list", "next", "row", "index"} => lock = s
    /\ tx[s].pc \in {"next", "row", "index"} =>
         \A r \in Current : r.dying = s \/ r.name \in tx[s].retire
    /\ tx[s].pc = "row" =>
         \A r \in Current :
           r.name = tx[s].name => r.dying = s \/ Identity(r) \in tx[s].rows

(* An uncommitted row is of the request that its transaction serves.       *)
Owned ==
  \A r \in signals : r.born # None =>
    r.override = tx[r.born].override /\ r.request = tx[r.born].request

Bodied == BodiesNeverMix /\ Owned /\ \A s \in Slots : Replacing(s)

LEMMA BodiedInit == Init => Bodied
<1> SUFFICES ASSUME Init PROVE Bodied OBVIOUS
<1>1. \A r \in signals : r.born = None /\ r.override = FALSE
  <2> DEFINE First(n) == [name |-> n, request |-> 0, statement |-> 0,
                          override |-> FALSE, born |-> None, dying |-> None]
  <2>1. signals = {First(n) : n \in Initially} BY DEF Init
  <2>2. \A n \in Initially : First(n).born = None /\ First(n).override = FALSE
    OBVIOUS
  <2> HIDE DEF First
  <2> QED BY <2>1, <2>2
<1>2. \A s \in Slots : tx[s].override = FALSE BY DEF Init, Idle
<1> QED BY <1>1, <1>2 DEF Bodied, BodiesNeverMix, Owned, Replacing

(* What is set by overrides was so before, and is still retired by whom it  *)
(* was, unless that is s.                                                  *)
Stays(s) ==
  \A q \in Current' : \E r \in Current :
    /\ q.name = r.name /\ q.request = r.request /\ Identity(q) = Identity(r)
    /\ \A t \in Slots \ {s} : r.dying = t => q.dying = t

LEMMA BodiedFrame ==
  ASSUME Bodied, NEW s \in Slots, Stays(s), Owned', Replacing(s)',
         \A t \in Slots \ {s} : tx'[t] = tx[t] /\ (lock = t => lock' = t)
  PROVE  Bodied'
<1>1. BodiesNeverMix' BY DEF Bodied, BodiesNeverMix, Stays, Current
<1>2. ASSUME NEW t \in Slots PROVE Replacing(t)'
  <2>1. CASE t = s BY <2>1
  <2>2. CASE t # s
    <3>1. Replacing(t) /\ tx'[t] = tx[t] /\ (lock = t => lock' = t)
      BY <2>2 DEF Bodied
    <3>2. \A q \in Current' : \E r \in Current :
            /\ q.name = r.name /\ Identity(q) = Identity(r)
            /\ r.dying = t => q.dying = t
      BY <2>2 DEF Stays
    <3> HIDE DEF Current, Identity
    <3> QED BY <3>1, <3>2 DEF Replacing
  <2> QED BY <2>1, <2>2
<1> QED BY <1>1, <1>2 DEF Bodied

(* Where no row changes.                                                   *)
LEMMA BodiedQuiet ==
  ASSUME Typed, Bodied, NEW s \in Slots, signals' = signals, NoRows(s) \/
           (tx'[s].override = tx[s].override /\ tx'[s].request = tx[s].request),
         Replacing(s)',
         \A t \in Slots \ {s} : tx'[t] = tx[t] /\ (lock = t => lock' = t)
  PROVE  Bodied'
<1>1. Current' = Current BY DEF Current, Committed
<1>2. Stays(s) BY <1>1 DEF Stays, Identity
<1>3. Owned'
  <2> SUFFICES ASSUME NEW r \in signals, r.born # None
               PROVE  /\ r.override = tx'[r.born].override
                      /\ r.request = tx'[r.born].request
    BY DEF Owned
  <2>1. r.override = tx[r.born].override /\ r.request = tx[r.born].request
    BY DEF Bodied, Owned
  <2>2. r.born \in Slots BY DEF Typed, TypeOK, Row
  <2> QED BY <2>1, <2>2 DEF NoRows
<1> QED BY <1>2, <1>3, BodiedFrame

LEMMA BodiedRollback ==
  ASSUME Typed, Bodied, NEW s \in Slots, Rollback(s)
  PROVE  Bodied'
<1> DEFINE Mark(r) == [r EXCEPT !.dying = IF @ = s THEN None ELSE @]
<1>1. signals' = {Mark(r) : r \in {q \in signals : q.born # s}} BY DEF Rollback
<1>2. \A r \in signals :
        /\ Mark(r).name = r.name /\ Mark(r).request = r.request
        /\ Mark(r).statement = r.statement /\ Mark(r).override = r.override
        /\ Mark(r).born = r.born /\ r.born \in Slots \cup {None}
        /\ r.dying # s => Mark(r).dying = r.dying
  BY DEF Typed, TypeOK, Row
<1> HIDE DEF Mark
<1>3. /\ tx'[s].pc = "idle" /\ \A t \in Slots \ {s} : tx'[t] = tx[t]
      /\ \A t \in Slots \ {s} : lock = t => lock' = t
  BY EndOfRows DEF Rollback, Unlocked
<1>4. Stays(s) BY <1>1, <1>2 DEF Stays, Current, Committed, Identity
<1>5. Owned' BY <1>1, <1>2, <1>3 DEF Bodied, Owned
<1>6. Replacing(s)' BY <1>3 DEF Replacing
<1> QED BY <1>3, <1>4, <1>5, <1>6, BodiedFrame

(* An override that commits has retired what the others had set.           *)
LEMMA BodiedCommit ==
  ASSUME Typed, Bodied, NEW s \in Slots, Commit(s)
  PROVE  Bodied'
<1> DEFINE Mark(r) == [r EXCEPT !.born = IF @ = s THEN None ELSE @]
<1>1. signals' = {Mark(r) : r \in {q \in signals : q.dying # s}} BY DEF Commit
<1>2. \A r \in signals :
        /\ Mark(r).name = r.name /\ Mark(r).request = r.request
        /\ Mark(r).statement = r.statement /\ Mark(r).override = r.override
        /\ Mark(r).born = (IF r.born = s THEN None ELSE r.born)
        /\ r.born \in Slots \cup {None}
        /\ Mark(r).dying = r.dying
  BY DEF Typed, TypeOK, Row
<1> HIDE DEF Mark
<1>3. /\ tx'[s].pc = "idle" /\ \A t \in Slots \ {s} : tx'[t] = tx[t]
      /\ \A t \in Slots \ {s} : lock = t => lock' = t
  BY EndOfRows DEF Commit, Unlocked
<1>4. Owned' BY <1>1, <1>2, <1>3 DEF Bodied, Owned
<1>5. Replacing(s)' BY <1>3 DEF Replacing
<1>6. \A r \in signals : r.born = s =>
        r.override = tx[s].override /\ r.request = tx[s].request
  BY NoneIsNoSlot DEF Bodied, Owned
<1>7. CASE tx[s].override
  <2>1. lock = s /\ \A r \in Current : r.dying = s
    BY <1>7 DEF Commit, Bodied, Replacing
  <2>2. \A q \in Current' : q.request = tx[s].request
    BY <1>1, <1>2, <1>6, <2>1 DEF Current, Committed
  <2>3. BodiesNeverMix' BY <2>2 DEF BodiesNeverMix, Current
  <2>4. ASSUME NEW t \in Slots \ {s} PROVE Replacing(t)'
    BY <1>3, <2>1, NoneIsNoSlot DEF Bodied, Replacing
  <2> QED BY <1>4, <1>5, <2>3, <2>4 DEF Bodied
<1>8. CASE ~tx[s].override
  <2>1. Stays(s)
    BY <1>1, <1>2, <1>6, <1>8 DEF Stays, Current, Committed, Identity
  <2> QED BY <1>3, <1>4, <1>5, <2>1, BodiedFrame
<1> QED BY <1>7, <1>8

LEMMA BodiedRetire ==
  ASSUME Typed, Bodied, NEW s \in Slots, retire(s), ~Blocked(s)
  PROVE  Bodied'
<1> DEFINE Mark(r) == [r EXCEPT !.dying = IF r \in Found(s) THEN s ELSE @]
<1>1. /\ signals' = {Mark(r) : r \in signals} /\ tx' = Retired(s)
      /\ \A r \in Found(s) : r.dying = None
      /\ tx[s].pc = "row" /\ lock' = lock
  BY DEF retire
<1>2. \A r \in signals :
        /\ Mark(r).name = r.name /\ Mark(r).request = r.request
        /\ Mark(r).statement = r.statement /\ Mark(r).override = r.override
        /\ Mark(r).born = r.born /\ r.born \in Slots \cup {None}
        /\ Mark(r).dying = (IF r \in Found(s) THEN s ELSE r.dying)
  BY DEF Typed, TypeOK, Row
<1> HIDE DEF Mark
<1>3. /\ tx'[s].override = tx[s].override /\ tx'[s].pc = "next"
      /\ \A t \in Slots \ {s} : tx'[t] = tx[t]
  BY <1>1, RetiredType
<1>4. /\ tx'[s].request = tx[s].request
      /\ tx'[s].retire = tx[s].retire \ {tx[s].name}
  BY <1>1 DEF Retired, Typed, TypeOK, Tx
<1>5. Stays(s)
  BY <1>1, <1>2, NoneIsNoSlot DEF Stays, Current, Committed, Identity
<1>6. Owned' BY <1>1, <1>2, <1>3, <1>4 DEF Bodied, Owned
<1>7. Replacing(s)'
  <2>1. ASSUME tx[s].override, NEW r \in Current
        PROVE  Mark(r).dying = s \/ r.name \in tx'[s].retire
    <3>1. r.dying = s \/ r.name \in tx[s].retire
      BY <1>1, <2>1 DEF Bodied, Replacing
    <3>2. r.name = tx[s].name => r.dying = s \/ r \in Found(s)
      BY <1>1, <2>1 DEF Bodied, Replacing, Found, Current
    <3> QED BY <1>2, <1>4, <3>1, <3>2 DEF Current
  <2>2. \A q \in Current' : \E r \in Current : q = Mark(r)
    BY <1>1, <1>2 DEF Current, Committed
  <2>3. tx[s].override => lock' = s BY <1>1 DEF Bodied, Replacing
  <2>4. \A r \in Current : Mark(r).name = r.name BY <1>2 DEF Current
  <2> QED BY <1>3, <2>1, <2>2, <2>3, <2>4 DEF Replacing
<1> QED BY <1>1, <1>3, <1>5, <1>6, <1>7, BodiedFrame

LEMMA BodiedAdd ==
  ASSUME Typed, Bodied, NEW s \in Slots, add(s), Namesakes(s) = {}
  PROVE  Bodied'
<1> DEFINE r == [name |-> Head(tx[s].add), request |-> tx[s].request,
                 statement |-> Len(tx[s].add), override |-> tx[s].override,
                 born |-> s, dying |-> None]
<1>1. /\ signals' = signals \cup {r} /\ lock' = lock /\ tx[s].pc = "index"
      /\ tx' = [tx EXCEPT ![s].pc = "next", ![s].add = Tail(@)]
  BY DEF add
<1>2. /\ r.born = s /\ r.request = tx[s].request /\ r.override = tx[s].override
  OBVIOUS
<1> HIDE DEF r
<1>3. /\ tx'[s].override = tx[s].override /\ tx'[s].pc = "next"
      /\ tx'[s].request = tx[s].request /\ tx'[s].retire = tx[s].retire
      /\ \A t \in Slots \ {s} : tx'[t] = tx[t]
  BY <1>1 DEF Typed, TypeOK, Tx
<1>4. Current' = Current BY <1>1, <1>2, NoneIsNoSlot DEF Current, Committed
<1>5. Stays(s) BY <1>4 DEF Stays, Identity
<1>6. Owned'
  BY <1>1, <1>2, <1>3 DEF Bodied, Owned, Typed, TypeOK, Row
<1>7. Replacing(s)' BY <1>1, <1>3, <1>4 DEF Bodied, Replacing
<1> QED BY <1>1, <1>3, <1>5, <1>6, <1>7, BodiedFrame

LEMMA BodiedServe ==
  ASSUME Typed, Bodied, NEW s \in Slots, Serve(s)
  PROVE  Bodied'
<1>0. tx[s] \in Tx /\ tx \in [Slots -> Tx] BY DEF Typed, TypeOK
<1>1. ASSUME Refuse(s) PROVE Bodied' BY <1>1, BodiedRollback DEF Refuse
<1>2. ASSUME signals' = signals, Replacing(s)',
             tx'[s].override = tx[s].override, tx'[s].request = tx[s].request,
             \A t \in Slots \ {s} : tx'[t] = tx[t] /\ (lock = t => lock' = t)
      PROVE  Bodied'
  BY <1>2, BodiedQuiet
<1>3. signals' = signals => Current' = Current BY DEF Current, Committed
<1>4. CASE Lock(s)
  <2>1. /\ \A t \in Slots \ {s} : tx'[t] = tx[t] /\ (lock = t => lock' = t)
        /\ tx'[s].pc = "list" /\ lock' = s
        /\ tx'[s].override = tx[s].override /\ tx'[s].request = tx[s].request
        /\ signals' = signals
    BY <1>0, <1>4, NoneIsNoSlot DEF Lock, Tx
  <2>2. Replacing(s)' BY <2>1 DEF Replacing
  <2> QED BY <1>2, <2>1, <2>2
<1>5. CASE list_active(s)
  <2>1. /\ \A t \in Slots \ {s} : tx'[t] = tx[t] /\ (lock = t => lock' = t)
        /\ tx[s].pc = "list" /\ tx'[s].pc = "next" /\ lock' = lock
        /\ tx'[s].override = tx[s].override /\ tx'[s].request = tx[s].request
        /\ tx'[s].retire = Active /\ signals' = signals
    BY <1>0, <1>5 DEF list_active, Tx
  <2>2. \A r \in Current : r.name \in Active BY DEF Current, Active
  <2>3. Replacing(s)' BY <1>3, <2>1, <2>2 DEF Bodied, Replacing
  <2> QED BY <1>2, <2>1, <2>3
<1>6. CASE Find(s)
  <2>1. PICK n \in tx[s].retire :
          tx' = [tx EXCEPT ![s].pc = "row", ![s].name = n,
                   ![s].rows = {Identity(r) : r \in
                      {q \in signals : q.name = n /\ Committed(q)}}]
    BY <1>6 DEF Find
  <2>2. /\ \A t \in Slots \ {s} : tx'[t] = tx[t] /\ (lock = t => lock' = t)
        /\ tx[s].pc = "next" /\ tx'[s].pc = "row" /\ lock' = lock
        /\ tx'[s].override = tx[s].override /\ tx'[s].request = tx[s].request
        /\ tx'[s].retire = tx[s].retire /\ signals' = signals
        /\ tx'[s].name = n
        /\ tx'[s].rows = {Identity(r) : r \in
                            {q \in signals : q.name = n /\ Committed(q)}}
    BY <1>0, <1>6, <2>1 DEF Find, Tx
  <2>3. \A r \in Current : r.name = n => Identity(r) \in tx'[s].rows
    BY <2>2 DEF Current
  <2>4. Replacing(s)'
    <3>1. \A r : Identity(r)' = Identity(r) BY DEF Identity
    <3> HIDE DEF Identity, Current
    <3> QED BY <1>3, <2>2, <2>3, <3>1 DEF Bodied, Replacing
  <2> QED BY <1>2, <2>2, <2>4
<1>7. CASE NotFound(s)
  <2>1. CASE tx[s].override
    <3>1. /\ tx' = Retired(s) /\ signals' = signals /\ lock' = lock
          /\ tx[s].pc = "row" /\ Found(s) = {}
      BY <1>7, <2>1 DEF NotFound
    <3>2. /\ tx'[s].override = tx[s].override /\ tx'[s].pc = "next"
          /\ \A t \in Slots \ {s} : tx'[t] = tx[t]
      BY <3>1, RetiredType
    <3>3. /\ tx'[s].request = tx[s].request
          /\ tx'[s].retire = tx[s].retire \ {tx[s].name}
      BY <1>0, <3>1 DEF Retired, Tx
    <3>4. \A r \in Current : r.name = tx[s].name => r.dying = s
      BY <2>1, <3>1 DEF Bodied, Replacing, Found, Current
    <3>5. Replacing(s)'
      BY <1>3, <3>1, <3>2, <3>3, <3>4 DEF Bodied, Replacing
    <3> QED BY <1>2, <3>1, <3>2, <3>3, <3>5
  <2>2. CASE ~tx[s].override BY <1>1, <1>7, <2>2 DEF NotFound
  <2> QED BY <2>1, <2>2
<1>8. CASE retire(s)
  BY <1>1, <1>8, BodiedRetire DEF retire
<1>9. CASE Trigger(s)
  <2>1. CASE Blocked(s) BY <1>1, <1>9, <2>1 DEF Trigger
  <2>2. CASE ~Blocked(s)
    <3>1. /\ \A t \in Slots \ {s} : tx'[t] = tx[t] /\ (lock = t => lock' = t)
          /\ tx[s].pc = "next" /\ tx'[s].pc = "index" /\ lock' = lock
          /\ tx'[s].override = tx[s].override /\ tx'[s].request = tx[s].request
          /\ tx'[s].retire = tx[s].retire /\ signals' = signals
      BY <1>0, <1>9, <2>2 DEF Trigger, Tx
    <3>2. Replacing(s)' BY <1>3, <3>1 DEF Bodied, Replacing
    <3> QED BY <1>2, <3>1, <3>2
  <2> QED BY <2>1, <2>2
<1>10. CASE add(s) BY <1>1, <1>10, BodiedAdd DEF add
<1>11. CASE Commit(s) BY <1>11, BodiedCommit
<1> QED
  BY <1>4, <1>5, <1>6, <1>7, <1>8, <1>9, <1>10, <1>11 DEF Serve

(* A request starts without rows of its own.                               *)
LEMMA BodiedCall ==
  ASSUME Typed, Held, Bodied, NEW s \in Slots, Call(s)
  PROVE  Bodied'
<1>1. ASSUME NEW call, Request(s, call),
             call.override => call.pc = "lock"
      PROVE  Bodied'
  <2> DEFINE c == [call EXCEPT !.request = requests + 1]
  <2>1. c.pc = call.pc /\ c.override = call.override OBVIOUS
  <2>2. /\ tx'[s] = c /\ \A t \in Slots \ {s} : tx'[t] = tx[t]
        /\ tx[s].pc = "idle" /\ signals' = signals /\ lock' = lock
    BY <1>1 DEF Request, Typed, TypeOK
  <2> HIDE DEF c
  <2>3. NoRows(s) BY <2>2 DEF Held
  <2>4. Replacing(s)' BY <1>1, <2>1, <2>2 DEF Replacing
  <2> QED BY <2>2, <2>3, <2>4, BodiedQuiet
<1>2. ASSUME NEW n \in Names, add_signal(s, n) PROVE Bodied'
  <2> DEFINE call == [Idle EXCEPT !.pc = "next", !.add = <<n>>]
  <2>1. call.override = FALSE BY DEF Idle
  <2>2. Request(s, call) BY <1>2 DEF add_signal
  <2> HIDE DEF call
  <2> QED BY <1>1, <2>1, <2>2
<1>3. ASSUME NEW n \in Names, delete_signal(s, n) PROVE Bodied'
  <2> DEFINE call == [Idle EXCEPT !.pc = "next", !.retire = {n}]
  <2>1. call.override = FALSE BY DEF Idle
  <2>2. Request(s, call) BY <1>3 DEF delete_signal
  <2> HIDE DEF call
  <2> QED BY <1>1, <2>1, <2>2
<1>4. ASSUME NEW b \in Bodies, override_device(s, b) PROVE Bodied'
  <2> DEFINE call == [Idle EXCEPT !.pc = "lock", !.override = TRUE, !.add = b]
  <2>1. call.pc = "lock" BY DEF Idle
  <2>2. Request(s, call) BY <1>4 DEF override_device
  <2> HIDE DEF call
  <2> QED BY <1>1, <2>1, <2>2
<1> QED BY <1>2, <1>3, <1>4 DEF Call

LEMMA BodiedStep ==
  ASSUME Typed, Held, Bodied, [Next]_vars
  PROVE  Bodied'
<1>1. ASSUME UNCHANGED <<signals, tx>>, \A s \in Slots : lock = s => lock' = s
      PROVE  Bodied'
  <2>1. Current' = Current BY <1>1 DEF Current, Committed
  <2>2. \A r : Identity(r)' = Identity(r) BY DEF Identity
  <2>3. BodiesNeverMix' /\ Owned'
    BY <1>1 DEF Bodied, BodiesNeverMix, Owned, Committed
  <2>4. \A s \in Slots : Replacing(s)'
    BY <1>1, <2>1, <2>2 DEF Bodied, Replacing
  <2> QED BY <2>3, <2>4 DEF Bodied
<1>2. ASSUME NEW s \in Slots, Fail(s) PROVE Bodied'
  BY <1>2, BodiedRollback DEF Fail
<1>3. CASE confirm_device \/ demote_to_candidate \/ UNCHANGED vars
  BY <1>1, <1>3 DEF confirm_device, demote_to_candidate, vars
<1> QED BY <1>2, <1>3, BodiedCall, BodiedServe DEF Next

(* The active signals are never of two bodies mixed, although an override   *)
(* retires and adds row by row beside requests that take no lock.          *)
THEOREM BodiesAreWhole == Spec => []BodiesNeverMix
<1> DEFINE Inv == Typed /\ Held /\ Bodied
<1>1. Init => Inv BY TypeInit, HeldInit, BodiedInit
<1>2. Inv /\ [Next]_vars => Inv' BY TypeStep, HeldStep, BodiedStep
<1>3. Inv => BodiesNeverMix BY DEF Bodied
<1> QED BY <1>1, <1>2, <1>3, PTL DEF Spec
=============================================================================
