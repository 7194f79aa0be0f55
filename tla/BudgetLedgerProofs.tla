------------------------- MODULE BudgetLedgerProofs -------------------------
(***************************************************************************)
(* Proofs about BudgetLedger for every set of calls, every cap, every      *)
(* price list, every number of retries and every number of months.         *)
(***************************************************************************)
EXTENDS BudgetLedger, FiniteSetTheorems, TLAPS

(* What the stage tables and FirstOf return.                               *)
LEMMA Stages ==
  /\ ReserveAt["l1"] = "reserve_l1" /\ ReserveAt["guardrail"] = "reserve_g"
  /\ SettleAt["l1"] = "settle_l1"   /\ SettleAt["guardrail"] = "settle_g"
  /\ RefundAt["l1"] = "refund_l1"   /\ RefundAt["guardrail"] = "refund_g"
  /\ UpTo["l1"] = {"l1"} /\ UpTo["guardrail"] = {"l1", "guardrail"}
BY DEF ReserveAt, SettleAt, RefundAt, UpTo, Providers

LEMMA StageLabels ==
  /\ \A S : Finally(S) \in Labels
  /\ \A S, after : after \in Labels => FirstOf(ReserveAt, S, after) \in Labels
  /\ \A S, after : after \in Labels => FirstOf(SettleAt, S, after) \in Labels
BY Stages DEF Finally, FirstOf, Labels

LEMMA FirstStage ==
  ASSUME NEW S \in SUBSET Providers, NEW after
  PROVE  /\ \/ /\ "l1" \in S
               /\ FirstOf(ReserveAt, S, after) = "reserve_l1"
               /\ FirstOf(SettleAt, S, after) = "settle_l1"
            \/ /\ S = {"guardrail"}
               /\ FirstOf(ReserveAt, S, after) = "reserve_g"
               /\ FirstOf(SettleAt, S, after) = "settle_g"
            \/ /\ S = {}
               /\ FirstOf(ReserveAt, S, after) = after
               /\ FirstOf(SettleAt, S, after) = after
         /\ \/ "l1" \in S /\ Finally(S) = "refund_l1"
            \/ S = {"guardrail"} /\ Finally(S) = "refund_g"
            \/ S = {} /\ Finally(S) = "exit"
BY Stages DEF FirstOf, Finally, Providers

LEMMA PriceType == \A p \in Providers : Price(p) \subseteq Nat
BY ConstantsAssumption DEF Price

LEMMA EstType == \A p \in Providers : Est(p) \in Nat /\ Excess(p) \in Nat
BY ConstantsAssumption DEF Est, Excess, Providers

-----------------------------------------------------------------------------
(* Type correctness.                                                       *)

LEMMA SettleType ==
  ASSUME TypeOK, NEW c \in Calls, NEW p \in Metered, NEW actual \in Nat,
         Settle(c, p, actual)
  PROVE  /\ cost' \in [Accounts -> Nat]
         /\ held' \in [Calls -> SUBSET Metered]
         /\ spent' \in [Accounts -> Nat]
<1> p \in Providers BY ConstantsAssumption
<1> Row(c, p) \in Accounts BY DEF Row, Accounts, TypeOK
<1>1. Reconcile(Row(c, p), p, actual) \in Nat
  BY EstType DEF Reconcile, TypeOK
<1> QED BY <1>1 DEF Settle, TypeOK

LEMMA ChargeType ==
  ASSUME TypeOK, NEW c \in Calls, NEW p \in Providers, NEW b \in Nat,
         Charge(c, p, b)
  PROVE  billed' \in [Accounts -> Nat]
BY DEF Charge, Row, Accounts, TypeOK

LEMMA JudgeType ==
  ASSUME TypeOK, NEW c \in Calls, NEW ACTION onPass, Judge(c, onPass)
  PROVE  /\ used' \in [Calls -> [Providers -> Nat]]
         /\ billed' \in [Accounts -> Nat]
<1>1. "guardrail" \in Providers BY DEF Providers
<1>2. PICK b \in Price("guardrail") \cup {0} :
        /\ Charge(c, "guardrail", b)
        /\ \/ used' = [used EXCEPT ![c]["guardrail"] = @ + b]
           \/ used' = used
  BY DEF Judge
<1>3. b \in Nat BY <1>1, PriceType
<1>4. billed' \in [Accounts -> Nat] BY <1>1, <1>2, <1>3, ChargeType
<1>5. used[c]["guardrail"] + b \in Nat BY <1>1, <1>3 DEF TypeOK
<1>6. used' \in [Calls -> [Providers -> Nat]]
  <2>1. used \in [Calls -> [Providers -> Nat]] BY DEF TypeOK
  <2>2. [used[c] EXCEPT !["guardrail"] = used[c]["guardrail"] + b]
          \in [Providers -> Nat]
    BY <1>1, <1>5, <2>1
  <2>3. CASE used' = [used EXCEPT ![c]["guardrail"] = @ + b]
    <3>1. used' = [used EXCEPT ![c] =
                    [used[c] EXCEPT !["guardrail"] = used[c]["guardrail"] + b]]
      BY <2>3
    <3> QED BY <2>1, <2>2, <3>1
  <2> QED BY <1>2, <2>1, <2>3
<1> QED BY <1>4, <1>6

(* The most that one model call may cost.                                  *)
MaxCost(p) == CallEst[p] + CallExcess[p]

(* No settle commits without the service hearing of it.                    *)
NoLostSettle == "settle_ack" \notin Faults

(* A stage that touches the ledger row of p is reached only with p in the  *)
(* state that stage needs.                                                 *)
Control(c) ==
  /\ pc[c] \in {"idle", "reserve_l1"} =>
       reserved[c] = {} /\ denied[c] = {} /\ settled[c] = {} /\ held[c] = {}
  /\ pc[c] = "reserve_g" =>
       /\ reserved[c] \subseteq {"l1"} /\ reserved[c] = held[c]
       /\ settled[c] = {}
       /\ "l1" \in Metered => "l1" \in reserved[c] \cup denied[c]
  /\ pc[c] \in Unprotected =>
       /\ settled[c] = {} /\ reserved[c] = held[c]
       /\ reserved[c] \cup denied[c] = Metered
  /\ pc[c] \in {"l1", "post"} => denied[c] = {}
  /\ pc[c] = "settle_l1" => settled[c] = {} /\ reserved[c] = held[c]
  /\ pc[c] = "settle_g" => "guardrail" \in held[c]
  /\ \A p \in Providers :
       /\ pc[c] = ReserveAt[p] => p \in Metered
       /\ pc[c] \in {SettleAt[p], RefundAt[p]} => p \in reserved[c] \ settled[c]

(* A call that may attempt L1 once more has not used up its retries.       *)
Attempts(c) ==
  pc[c] \in {"idle", "reserve_l1", "reserve_g", "classify", "l1"} =>
    tries[c] < Retries

(* The stages from which the reservation of p is no longer refunded.       *)
Past(p) == IF p = "l1" THEN {"refund_g", "exit"} ELSE {"exit"}

(* Whatever a settle or a refund will take back is held by the ledger.     *)
Pending(c) ==
  NoLostSettle =>
    \A p \in reserved[c] \ settled[c] : pc[c] \notin Past(p) => p \in held[c]

(* The guardrail has been called at most once before L1 answers, and twice *)
(* altogether.                                                             *)
Usage(c) ==
  /\ pc[c] \in {"idle", "reserve_l1", "reserve_g", "classify"} =>
       used[c]["guardrail"] = 0
  /\ pc[c] \in {"l1", "post"} => used[c]["guardrail"] <= MaxCost("guardrail")
  /\ used[c]["guardrail"] <= 2 * MaxCost("guardrail")
  /\ used[c]["l1"] <= MaxCost("l1")

CallInv(c) == Control(c) /\ Attempts(c) /\ Pending(c) /\ Usage(c)

LEMMA AtReserve ==
  ASSUME NEW c \in Calls, Control(c), NEW p \in Providers, pc[c] = ReserveAt[p]
  PROVE  p \in Metered
BY DEF Control

LEMMA AtSettle ==
  ASSUME TypeOK, NEW c \in Calls, Control(c), NEW p \in Providers,
         pc[c] \in {SettleAt[p], RefundAt[p]}
  PROVE  p \in Metered
BY DEF Control, TypeOK

LEMMA ClassifyLabel == "classify" \in Labels
BY DEF Labels

LEMMA GotoType ==
  ASSUME TypeOK, NEW c \in Calls, NEW label \in Labels, Goto(c, label)
  PROVE  pc' \in [Calls -> Labels]
BY DEF Goto, TypeOK

LEMMA HoldType ==
  ASSUME TypeOK, NEW c \in Calls, NEW p \in Metered, Hold(c, p)
  PROVE  /\ cost' \in [Accounts -> Nat]
         /\ held' \in [Calls -> SUBSET Metered]
<1>1. p \in Providers BY ConstantsAssumption
<1>2. Row(c, p) \in Accounts BY <1>1 DEF Row, Accounts, TypeOK
<1> QED BY <1>1, <1>2, EstType DEF Hold, TypeOK

LEMMA ActualType ==
  ASSUME TypeOK, NEW c \in Calls, NEW p \in Providers
  PROVE  Actual(c, p) \in Nat
BY DEF Actual, TypeOK

LEMMA TriesLeft ==
  ASSUME TypeOK, NEW c \in Calls, Attempts(c), pc[c] = "l1"
  PROVE  tries[c] + 1 \in 0..Retries
<1>1. tries[c] < Retries BY DEF Attempts
<1>2. tries[c] \in 0..Retries /\ Retries \in Nat
  BY ConstantsAssumption DEF TypeOK
<1> QED BY <1>1, <1>2

LEMMA TypeStep ==
  ASSUME TypeOK, \A c \in Calls : CallInv(c), [Next]_vars
  PROVE  TypeOK'
<1> USE ConstantsAssumption
<1>a. \A c \in Calls : Control(c) /\ Attempts(c) BY DEF CallInv
<1>1. ASSUME NEW c \in Calls, Start(c) PROVE TypeOK'
  <2>1. FirstOf(ReserveAt, Metered, "classify") \in Labels
    BY StageLabels DEF Labels
  <2> QED BY <1>1, <2>1 DEF Start, TypeOK, Goto, flags, answer, books
<1>2. ASSUME NEW c \in Calls, BudgetFallback(c) PROVE TypeOK'
  BY <1>2 DEF BudgetFallback, TypeOK, Goto, Fallback, flags, books, Labels
<1>3. ASSUME NEW c \in Calls, CacheHit(c) PROVE TypeOK'
  <2> PICK u \in [Providers -> UNION {Price(p) : p \in Providers}] :
             /\ \A p \in Providers : u[p] \in Price(p)
             /\ used' = [used EXCEPT ![c] = u]
    BY <1>3 DEF CacheHit
  <2>1. u \in [Providers -> Nat] BY PriceType
  <2> QED BY <1>3, <2>1 DEF CacheHit, TypeOK, Goto, flags, books, Labels
<1>4. ASSUME NEW c \in Calls, PreCheck(c) PROVE TypeOK'
  <2>1. used' \in [Calls -> [Providers -> Nat]] /\ billed' \in [Accounts -> Nat]
    BY <1>4, JudgeType DEF PreCheck
  <2>2. /\ pc' \in [Calls -> Labels]
        /\ result' \in [Calls -> {"none", "cache", "llm", "fallback"}]
    BY <1>4 DEF PreCheck, Judge, Goto, Fallback, TypeOK, Labels
  <2> QED BY <1>4, <2>1, <2>2 DEF PreCheck, TypeOK, flags, books
<1>5. ASSUME NEW c \in Calls, L1Answers(c) PROVE TypeOK'
  <2>1. PICK b \in Price("l1") : /\ Charge(c, "l1", b)
                                /\ used' = [used EXCEPT ![c]["l1"] = b]
    BY <1>5 DEF L1Answers
  <2>2. b \in Nat /\ "l1" \in Providers BY PriceType DEF Providers
  <2>3. billed' \in [Accounts -> Nat] BY <2>1, <2>2, ChargeType
  <2>4. used' \in [Calls -> [Providers -> Nat]] BY <2>1, <2>2 DEF TypeOK
  <2>5. tries[c] + 1 \in 0..Retries
    BY <1>5, <1>a, TriesLeft DEF L1Answers
  <2> QED BY <1>5, <2>3, <2>4, <2>5
          DEF L1Answers, TypeOK, Goto, flags, books, Labels
<1>6. ASSUME NEW c \in Calls, L1Fails(c) PROVE TypeOK'
  <2>1. PICK b \in Price("l1") \cup {0} : Charge(c, "l1", b)
    BY <1>6 DEF L1Fails, GivesUp
  <2>2. b \in Nat /\ "l1" \in Providers BY PriceType DEF Providers
  <2>3. billed' \in [Accounts -> Nat] BY <2>1, <2>2, ChargeType
  <2>4. tries[c] + 1 \in 0..Retries
    BY <1>6, <1>a, TriesLeft DEF L1Fails, GivesUp
  <2>5. /\ pc' \in [Calls -> Labels]
        /\ result' \in [Calls -> {"none", "cache", "llm", "fallback"}]
    BY <1>6 DEF L1Fails, GivesUp, Goto, Fallback, TypeOK, Labels
  <2> QED BY <1>6, <2>3, <2>4, <2>5 DEF L1Fails, GivesUp, TypeOK, flags, books
<1>7. ASSUME NEW c \in Calls, PostCheck(c) PROVE TypeOK'
  <2>1. used' \in [Calls -> [Providers -> Nat]] /\ billed' \in [Accounts -> Nat]
    BY <1>7, JudgeType DEF PostCheck
  <2>2. /\ pc' \in [Calls -> Labels]
        /\ result' \in [Calls -> {"none", "cache", "llm", "fallback"}]
    BY <1>7 DEF PostCheck, Judge, Goto, Fallback, TypeOK, Labels
  <2> QED BY <1>7, <2>1, <2>2 DEF PostCheck, TypeOK, flags, books
<1>8. ASSUME NEW c \in Calls, Persist(c) PROVE TypeOK'
  BY <1>8, StageLabels DEF Persist, TypeOK, Goto, flags, answer, books
<1>9. ASSUME NEW S \in SUBSET Calls, Over(S) PROVE TypeOK'
  <2>1. \A a \in Accounts : Cardinality(Holders(a) \cap S) \in Nat
    BY FS_Subset, FS_CardinalityType DEF Holders
  <2>2. leaked' \in [Accounts -> Nat]
    <3>1. ASSUME NEW a \in Accounts
          PROVE  leaked[a] + Cardinality(Holders(a) \cap S) \in Nat
      <4>1. leaked[a] \in Nat BY DEF TypeOK
      <4>2. Cardinality(Holders(a) \cap S) \in Nat BY <2>1
      <4> QED BY <4>1, <4>2
    <3>2. leaked' = [a \in Accounts |->
                       leaked[a] + Cardinality(Holders(a) \cap S)]
      BY <1>9 DEF Over
    <3> QED BY <3>1, <3>2
  <2>3. /\ pc' \in [Calls -> Labels]
        /\ period' \in [Calls -> Months]
        /\ tries' \in [Calls -> 0..Retries]
    BY <1>9 DEF Over, TypeOK, Labels, Months
  <2>4. /\ reserved' \in [Calls -> SUBSET Metered]
        /\ denied' \in [Calls -> SUBSET Metered]
        /\ settled' \in [Calls -> SUBSET Metered]
        /\ held' \in [Calls -> SUBSET Metered]
    BY <1>9 DEF Over, TypeOK
  <2>5. used' \in [Calls -> [Providers -> Nat]]
    BY <1>9 DEF Over, TypeOK, NoUsage
  <2>6. result' \in [Calls -> {"none", "cache", "llm", "fallback"}]
    BY <1>9 DEF Over, TypeOK
  <2> QED BY <1>9, <2>2, <2>3, <2>4, <2>5, <2>6 DEF Over, TypeOK
<1>10. ASSUME NEW c \in Calls, NEW p \in Providers, ReserveGranted(c, p)
       PROVE  TypeOK'
  <2>1. p \in Metered BY <1>10, <1>a, AtReserve DEF ReserveGranted
  <2>2. /\ cost' \in [Accounts -> Nat]
        /\ held' \in [Calls -> SUBSET Metered]
    BY <1>10, <2>1, HoldType DEF ReserveGranted
  <2>3. pc' \in [Calls -> Labels]
    BY <1>10, GotoType, StageLabels, ClassifyLabel DEF ReserveGranted
  <2>4. reserved' \in [Calls -> SUBSET Metered]
    BY <1>10, <2>1 DEF ReserveGranted, TypeOK
  <2> QED BY <1>10, <2>2, <2>3, <2>4 DEF ReserveGranted, Hold, TypeOK, answer
<1>11. ASSUME NEW c \in Calls, NEW p \in Providers, ReserveDenied(c, p)
       PROVE  TypeOK'
  <2>1. p \in Metered BY <1>11, <1>a, AtReserve DEF ReserveDenied
  <2>2. pc' \in [Calls -> Labels]
    BY <1>11, GotoType, StageLabels, ClassifyLabel DEF ReserveDenied
  <2>3. denied' \in [Calls -> SUBSET Metered]
    BY <1>11, <2>1 DEF ReserveDenied, TypeOK
  <2> QED BY <1>11, <2>2, <2>3 DEF ReserveDenied, TypeOK, answer, books
<1>12. ASSUME NEW c \in Calls, NEW p \in Providers, ReserveRaises(c, p)
       PROVE  TypeOK'
  <2>1. p \in Metered BY <1>12, <1>a, AtReserve DEF ReserveRaises
  <2>2. /\ cost' \in [Accounts -> Nat]
        /\ held' \in [Calls -> SUBSET Metered]
        /\ spent' \in [Accounts -> Nat]
    BY <1>12, <2>1, HoldType DEF ReserveRaises, books, TypeOK, Hold
  <2>3. pc' \in [Calls -> Labels]
    BY <1>12, GotoType, StageLabels DEF ReserveRaises
  <2> QED BY <1>12, <2>2, <2>3 DEF ReserveRaises, TypeOK, answer, flags
<1>13. ASSUME NEW c \in Calls, Raise(c) PROVE TypeOK'
  <2>1. pc' \in [Calls -> Labels] BY <1>13, GotoType, StageLabels DEF Raise
  <2> QED BY <1>13, <2>1 DEF Raise, TypeOK, answer, flags, books
<1>14. ASSUME NEW c \in Calls, NEW p \in Providers, SettleCall(c, p)
       PROVE  TypeOK'
  <2>1. p \in Metered BY <1>14, <1>a, AtSettle DEF SettleCall
  <2>2. /\ cost' \in [Accounts -> Nat]
        /\ held' \in [Calls -> SUBSET Metered]
        /\ spent' \in [Accounts -> Nat]
    BY <1>14, <2>1, SettleType, ActualType DEF SettleCall
  <2>3. pc' \in [Calls -> Labels]
    BY <1>14, GotoType, StageLabels DEF SettleCall
  <2>4. settled' \in [Calls -> SUBSET Metered]
    BY <1>14, <2>1 DEF SettleCall, TypeOK
  <2> QED BY <1>14, <2>2, <2>3, <2>4 DEF SettleCall, TypeOK, answer
<1>15. ASSUME NEW c \in Calls, NEW p \in Providers, SettleRaises(c, p)
       PROVE  TypeOK'
  <2>1. p \in Metered BY <1>15, <1>a, AtSettle DEF SettleRaises
  <2>2. /\ cost' \in [Accounts -> Nat]
        /\ held' \in [Calls -> SUBSET Metered]
        /\ spent' \in [Accounts -> Nat]
    <3>1. CASE UNCHANGED books BY <3>1 DEF books, TypeOK
    <3>2. CASE Settle(c, p, Actual(c, p)) BY <3>2, <2>1, SettleType, ActualType
    <3> QED BY <1>15, <3>1, <3>2 DEF SettleRaises
  <2>3. pc' \in [Calls -> Labels]
    BY <1>15, GotoType, StageLabels DEF SettleRaises
  <2> QED BY <1>15, <2>2, <2>3 DEF SettleRaises, TypeOK, answer, flags
<1>16. ASSUME NEW c \in Calls, NEW p \in Providers, Refund(c, p)
       PROVE  TypeOK'
  <2>1. p \in Metered BY <1>16, <1>a, AtSettle DEF Refund
  <2>2. /\ cost' \in [Accounts -> Nat]
        /\ held' \in [Calls -> SUBSET Metered]
        /\ spent' \in [Accounts -> Nat]
    <3>1. CASE UNCHANGED books BY <3>1 DEF books, TypeOK
    <3>2. CASE Settle(c, p, 0) BY <3>2, <2>1, SettleType
    <3> QED BY <1>16, <3>1, <3>2 DEF Refund
  <2>3. pc' \in [Calls -> Labels]
    BY <1>16, GotoType, StageLabels DEF Refund
  <2> QED BY <1>16, <2>2, <2>3 DEF Refund, TypeOK, answer, flags
<1>17. CASE NextMonth
  BY <1>17 DEF NextMonth, TypeOK, Months, flags, answer
<1>18. CASE UNCHANGED vars
  BY <1>18 DEF vars, TypeOK
<1> QED
  BY <1>1, <1>2, <1>3, <1>4, <1>5, <1>6, <1>7, <1>8, <1>9, <1>10, <1>11,
     <1>12, <1>13, <1>14, <1>15, <1>16, <1>17, <1>18
  DEF Next, Progress, Failure, Exit, Crash
-----------------------------------------------------------------------------
(* The invariant of one call.                                              *)

(* A step of one call leaves the others as they are.                       *)
Frame(c) == \A d \in Calls \ {c} :
  /\ pc'[d] = pc[d] /\ reserved'[d] = reserved[d] /\ denied'[d] = denied[d]
  /\ settled'[d] = settled[d] /\ held'[d] = held[d] /\ used'[d] = used[d]
  /\ tries'[d] = tries[d]

LEMMA FrameStep ==
  ASSUME \A d \in Calls : CallInv(d), NEW c \in Calls, Frame(c), CallInv(c)'
  PROVE  \A d \in Calls : CallInv(d)'
<1> SUFFICES ASSUME NEW d \in Calls, d # c PROVE CallInv(d)' OBVIOUS
<1>1. CallInv(d) OBVIOUS
<1>2. /\ pc'[d] = pc[d] /\ reserved'[d] = reserved[d]
      /\ denied'[d] = denied[d] /\ settled'[d] = settled[d]
      /\ held'[d] = held[d] /\ used'[d] = used[d] /\ tries'[d] = tries[d]
  BY DEF Frame
<1>3. Control(d)' BY <1>1, <1>2 DEF CallInv, Control
<1>4. Attempts(d)' BY <1>1, <1>2 DEF CallInv, Attempts
<1>5. Pending(d)' BY <1>1, <1>2 DEF CallInv, Pending
<1>6. Usage(d)' BY <1>1, <1>2 DEF CallInv, Usage
<1> QED BY <1>3, <1>4, <1>5, <1>6 DEF CallInv

LEMMA StartStep ==
  ASSUME TypeOK, \A d \in Calls : CallInv(d), NEW c \in Calls, Start(c)
  PROVE  \A d \in Calls : CallInv(d)'
<1> USE ConstantsAssumption, Stages
<1>1. Frame(c)
  BY DEF Start, Frame, Goto, TypeOK, flags, answer, books
<1>2. Control(c)'
  <2>1. /\ reserved'[c] = {} /\ denied'[c] = {} /\ settled'[c] = {}
        /\ held'[c] = {}
    BY DEF Start, flags, books, CallInv, Control
  <2>2. pc'[c] = FirstOf(ReserveAt, Metered, "classify")
    BY DEF Start, Goto, TypeOK
  <2>3. \/ "l1" \in Metered /\ pc'[c] = "reserve_l1"
        \/ Metered = {"guardrail"} /\ pc'[c] = "reserve_g"
        \/ Metered = {} /\ pc'[c] = "classify"
    BY <2>2, FirstStage
  <2> QED BY <2>1, <2>3 DEF Control, Unprotected, Providers
<1>3. Attempts(c)'
  <2>1. pc[c] = "idle" /\ tries' = tries BY DEF Start, answer
  <2>2. tries[c] < Retries BY <2>1 DEF CallInv, Attempts
  <2> QED BY <2>1, <2>2 DEF Attempts
<1>4. Pending(c)'
  BY DEF Start, CallInv, Control, Pending, flags, TypeOK
<1>5. Usage(c)'
  <2>1. pc[c] = "idle" /\ used' = used BY DEF Start, answer
  <2>2. pc'[c] \notin {"l1", "post"}
    BY DEF Start, Goto, FirstOf, TypeOK
  <2> QED BY <2>1, <2>2 DEF CallInv, Usage
<1> QED BY <1>1, <1>2, <1>3, <1>4, <1>5, FrameStep DEF CallInv

(* Where a call goes after the reserve of p.                               *)
LEMMA NextReserve ==
  ASSUME NEW p \in Providers
  PROVE  LET next == FirstOf(ReserveAt, Metered \ UpTo[p], "classify")
         IN \/ p = "l1" /\ "guardrail" \in Metered /\ next = "reserve_g"
            \/ p = "l1" /\ "guardrail" \notin Metered /\ next = "classify"
            \/ p = "guardrail" /\ next = "classify"
BY ConstantsAssumption, Stages DEF FirstOf, Providers

LEMMA ReserveStep ==
  ASSUME TypeOK, \A d \in Calls : CallInv(d), NEW c \in Calls,
         NEW p \in Providers,
         ReserveGranted(c, p) \/ ReserveDenied(c, p)
  PROVE  \A d \in Calls : CallInv(d)'
<1> USE ConstantsAssumption, Stages
<1>1. /\ pc[c] = ReserveAt[p] /\ settled' = settled /\ used' = used
      /\ tries' = tries
      /\ pc'[c] = FirstOf(ReserveAt, Metered \ UpTo[p], "classify")
      /\ \/ /\ reserved'[c] = reserved[c] \cup {p}
            /\ held'[c] = held[c] \cup {p}
            /\ denied'[c] = denied[c]
         \/ /\ reserved'[c] = reserved[c]
            /\ held'[c] = held[c]
            /\ denied'[c] = denied[c] \cup {p}
  BY DEF ReserveGranted, ReserveDenied, Hold, Goto, TypeOK, answer, books
<1>2. Frame(c)
  BY DEF ReserveGranted, ReserveDenied, Hold, Frame, Goto, TypeOK, answer, books
<1>3. \/ p = "l1" /\ "guardrail" \in Metered /\ pc'[c] = "reserve_g"
      \/ p = "l1" /\ "guardrail" \notin Metered /\ pc'[c] = "classify"
      \/ p = "guardrail" /\ pc'[c] = "classify"
  BY <1>1, NextReserve
<1>4. Control(c) BY DEF CallInv
<1>5. settled[c] = {} /\ reserved[c] = held[c] /\ p \in Metered
  BY <1>1, <1>4 DEF Control, Providers
<1>6. Control(c)'
  <2>1. CASE p = "l1"
    <3>1. reserved[c] = {} /\ denied[c] = {} BY <1>1, <1>4, <2>1 DEF Control
    <3>2. /\ reserved'[c] \cup denied'[c] = {"l1"}
          /\ reserved'[c] = held'[c] /\ settled'[c] = {}
      BY <1>1, <1>5, <2>1, <3>1
    <3>3. "guardrail" \notin Metered => Metered = {"l1"}
      BY <1>5, <2>1 DEF Providers
    <3> QED BY <1>3, <2>1, <3>2, <3>3 DEF Control, Unprotected, Providers
  <2>2. CASE p = "guardrail"
    <3>1. "l1" \in Metered => "l1" \in reserved[c] \cup denied[c]
      BY <1>1, <1>4, <2>2 DEF Control
    <3>2. reserved[c] \subseteq Metered /\ denied[c] \subseteq Metered
      BY DEF TypeOK
    <3>3. reserved'[c] \cup denied'[c] = Metered
      BY <1>1, <1>5, <2>2, <3>1, <3>2 DEF Providers
    <3> QED BY <1>1, <1>3, <1>5, <2>2, <3>3 DEF Control, Unprotected, Providers
  <2> QED BY <2>1, <2>2 DEF Providers
<1>7. Attempts(c)'
  BY <1>1 DEF CallInv, Attempts, Providers
<1>8. Pending(c)'
  BY <1>1, <1>5 DEF Pending
<1>9. Usage(c)'
  BY <1>1, <1>3 DEF CallInv, Usage, Providers
<1> QED BY <1>2, <1>6, <1>7, <1>8, <1>9, FrameStep DEF CallInv

LEMMA ReserveRaisesStep ==
  ASSUME TypeOK, \A d \in Calls : CallInv(d), NEW c \in Calls,
         NEW p \in Providers, ReserveRaises(c, p)
  PROVE  \A d \in Calls : CallInv(d)'
<1> USE ConstantsAssumption, Stages
<1>1. /\ pc[c] = ReserveAt[p] /\ UNCHANGED flags /\ UNCHANGED answer
      /\ pc'[c] = Finally(reserved[c] \ settled[c])
      /\ held[c] \subseteq held'[c]
  BY DEF ReserveRaises, Hold, Goto, TypeOK, books
<1>2. Frame(c)
  BY DEF ReserveRaises, Hold, Frame, Goto, TypeOK, answer, books, flags
<1>3. reserved[c] \ settled[c] \in SUBSET Providers
  BY DEF TypeOK
<1>4. \/ "l1" \in reserved[c] \ settled[c] /\ pc'[c] = "refund_l1"
      \/ reserved[c] \ settled[c] = {"guardrail"} /\ pc'[c] = "refund_g"
      \/ reserved[c] \ settled[c] = {} /\ pc'[c] = "exit"
  BY <1>1, <1>3, FirstStage
<1>5. Control(c)'
  BY <1>1, <1>4 DEF Control, Unprotected, Providers, flags
<1>6. Attempts(c)'
  BY <1>4 DEF Attempts
<1>7. Pending(c)'
  BY <1>1, <1>4 DEF CallInv, Pending, Past, flags, Providers
<1>8. Usage(c)'
  BY <1>1, <1>4 DEF CallInv, Usage, answer
<1> QED BY <1>2, <1>5, <1>6, <1>7, <1>8, FrameStep DEF CallInv

LEMMA MaxType == \A p \in Providers : MaxCost(p) \in Nat
BY ConstantsAssumption DEF MaxCost

LEMMA PriceBound ==
  ASSUME NEW p \in Providers, NEW b \in Price(p) \cup {0}
  PROVE  b \in Nat /\ b <= MaxCost(p)
<1>1. MaxCost(p) \in Nat BY MaxType
<1>2. CASE b = 0 BY <1>1, <1>2
<1>3. CASE p \in Metered /\ b \in CallCosts[p]
  BY <1>3, ConstantsAssumption, CostsAreBounded DEF MaxCost
<1> QED BY <1>1, <1>2, <1>3 DEF Price

LEMMA JudgeUsage ==
  ASSUME TypeOK, NEW c \in Calls, NEW ACTION onPass, Judge(c, onPass)
  PROVE  \E b \in Price("guardrail") \cup {0} :
           /\ used'[c]["guardrail"] = used[c]["guardrail"] + b
           /\ used'[c]["l1"] = used[c]["l1"]
<1>1. /\ used \in [Calls -> [Providers -> Nat]]
      /\ "guardrail" \in Providers /\ "l1" \in Providers
  BY DEF TypeOK, Providers
<1>2. CASE used' = used
  <2>1. used'[c]["guardrail"] = used[c]["guardrail"] + 0 BY <1>1, <1>2
  <2> QED BY <1>2, <2>1
<1>3. ASSUME NEW b \in Price("guardrail"),
             used' = [used EXCEPT ![c]["guardrail"] = @ + b]
      PROVE  /\ used'[c]["guardrail"] = used[c]["guardrail"] + b
             /\ used'[c]["l1"] = used[c]["l1"]
  BY <1>1, <1>3
<1> QED BY <1>2, <1>3 DEF Judge

(* The steps of Classifier.classify touch neither reservations nor flags.  *)
LEMMA ClassifyStep ==
  ASSUME TypeOK, \A d \in Calls : CallInv(d), NEW c \in Calls,
         \/ BudgetFallback(c) \/ CacheHit(c) \/ PreCheck(c)
         \/ L1Answers(c) \/ L1Fails(c) \/ PostCheck(c)
  PROVE  \A d \in Calls : CallInv(d)'
<1> USE ConstantsAssumption, Stages
<1>1. UNCHANGED flags /\ held' = held
  BY DEF BudgetFallback, CacheHit, PreCheck, L1Answers, L1Fails, PostCheck, books
<1>2. /\ pc[c] \in {"classify", "l1", "post"}
      /\ pc'[c] \in {"l1", "post", "persist"}
      /\ pc'[c] \in {"l1", "post"} => denied[c] = {} \/ pc[c] \in {"l1", "post"}
  BY DEF BudgetFallback, CacheHit, PreCheck, L1Answers, L1Fails, PostCheck,
     Judge, Fallback, Goto, TypeOK
<1>3. Frame(c)
  <2>1. \A d \in Calls \ {c} : pc'[d] = pc[d] /\ tries'[d] = tries[d]
    BY DEF BudgetFallback, CacheHit, PreCheck, L1Answers, L1Fails, PostCheck,
       Judge, Fallback, Goto, TypeOK
  <2>2. \A d \in Calls \ {c} : used'[d] = used[d]
    BY DEF BudgetFallback, CacheHit, PreCheck, L1Answers, L1Fails, PostCheck,
       Judge, TypeOK
  <2> QED BY <1>1, <2>1, <2>2 DEF Frame, flags
<1>4. Control(c) /\ Attempts(c) /\ Pending(c) /\ Usage(c) BY DEF CallInv
<1>5. Control(c)'
  BY <1>1, <1>2, <1>4 DEF Control, Unprotected, flags, Providers
<1>6. Pending(c)'
  BY <1>1, <1>2, <1>4 DEF Pending, Past, flags
<1>7. Attempts(c)'
  <2>1. CASE L1Fails(c)
    <3>1. pc'[c] = "l1" => tries[c] + 1 < Retries /\ tries'[c] = tries[c] + 1
      BY <2>1 DEF L1Fails, GivesUp, Fallback, Goto, TypeOK
    <3> QED BY <1>2, <3>1 DEF Attempts
  <2>2. CASE ~L1Fails(c)
    <3>1. pc'[c] = "l1" => tries' = tries /\ pc[c] = "classify"
      BY <2>2 DEF BudgetFallback, CacheHit, PreCheck, L1Answers, PostCheck,
         Judge, Fallback, Goto, TypeOK
    <3> QED BY <1>2, <1>4, <3>1 DEF Attempts
  <2> QED BY <2>1, <2>2
<1>8. Usage(c)'
  <2>0. /\ MaxCost("guardrail") \in Nat /\ MaxCost("l1") \in Nat
        /\ used[c]["guardrail"] \in Nat /\ used[c]["l1"] \in Nat
        /\ "guardrail" \in Providers /\ "l1" \in Providers
    BY MaxType DEF TypeOK, Providers
  <2>1. CASE BudgetFallback(c) \/ L1Fails(c)
    <3>1. used' = used /\ pc'[c] \in {"persist", "l1"} /\ pc[c] \in {"classify", "l1"}
      BY <2>1 DEF BudgetFallback, L1Fails, GivesUp, Fallback, Goto, TypeOK
    <3>2. used[c]["guardrail"] <= MaxCost("guardrail")
      BY <1>4, <2>0, <3>1 DEF Usage
    <3> QED BY <1>4, <2>0, <3>1, <3>2 DEF Usage
  <2>2. CASE CacheHit(c)
    <3>1. PICK u \in [Providers -> UNION {Price(p) : p \in Providers}] :
               /\ \A p \in Providers : u[p] \in Price(p)
               /\ used' = [used EXCEPT ![c] = u]
      BY <2>2 DEF CacheHit
    <3>2. used'[c] = u BY <3>1 DEF TypeOK
    <3>3. /\ u["guardrail"] \in Nat /\ u["guardrail"] <= MaxCost("guardrail")
          /\ u["l1"] \in Nat /\ u["l1"] <= MaxCost("l1")
      BY <2>0, <3>1, PriceBound
    <3>4. pc'[c] = "persist" BY <2>2 DEF CacheHit, Goto, TypeOK
    <3> QED BY <2>0, <3>2, <3>3, <3>4 DEF Usage
  <2>3. CASE PreCheck(c)
    <3>1. PICK b \in Price("guardrail") \cup {0} :
               /\ used'[c]["guardrail"] = used[c]["guardrail"] + b
               /\ used'[c]["l1"] = used[c]["l1"]
      BY <2>3, JudgeUsage DEF PreCheck
    <3>2. used[c]["guardrail"] = 0 /\ used[c]["l1"] <= MaxCost("l1")
      BY <1>4, <2>3 DEF Usage, PreCheck
    <3>3. b \in Nat /\ b <= MaxCost("guardrail") BY <2>0, PriceBound
    <3>4. pc'[c] \in {"l1", "persist"} BY <1>2, <2>3 DEF PreCheck, Judge, Goto, Fallback, TypeOK
    <3> QED BY <2>0, <3>1, <3>2, <3>3, <3>4 DEF Usage
  <2>4. CASE L1Answers(c)
    <3>1. PICK b \in Price("l1") : used' = [used EXCEPT ![c]["l1"] = b]
      BY <2>4 DEF L1Answers
    <3>2. /\ used'[c]["guardrail"] = used[c]["guardrail"]
          /\ used'[c]["l1"] = b
      BY <2>0, <3>1 DEF TypeOK
    <3>3. b \in Nat /\ b <= MaxCost("l1") BY <2>0, PriceBound
    <3>4. used[c]["guardrail"] <= MaxCost("guardrail")
      BY <1>4, <2>4 DEF Usage, L1Answers
    <3>5. pc'[c] = "post" BY <2>4 DEF L1Answers, Goto, TypeOK
    <3> QED BY <1>4, <2>0, <3>2, <3>3, <3>4, <3>5 DEF Usage
  <2>5. CASE PostCheck(c)
    <3>1. PICK b \in Price("guardrail") \cup {0} :
               /\ used'[c]["guardrail"] = used[c]["guardrail"] + b
               /\ used'[c]["l1"] = used[c]["l1"]
      BY <2>5, JudgeUsage DEF PostCheck
    <3>2. /\ used[c]["guardrail"] <= MaxCost("guardrail")
          /\ used[c]["l1"] <= MaxCost("l1")
      BY <1>4, <2>5 DEF Usage, PostCheck
    <3>3. b \in Nat /\ b <= MaxCost("guardrail") BY <2>0, PriceBound
    <3>4. pc'[c] = "persist" BY <2>5 DEF PostCheck, Judge, Goto, Fallback, TypeOK
    <3> QED BY <2>0, <3>1, <3>2, <3>3, <3>4 DEF Usage
  <2> QED BY <2>1, <2>2, <2>3, <2>4, <2>5
<1> QED BY <1>3, <1>5, <1>6, <1>7, <1>8, FrameStep DEF CallInv

(* persist_outcome returns or raises, and so may every step before it.     *)
LEMMA LeaveStep ==
  ASSUME TypeOK, \A d \in Calls : CallInv(d), NEW c \in Calls,
         Persist(c) \/ Raise(c)
  PROVE  \A d \in Calls : CallInv(d)'
<1> USE ConstantsAssumption, Stages
<1>1. UNCHANGED flags /\ UNCHANGED answer /\ held' = held /\ pc[c] \in Unprotected
  BY DEF Persist, Raise, books, Unprotected
<1>2. Frame(c)
  BY DEF Persist, Raise, Frame, Goto, TypeOK, answer, books, flags
<1>3. Control(c) /\ Attempts(c) /\ Pending(c) /\ Usage(c) BY DEF CallInv
<1>4. /\ settled[c] = {} /\ reserved[c] \in SUBSET Providers
      /\ reserved[c] \ settled[c] = reserved[c] /\ reserved[c] = held[c]
  BY <1>1, <1>3 DEF Control, TypeOK
<1>5. \/ "l1" \in reserved[c] /\ pc'[c] \in {"settle_l1", "refund_l1"}
      \/ reserved[c] = {"guardrail"} /\ pc'[c] \in {"settle_g", "refund_g"}
      \/ reserved[c] = {} /\ pc'[c] = "exit"
  <2>1. \/ pc'[c] = Finally(reserved[c])
        \/ pc'[c] = FirstOf(SettleAt, reserved[c], Finally(reserved[c]))
    BY <1>4 DEF Persist, Raise, Goto, TypeOK
  <2> QED BY <1>4, <2>1, FirstStage
<1>6. Control(c)'
  BY <1>1, <1>4, <1>5 DEF Control, Unprotected, Providers, flags
<1>7. Attempts(c)' BY <1>5 DEF Attempts
<1>8. Pending(c)'
  BY <1>1, <1>3, <1>4, <1>5 DEF Pending, Control, flags
<1>9. Usage(c)' BY <1>1, <1>3, <1>5 DEF Usage, answer
<1> QED BY <1>2, <1>6, <1>7, <1>8, <1>9, FrameStep DEF CallInv

LEMMA SettleStep ==
  ASSUME TypeOK, \A d \in Calls : CallInv(d), NEW c \in Calls,
         NEW p \in Providers, SettleCall(c, p)
  PROVE  \A d \in Calls : CallInv(d)'
<1> USE ConstantsAssumption, Stages
<1>1. /\ pc[c] = SettleAt[p] /\ reserved' = reserved /\ denied' = denied
      /\ UNCHANGED answer
      /\ settled'[c] = settled[c] \cup {p}
      /\ held'[c] = held[c] \ {p}
      /\ pc'[c] = FirstOf(SettleAt, reserved[c] \ UpTo[p],
                          Finally(reserved[c] \ settled'[c]))
  BY DEF SettleCall, Settle, Goto, TypeOK
<1>2. Frame(c)
  BY DEF SettleCall, Settle, Frame, Goto, TypeOK, answer
<1>3. Control(c) /\ Attempts(c) /\ Pending(c) /\ Usage(c) BY DEF CallInv
<1>4. reserved[c] \in SUBSET Providers /\ p \in reserved[c] \ settled[c]
  BY <1>1, <1>3 DEF Control, TypeOK
<1>5. /\ reserved[c] \ UpTo[p] \in SUBSET Providers
      /\ reserved[c] \ settled'[c] \in SUBSET Providers
  BY <1>4
<1>6. \/ "l1" \in reserved[c] \ settled'[c] /\ pc'[c] = "refund_l1"
      \/ /\ reserved[c] \ settled'[c] = {"guardrail"}
         /\ pc'[c] \in {"settle_g", "refund_g"}
      \/ reserved[c] \ settled'[c] = {} /\ pc'[c] = "exit"
  <2>1. \/ p = "l1" /\ "guardrail" \in reserved[c] /\ pc'[c] = "settle_g"
        \/ pc'[c] = Finally(reserved[c] \ settled'[c])
    BY <1>1 DEF FirstOf, Providers
  <2>2. CASE p = "l1" /\ "guardrail" \in reserved[c] /\ pc'[c] = "settle_g"
    <3>1. settled[c] = {} BY <1>1, <1>3, <2>2 DEF Control
    <3>2. reserved[c] \ settled'[c] = {"guardrail"}
      BY <1>1, <1>4, <2>2, <3>1 DEF Providers
    <3> QED BY <2>2, <3>2
  <2>3. CASE pc'[c] = Finally(reserved[c] \ settled'[c])
    BY <1>5, <2>3, FirstStage
  <2> QED BY <2>1, <2>2, <2>3
<1>7. Control(c)'
  <2>1. pc'[c] = "settle_g" => p = "l1" /\ "guardrail" \in reserved[c]
    BY <1>1 DEF FirstOf, Finally, Providers
  <2>2. p = "l1" => reserved[c] = held[c] BY <1>1, <1>3 DEF Control
  <2>3. pc'[c] = "settle_g" => "guardrail" \in held'[c]
    BY <1>1, <2>1, <2>2
  <2> QED BY <1>1, <1>6, <2>3 DEF Control, Unprotected, Providers
<1>8. Attempts(c)' BY <1>6 DEF Attempts
<1>9. Pending(c)'
  BY <1>1, <1>3, <1>4, <1>6 DEF Pending, Past, Providers
<1>10. Usage(c)' BY <1>1, <1>3, <1>6 DEF Usage, answer
<1> QED BY <1>2, <1>7, <1>8, <1>9, <1>10, FrameStep DEF CallInv

LEMMA SettleRaisesStep ==
  ASSUME TypeOK, \A d \in Calls : CallInv(d), NEW c \in Calls,
         NEW p \in Providers, SettleRaises(c, p)
  PROVE  \A d \in Calls : CallInv(d)'
<1> USE ConstantsAssumption, Stages
<1>1. /\ pc[c] = SettleAt[p] /\ UNCHANGED flags /\ UNCHANGED answer
      /\ NoLostSettle => held' = held
      /\ pc'[c] = Finally(reserved[c] \ settled[c])
  BY DEF SettleRaises, NoLostSettle, Goto, TypeOK, books
<1>2. Frame(c)
  BY DEF SettleRaises, Settle, Frame, Goto, TypeOK, answer, flags, books
<1>3. Control(c) /\ Attempts(c) /\ Pending(c) /\ Usage(c) BY DEF CallInv
<1>4. reserved[c] \ settled[c] \in SUBSET Providers BY DEF TypeOK
<1>5. \/ "l1" \in reserved[c] \ settled[c] /\ pc'[c] = "refund_l1"
      \/ reserved[c] \ settled[c] = {"guardrail"} /\ pc'[c] = "refund_g"
      \/ reserved[c] \ settled[c] = {} /\ pc'[c] = "exit"
  BY <1>1, <1>4, FirstStage
<1>6. Control(c)'
  BY <1>1, <1>5 DEF Control, Unprotected, Providers, flags
<1>7. Attempts(c)' BY <1>5 DEF Attempts
<1>8. Pending(c)'
  BY <1>1, <1>3, <1>5 DEF Pending, Past, flags, Providers
<1>9. Usage(c)' BY <1>1, <1>3, <1>5 DEF Usage, answer
<1> QED BY <1>2, <1>6, <1>7, <1>8, <1>9, FrameStep DEF CallInv

LEMMA RefundStep ==
  ASSUME TypeOK, \A d \in Calls : CallInv(d), NEW c \in Calls,
         NEW p \in Providers, Refund(c, p)
  PROVE  \A d \in Calls : CallInv(d)'
<1> USE ConstantsAssumption, Stages
<1>1. /\ pc[c] = RefundAt[p] /\ UNCHANGED flags /\ UNCHANGED answer
      /\ held[c] \ {p} \subseteq held'[c]
      /\ pc'[c] = Finally((reserved[c] \ settled[c]) \ UpTo[p])
  BY DEF Refund, Settle, Goto, TypeOK, books
<1>2. Frame(c)
  BY DEF Refund, Settle, Frame, Goto, TypeOK, answer, flags, books
<1>3. Control(c) /\ Attempts(c) /\ Pending(c) /\ Usage(c) BY DEF CallInv
<1>4. reserved[c] \in SUBSET Providers BY DEF TypeOK
<1>5. \/ /\ p = "l1" /\ "guardrail" \in reserved[c] \ settled[c]
         /\ pc'[c] = "refund_g"
      \/ pc'[c] = "exit"
  <2>1. CASE p = "l1"
    <3>1. (reserved[c] \ settled[c]) \ UpTo[p] \in SUBSET {"guardrail"}
      BY <1>4, <2>1 DEF Providers
    <3> QED BY <1>1, <2>1, <3>1 DEF Finally, FirstOf
  <2>2. CASE p = "guardrail"
    <3>1. (reserved[c] \ settled[c]) \ UpTo[p] = {}
      BY <1>4, <2>2 DEF Providers
    <3> QED BY <1>1, <3>1 DEF Finally, FirstOf
  <2> QED BY <2>1, <2>2 DEF Providers
<1>6. Control(c)'
  BY <1>1, <1>5 DEF Control, Unprotected, Providers, flags
<1>7. Attempts(c)' BY <1>5 DEF Attempts
<1>8. Pending(c)'
  BY <1>1, <1>3, <1>4, <1>5 DEF Pending, Past, flags, Providers
<1>9. Usage(c)' BY <1>1, <1>3, <1>5 DEF Usage, answer
<1> QED BY <1>2, <1>6, <1>7, <1>8, <1>9, FrameStep DEF CallInv

LEMMA OverStep ==
  ASSUME TypeOK, \A d \in Calls : CallInv(d), NEW S \in SUBSET Calls, Over(S)
  PROVE  \A d \in Calls : CallInv(d)'
<1> USE ConstantsAssumption, Stages
<1> SUFFICES ASSUME NEW d \in Calls PROVE CallInv(d)' OBVIOUS
<1>1. CASE d \in S
  <2>1. /\ pc'[d] = "idle" /\ reserved'[d] = {} /\ denied'[d] = {}
        /\ settled'[d] = {} /\ held'[d] = {} /\ tries'[d] = 0
        /\ used'[d] = NoUsage
    BY <1>1 DEF Over
  <2>2. Control(d)' BY <2>1 DEF Control, Unprotected, Providers
  <2>3. Attempts(d)' BY <2>1 DEF Attempts
  <2>4. Pending(d)' BY <2>1 DEF Pending
  <2>5. Usage(d)' BY <2>1, MaxType DEF Usage, NoUsage, Providers
  <2> QED BY <2>2, <2>3, <2>4, <2>5 DEF CallInv
<1>2. CASE d \notin S
  <2>1. /\ pc'[d] = pc[d] /\ reserved'[d] = reserved[d]
        /\ denied'[d] = denied[d] /\ settled'[d] = settled[d]
        /\ held'[d] = held[d] /\ used'[d] = used[d] /\ tries'[d] = tries[d]
    BY <1>2 DEF Over
  <2>2. CallInv(d) OBVIOUS
  <2>3. Control(d)' BY <2>1, <2>2 DEF CallInv, Control
  <2>4. Attempts(d)' BY <2>1, <2>2 DEF CallInv, Attempts
  <2>5. Pending(d)' BY <2>1, <2>2 DEF CallInv, Pending
  <2>6. Usage(d)' BY <2>1, <2>2 DEF CallInv, Usage
  <2> QED BY <2>3, <2>4, <2>5, <2>6 DEF CallInv
<1> QED BY <1>1, <1>2

LEMMA CallStep ==
  ASSUME TypeOK, \A c \in Calls : CallInv(c), [Next]_vars
  PROVE  \A c \in Calls : CallInv(c)'
<1>1. CASE UNCHANGED vars \/ NextMonth
  <2>1. /\ UNCHANGED <<pc, reserved, denied, settled, held, used, tries>>
    BY <1>1 DEF vars, NextMonth, flags, answer
  <2> QED BY <2>1 DEF CallInv, Control, Attempts, Pending, Usage
<1>2. CASE \E c \in Calls : Start(c) BY <1>2, StartStep
<1>3. CASE \E c \in Calls : Progress(c)
  BY <1>3, ClassifyStep, LeaveStep, OverStep, ReserveStep, SettleStep, RefundStep
  DEF Progress, Exit
<1>4. CASE \E c \in Calls : Failure(c)
  BY <1>4, LeaveStep, ReserveRaisesStep, SettleRaisesStep DEF Failure
<1>5. CASE Crash BY <1>5, OverStep DEF Crash
<1> QED BY <1>1, <1>2, <1>3, <1>4, <1>5 DEF Next

LEMMA InitOK == Init => TypeOK /\ \A c \in Calls : CallInv(c)
<1> SUFFICES ASSUME Init PROVE TypeOK /\ \A c \in Calls : CallInv(c) OBVIOUS
<1> USE ConstantsAssumption, Stages
<1>1. TypeOK
  BY DEF Init, TypeOK, Months, Labels, NoUsage
<1>2. ASSUME NEW c \in Calls PROVE CallInv(c)
  <2>1. /\ pc[c] = "idle" /\ reserved[c] = {} /\ denied[c] = {}
        /\ settled[c] = {} /\ held[c] = {} /\ tries[c] = 0
        /\ used[c] = NoUsage
    BY DEF Init
  <2>2. Control(c) BY <2>1 DEF Control, Unprotected, Providers
  <2>3. Attempts(c) BY <2>1 DEF Attempts
  <2>4. Pending(c) BY <2>1 DEF Pending
  <2>5. Usage(c) BY <2>1, MaxType DEF Usage, NoUsage, Providers
  <2> QED BY <2>2, <2>3, <2>4, <2>5 DEF CallInv
<1> QED BY <1>1, <1>2

(* Every variable stays in its type, whatever faults occur.                *)
THEOREM TypeCorrect == Spec => []TypeOK
<1> DEFINE Inv == TypeOK /\ \A c \in Calls : CallInv(c)
<1>1. Init => Inv BY InitOK
<1>2. Inv /\ [Next]_vars => Inv' BY TypeStep, CallStep
<1> QED BY <1>1, <1>2, PTL DEF Spec

(* FR-340, FR-329: a model call is made only with every metered layer's    *)
(* estimate in the ledger, whatever faults occur.                          *)
THEOREM CoveredCalls == Spec => []CallsAreCovered
<1> DEFINE Inv == TypeOK /\ \A c \in Calls : CallInv(c)
<1>1. Init => Inv BY InitOK
<1>2. Inv /\ [Next]_vars => Inv' BY TypeStep, CallStep
<1>3. Inv => CallsAreCovered
  <2> SUFFICES ASSUME Inv, NEW c \in Calls, pc[c] \in {"l1", "post"}
               PROVE  held[c] = Metered
    BY DEF CallsAreCovered
  <2>1. Control(c) BY DEF CallInv
  <2>2. denied[c] = {} /\ reserved[c] = held[c] /\ reserved[c] \cup denied[c] = Metered
    BY <2>1 DEF Control, Unprotected
  <2> QED BY <2>2
<1> QED BY <1>1, <1>2, <1>3, PTL DEF Spec

(* The finally block refunds only what the ledger holds, unless a settle   *)
(* committed behind the service's back.                                    *)
THEOREM RefundsHeld == ASSUME NoLostSettle PROVE Spec => []RefundsOnlyHeld
<1> DEFINE Inv == TypeOK /\ \A c \in Calls : CallInv(c)
<1>1. Init => Inv BY InitOK
<1>2. Inv /\ [Next]_vars => Inv' BY TypeStep, CallStep
<1>3. Inv => RefundsOnlyHeld
  <2> SUFFICES ASSUME Inv, NEW c \in Calls, NEW p \in Providers,
                      pc[c] = RefundAt[p]
               PROVE  p \in held[c]
    BY DEF RefundsOnlyHeld
  <2>1. Control(c) /\ Pending(c) BY DEF CallInv
  <2>2. p \in reserved[c] \ settled[c] BY <2>1 DEF Control
  <2>3. pc[c] \notin Past(p) BY Stages DEF Past, Providers
  <2> QED BY <2>1, <2>2, <2>3 DEF Pending
<1> QED BY <1>1, <1>2, <1>3, PTL DEF Spec

-----------------------------------------------------------------------------
(* What a step does to the books: nothing, one more reservation, or one    *)
(* reservation replaced by what it really cost.                            *)

Quiet ==
  /\ UNCHANGED <<cost, spent>>
  /\ \A b \in Accounts : Outstanding(b)' = Outstanding(b)

OpenStep(a) ==
  /\ Budget[a[1]] > 0 => cost[a] + Est(a[1]) <= Budget[a[1]]
  /\ cost' = [cost EXCEPT ![a] = @ + Est(a[1])]
  /\ spent' = spent
  /\ Outstanding(a)' = Outstanding(a) + 1
  /\ \A b \in Accounts \ {a} : Outstanding(b)' = Outstanding(b)

CloseStep(a, actual) ==
  /\ actual <= Est(a[1]) + Excess(a[1])
  /\ cost' = [cost EXCEPT ![a] = Reconcile(a, a[1], actual)]
  /\ spent' = [spent EXCEPT ![a] = @ + actual]
  /\ Outstanding(a) > 0
  /\ Outstanding(a)' = Outstanding(a) - 1
  /\ \A b \in Accounts \ {a} : Outstanding(b)' = Outstanding(b)

LEMMA HoldersFinite ==
  ASSUME NEW a
  PROVE  IsFiniteSet(Holders(a)) /\ Cardinality(Holders(a)) \in Nat
BY ConstantsAssumption, FS_Subset, FS_CardinalityType DEF Holders

(* One more holder, and one less.                                          *)
LEMMA OneMore ==
  ASSUME NEW S, IsFiniteSet(S), NEW c, c \notin S
  PROVE  Cardinality(S \cup {c}) = Cardinality(S) + 1
BY FS_AddElement

LEMMA OneLess ==
  ASSUME NEW S, IsFiniteSet(S), NEW c, c \in S
  PROVE  Cardinality(S \ {c}) = Cardinality(S) - 1
BY FS_RemoveElement

LEMMA RowFacts ==
  ASSUME TypeOK, NEW c \in Calls, NEW p \in Providers
  PROVE  /\ Row(c, p) \in Accounts
         /\ Row(c, p)[1] = p /\ Row(c, p)[2] = period[c]
         /\ \A b \in Accounts : b[1] = p /\ b[2] = period[c] => b = Row(c, p)
BY DEF Row, Accounts, TypeOK

LEMMA SameHolders ==
  ASSUME UNCHANGED <<held, period, leaked>>, NEW b
  PROVE  Outstanding(b)' = Outstanding(b)
<1>1. Holders(b)' = Holders(b) BY DEF Holders
<1> QED BY <1>1 DEF Outstanding

LEMMA HoldBooks ==
  ASSUME TypeOK, NEW c \in Calls, NEW p \in Providers, p \notin held[c],
         ~OverBudget(c, p), Hold(c, p), UNCHANGED <<period, leaked>>,
         NEW a \in Accounts, a = Row(c, p)
  PROVE  OpenStep(a)
<1>1. a \in Accounts /\ a[1] = p /\ a[2] = period[c] BY RowFacts
<1>2. \A b \in Accounts : b[1] = p /\ b[2] = period[c] => b = a BY RowFacts
<1>3. held' = [held EXCEPT ![c] = @ \cup {p}] BY DEF Hold
<1>4. Holders(a)' = Holders(a) \cup {c} /\ c \notin Holders(a)
  BY <1>1, <1>3 DEF Holders, TypeOK
<1>5. Outstanding(a)' = Outstanding(a) + 1
  <2>1. Cardinality(Holders(a)') = Cardinality(Holders(a)) + 1
    <3>1. IsFiniteSet(Holders(a)) BY HoldersFinite
    <3>2. Cardinality(Holders(a) \cup {c}) = Cardinality(Holders(a)) + 1
      BY <1>4, <3>1, OneMore
    <3> QED BY <1>4, <3>2
  <2> QED BY <1>1, <2>1, HoldersFinite DEF Outstanding, TypeOK
<1>6. ASSUME NEW b \in Accounts \ {a} PROVE Outstanding(b)' = Outstanding(b)
  <2>1. ~(b[1] = p /\ b[2] = period[c]) BY <1>2
  <2>2. ASSUME NEW d \in Calls
        PROVE  b[1] \in held'[d] /\ period'[d] = b[2] <=>
               b[1] \in held[d] /\ period[d] = b[2]
    BY <1>3, <2>1 DEF TypeOK
  <2>3. Holders(b)' = Holders(b) BY <2>2 DEF Holders
  <2> QED BY <2>3 DEF Outstanding
<1>7. /\ Budget[a[1]] > 0 => cost[a] + Est(a[1]) <= Budget[a[1]]
      /\ cost' = [cost EXCEPT ![a] = @ + Est(a[1])]
      /\ spent' = spent
  <2>1. cost[a] \in Nat /\ Est(p) \in Nat /\ Budget[p] \in Nat
    BY <1>1, EstType, ConstantsAssumption DEF TypeOK
  <2>2. Budget[p] > 0 => cost[a] + Est(p) <= Budget[p]
    BY <2>1 DEF OverBudget
  <2> QED BY <1>1, <2>2 DEF Hold
<1> QED BY <1>5, <1>6, <1>7 DEF OpenStep

LEMMA SettleBooks ==
  ASSUME TypeOK, NEW c \in Calls, NEW p \in Providers, p \in held[c],
         NEW actual \in Nat, actual <= Est(p) + Excess(p),
         Settle(c, p, actual), UNCHANGED <<period, leaked>>,
         NEW a \in Accounts, a = Row(c, p)
  PROVE  CloseStep(a, actual)
<1>1. a \in Accounts /\ a[1] = p /\ a[2] = period[c] BY RowFacts
<1>2. \A b \in Accounts : b[1] = p /\ b[2] = period[c] => b = a BY RowFacts
<1>3. /\ cost' = [cost EXCEPT ![a] = Reconcile(a, a[1], actual)]
      /\ spent' = [spent EXCEPT ![a] = @ + actual]
      /\ held' = [held EXCEPT ![c] = @ \ {p}]
  BY <1>1 DEF Settle
<1>4. Holders(a)' = Holders(a) \ {c} /\ c \in Holders(a)
  BY <1>1, <1>3 DEF Holders, TypeOK
<1>5. Outstanding(a) > 0 /\ Outstanding(a)' = Outstanding(a) - 1
  <2>1. Cardinality(Holders(a)') = Cardinality(Holders(a)) - 1
    <3>1. IsFiniteSet(Holders(a)) BY HoldersFinite
    <3>2. Cardinality(Holders(a) \ {c}) = Cardinality(Holders(a)) - 1
      BY <1>4, <3>1, OneLess
    <3> QED BY <1>4, <3>2
  <2>2. Cardinality(Holders(a)) # 0
    BY <1>4, HoldersFinite, FS_EmptySet
  <2>3. leaked[a] \in Nat /\ leaked' = leaked BY <1>1 DEF TypeOK
  <2>4. Cardinality(Holders(a)) \in Nat BY HoldersFinite
  <2> QED BY <2>1, <2>2, <2>3, <2>4 DEF Outstanding
<1>6. ASSUME NEW b \in Accounts \ {a} PROVE Outstanding(b)' = Outstanding(b)
  <2>1. ~(b[1] = p /\ b[2] = period[c]) BY <1>2
  <2>2. ASSUME NEW d \in Calls
        PROVE  b[1] \in held'[d] /\ period'[d] = b[2] <=>
               b[1] \in held[d] /\ period[d] = b[2]
    BY <1>3, <2>1 DEF TypeOK
  <2>3. Holders(b)' = Holders(b) BY <2>2 DEF Holders
  <2> QED BY <2>3 DEF Outstanding
<1> QED BY <1>1, <1>3, <1>5, <1>6 DEF CloseStep

(* Calls that are over hand their holdings from Holders to leaked.         *)
LEMMA OverBooks ==
  ASSUME TypeOK, NEW S \in SUBSET Calls, Over(S)
  PROVE  Quiet
<1>1. cost' = cost /\ spent' = spent BY DEF Over
<1>2. ASSUME NEW b \in Accounts PROVE Outstanding(b)' = Outstanding(b)
  <2>1. ASSUME NEW d \in Calls
        PROVE  b[1] \in held'[d] /\ period'[d] = b[2] <=>
               d \notin S /\ b[1] \in held[d] /\ period[d] = b[2]
    BY DEF Over
  <2>2. Holders(b)' = Holders(b) \ S BY <2>1 DEF Holders
  <2>3. /\ Cardinality(Holders(b) \ S) =
             Cardinality(Holders(b)) - Cardinality(Holders(b) \cap S)
        /\ IsFiniteSet(Holders(b) \cap S)
    BY HoldersFinite, FS_Difference, FS_Intersection
  <2>4. /\ Cardinality(Holders(b)) \in Nat
        /\ Cardinality(Holders(b) \cap S) \in Nat
        /\ leaked[b] \in Nat
    BY <2>3, HoldersFinite, FS_CardinalityType DEF TypeOK
  <2>5. leaked'[b] = leaked[b] + Cardinality(Holders(b) \cap S)
    BY DEF Over
  <2> QED BY <2>2, <2>3, <2>4, <2>5 DEF Outstanding
<1> QED BY <1>1, <1>2 DEF Quiet

LEMMA ActualBound ==
  ASSUME TypeOK, NEW c \in Calls, NEW p \in Providers, Usage(c)
  PROVE  Actual(c, p) <= Est(p) + Excess(p)
<1>1. Est(p) \in Nat /\ Excess(p) \in Nat BY EstType
<1>2. used[c][p] \in Nat BY DEF TypeOK
<1>3. used[c][p] <= Est(p) + Excess(p)
  BY ConstantsAssumption DEF Usage, MaxCost, Est, Excess, Providers
<1> QED BY <1>1, <1>2, <1>3 DEF Actual

LEMMA BooksStep ==
  ASSUME NoLostSettle, TypeOK, \A c \in Calls : CallInv(c), [Next]_vars
  PROVE  \/ Quiet
         \/ \E a \in Accounts : OpenStep(a)
         \/ \E a \in Accounts : \E actual \in Nat : CloseStep(a, actual)
<1> USE ConstantsAssumption
<1>1. ASSUME NEW c \in Calls, NEW p \in Providers, pc[c] = ReserveAt[p],
             ~OverBudget(c, p), Hold(c, p), UNCHANGED <<period, leaked>>
      PROVE  \E a \in Accounts : OpenStep(a)
  <2>1. p \notin held[c]
    BY <1>1, Stages DEF CallInv, Control, Providers
  <2>2. Row(c, p) \in Accounts BY RowFacts
  <2> QED BY <1>1, <2>1, <2>2, HoldBooks
<1>2. ASSUME NEW c \in Calls, NEW p \in Providers,
             pc[c] \in {SettleAt[p], RefundAt[p]}, NEW actual \in Nat,
             actual <= Est(p) + Excess(p),
             Settle(c, p, actual), UNCHANGED <<period, leaked>>
      PROVE  \E a \in Accounts : \E n \in Nat : CloseStep(a, n)
  <2>1. Control(c) /\ Pending(c) BY DEF CallInv
  <2>2. p \in reserved[c] \ settled[c] BY <1>2, <2>1 DEF Control
  <2>3. pc[c] \notin Past(p) BY <1>2, Stages DEF Past, Providers
  <2>4. p \in held[c] BY <2>1, <2>2, <2>3 DEF Pending
  <2>5. Row(c, p) \in Accounts BY RowFacts
  <2> QED BY <1>2, <2>4, <2>5, SettleBooks
<1>3. ASSUME UNCHANGED <<cost, spent, held, period, leaked>> PROVE Quiet
  BY <1>3, SameHolders DEF Quiet
<1>4. ASSUME NEW c \in Calls, Start(c) PROVE Quiet
  <2>1. held[c] = {} BY <1>4 DEF Start, CallInv, Control
  <2>2. ASSUME NEW b \in Accounts PROVE Outstanding(b)' = Outstanding(b)
    <3>1. ASSUME NEW d \in Calls
          PROVE  b[1] \in held'[d] /\ period'[d] = b[2] <=>
                 b[1] \in held[d] /\ period[d] = b[2]
      BY <1>4, <2>1 DEF Start, books, TypeOK
    <3>2. Holders(b)' = Holders(b) BY <3>1 DEF Holders
    <3> QED BY <1>4, <3>2 DEF Start, Outstanding
  <2> QED BY <1>4, <2>2 DEF Start, books, Quiet
<1>5. CASE \E c \in Calls : Progress(c)
  <2> PICK c \in Calls : Progress(c) BY <1>5
  <2>1. CASE \/ BudgetFallback(c) \/ CacheHit(c) \/ PreCheck(c)
             \/ L1Answers(c) \/ L1Fails(c) \/ PostCheck(c) \/ Persist(c)
    BY <1>3, <2>1 DEF BudgetFallback, CacheHit, PreCheck, L1Answers, L1Fails,
       PostCheck, Persist, books
  <2>2. CASE Exit(c) BY <2>2, OverBooks DEF Exit
  <2>3. ASSUME NEW p \in Providers, ReserveGranted(c, p)
        PROVE  \E a \in Accounts : OpenStep(a)
    BY <1>1, <2>3 DEF ReserveGranted
  <2>4. ASSUME NEW p \in Providers, ReserveDenied(c, p) PROVE Quiet
    BY <1>3, <2>4 DEF ReserveDenied, books
  <2>5. ASSUME NEW p \in Providers, SettleCall(c, p)
        PROVE  \E a \in Accounts : \E n \in Nat : CloseStep(a, n)
    <3>1. Actual(c, p) \in Nat BY ActualType
    <3>2. Actual(c, p) <= Est(p) + Excess(p)
      BY ActualBound DEF CallInv
    <3>3. PICK actual \in Nat : actual = Actual(c, p) BY <3>1
    <3> QED BY <1>2, <2>5, <3>2, <3>3 DEF SettleCall
  <2>6. ASSUME NEW p \in Providers, Refund(c, p)
        PROVE  \/ Quiet
               \/ \E a \in Accounts : \E n \in Nat : CloseStep(a, n)
    <3>1. CASE UNCHANGED books BY <1>3, <2>6, <3>1 DEF Refund, books
    <3>2. CASE Settle(c, p, 0)
      <4>1. 0 <= Est(p) + Excess(p) BY EstType
      <4> QED BY <1>2, <2>6, <3>2, <4>1 DEF Refund
    <3> QED BY <2>6, <3>1, <3>2 DEF Refund
  <2> QED BY <2>1, <2>2, <2>3, <2>4, <2>5, <2>6 DEF Progress
<1>6. CASE \E c \in Calls : Failure(c)
  <2> PICK c \in Calls : Failure(c) BY <1>6
  <2>1. CASE Raise(c) BY <1>3, <2>1 DEF Raise, books
  <2>2. ASSUME NEW p \in Providers, ReserveRaises(c, p)
        PROVE  Quiet \/ \E a \in Accounts : OpenStep(a)
    BY <1>1, <1>3, <2>2 DEF ReserveRaises, books
  <2>3. ASSUME NEW p \in Providers, SettleRaises(c, p) PROVE Quiet
    BY <1>3, <2>3 DEF SettleRaises, NoLostSettle, books
  <2> QED BY <2>1, <2>2, <2>3 DEF Failure
<1>7. CASE Crash BY <1>7, OverBooks DEF Crash
<1>8. CASE NextMonth BY <1>3, <1>8 DEF NextMonth, flags, answer
<1>9. CASE UNCHANGED vars BY <1>3, <1>9 DEF vars
<1> QED BY <1>4, <1>5, <1>6, <1>7, <1>8, <1>9 DEF Next

-----------------------------------------------------------------------------
(* The invariant of the books.                                             *)

BooksInv ==
  /\ TypeOK
  /\ \A c \in Calls : CallInv(c)
  /\ Conservation

LEMMA OutstandingType ==
  ASSUME TypeOK, NEW a \in Accounts PROVE Outstanding(a) \in Nat
<1>1. Cardinality(Holders(a)) \in Nat BY HoldersFinite
<1> QED BY <1>1 DEF Outstanding, TypeOK

LEMMA AccountType ==
  ASSUME TypeOK, NEW a \in Accounts
  PROVE  /\ cost[a] \in Nat /\ spent[a] \in Nat
         /\ Est(a[1]) \in Nat /\ Budget[a[1]] \in Nat
         /\ Excess(a[1]) \in Nat
<1>1. a[1] \in Providers BY DEF Accounts
<1> QED BY <1>1, EstType, ConstantsAssumption DEF TypeOK

LEMMA Times == \A e, n \in Nat : /\ e * (n + 1) = e * n + e
                                 /\ n > 0 => e * (n - 1) + e = e * n
OBVIOUS

LEMMA ConservationStep ==
  ASSUME NoLostSettle, BooksInv, [Next]_vars PROVE Conservation'
<1> USE DEF BooksInv
<1> SUFFICES ASSUME NEW b \in Accounts
             PROVE  cost'[b] = spent'[b] + Est(b[1]) * Outstanding(b)'
  BY DEF Conservation
<1>1. cost[b] = spent[b] + Est(b[1]) * Outstanding(b) BY DEF Conservation
<1>2. cost[b] \in Nat /\ spent[b] \in Nat /\ Est(b[1]) \in Nat BY AccountType
<1>3. Outstanding(b) \in Nat BY OutstandingType
<1>4. CASE Quiet BY <1>1, <1>4 DEF Quiet
<1>5. ASSUME NEW a \in Accounts, OpenStep(a)
      PROVE  cost'[b] = spent'[b] + Est(b[1]) * Outstanding(b)'
  <2>1. CASE a = b
    <3>1. cost'[b] = cost[b] + Est(b[1]) /\ spent'[b] = spent[b]
      BY <1>5, <2>1 DEF OpenStep, TypeOK
    <3>2. Outstanding(b)' = Outstanding(b) + 1 BY <1>5, <2>1 DEF OpenStep
    <3>3. Est(b[1]) * (Outstanding(b) + 1) = Est(b[1]) * Outstanding(b) + Est(b[1])
      BY <1>2, <1>3, Times
    <3>4. Est(b[1]) * Outstanding(b) \in Nat BY <1>2, <1>3
    <3> QED BY <1>1, <1>2, <3>1, <3>2, <3>3, <3>4
  <2>2. CASE a # b
    BY <1>1, <1>5, <2>2 DEF OpenStep, TypeOK
  <2> QED BY <2>1, <2>2
<1>6. ASSUME NEW a \in Accounts, NEW actual \in Nat, CloseStep(a, actual)
      PROVE  cost'[b] = spent'[b] + Est(b[1]) * Outstanding(b)'
  <2>1. CASE a = b
    <3> DEFINE held_b == Est(b[1]) * (Outstanding(b) - 1)
    <3>1. Outstanding(b) > 0 /\ Outstanding(b)' = Outstanding(b) - 1
      BY <1>6, <2>1 DEF CloseStep
    <3>2. held_b \in Nat BY <1>2, <1>3, <3>1
    <3>3. Est(b[1]) * Outstanding(b) = held_b + Est(b[1])
      BY <1>2, <1>3, <3>1, Times
    <3> HIDE DEF held_b
    <3>4. cost[b] = spent[b] + held_b + Est(b[1]) BY <1>1, <1>2, <3>2, <3>3
    <3>5. /\ cost'[b] = Reconcile(b, b[1], actual)
          /\ spent'[b] = spent[b] + actual
      BY <1>6, <2>1 DEF CloseStep, TypeOK
    <3>6. cost'[b] = spent'[b] + held_b
      BY <1>2, <3>2, <3>4, <3>5 DEF Reconcile
    <3> QED BY <3>1, <3>6 DEF held_b
  <2>2. CASE a # b
    BY <1>1, <1>6, <2>2 DEF CloseStep, TypeOK
  <2> QED BY <2>1, <2>2
<1> QED BY <1>4, <1>5, <1>6, BooksStep

LEMMA InitBooks == Init => BooksInv
<1> SUFFICES ASSUME Init PROVE Conservation BY InitOK DEF BooksInv
<1> SUFFICES ASSUME NEW a \in Accounts
             PROVE  cost[a] = spent[a] + Est(a[1]) * Outstanding(a)
  BY DEF Conservation
<1>1. Holders(a) = {} BY DEF Init, Holders
<1>2. Outstanding(a) = 0 BY <1>1, FS_EmptySet DEF Init, Outstanding
<1>3. Est(a[1]) \in Nat BY EstType DEF Accounts
<1> QED BY <1>2, <1>3 DEF Init

(* Concurrent reserves, settles and refunds lose nothing: a row is the     *)
(* settled costs plus one estimate per outstanding reservation.            *)
THEOREM ConservationHolds == ASSUME NoLostSettle PROVE Spec => []Conservation
<1>1. Init => BooksInv BY InitBooks
<1>2. BooksInv /\ [Next]_vars => BooksInv'
  BY TypeStep, CallStep, ConservationStep DEF BooksInv
<1>3. BooksInv => Conservation BY DEF BooksInv
<1> QED BY <1>1, <1>2, <1>3, PTL DEF Spec

-----------------------------------------------------------------------------
(* How far a row may pass its cap, whatever faults occur.                  *)

(* Calls that do not hold a reservation of an account.                     *)
Free(a) == Cardinality(Calls) - Cardinality(Holders(a))

LEMMA FreeType ==
  ASSUME NEW a
  PROVE  Free(a) \in Nat /\ Holders(a) \subseteq Calls
<1>1. Holders(a) \in SUBSET Calls BY DEF Holders
<1>2. Cardinality(Calls) \in Nat /\ Cardinality(Holders(a)) \in Nat
  BY ConstantsAssumption, HoldersFinite, FS_CardinalityType
<1>3. Cardinality(Holders(a)) <= Cardinality(Calls)
  BY <1>1, ConstantsAssumption, FS_Subset
<1> QED BY <1>1, <1>2, <1>3 DEF Free

LEMMA FreeGrows ==
  ASSUME NEW a, Holders(a)' \subseteq Holders(a)
  PROVE  Free(a)' \in Nat /\ Free(a) <= Free(a)'
<1> DEFINE H == Holders(a)
           K == Holders(a)'
<1>1. IsFiniteSet(H) /\ K \in SUBSET H BY HoldersFinite
<1>2. Free(a) = Cardinality(Calls) - Cardinality(H) /\ Free(a) \in Nat
  BY FreeType DEF Free
<1>3. Free(a)' = Cardinality(Calls) - Cardinality(K) BY DEF Free
<1> HIDE DEF H, K
<1>4. /\ Cardinality(K) <= Cardinality(H) /\ Cardinality(H) \in Nat
      /\ Cardinality(K) \in Nat /\ Cardinality(Calls) \in Nat
  BY <1>1, ConstantsAssumption, FS_Subset, FS_CardinalityType
<1> QED BY <1>2, <1>3, <1>4

LEMMA FreeOne ==
  ASSUME NEW a, NEW c \in Holders(a), Holders(a)' = Holders(a) \ {c}
  PROVE  Free(a)' = Free(a) + 1
<1> DEFINE H == Holders(a)
<1>1. IsFiniteSet(H) /\ c \in H /\ Cardinality(H) \in Nat
      /\ Cardinality(Calls) \in Nat
  BY ConstantsAssumption, HoldersFinite, FS_CardinalityType
<1>2. Free(a) = Cardinality(Calls) - Cardinality(H) BY DEF Free
<1>3. Free(a)' = Cardinality(Calls) - Cardinality(H \ {c}) BY DEF Free
<1> HIDE DEF H
<1>4. Cardinality(H \ {c}) = Cardinality(H) - 1 BY <1>1, FS_RemoveElement
<1> QED BY <1>1, <1>2, <1>3, <1>4

LEMMA More == \A e, m, n \in Nat : m <= n => e * m <= e * n /\ e * m \in Nat
                                                /\ e * n \in Nat
OBVIOUS

LEMMA OverrunIs ==
  OverrunBounded <=>
    \A a \in Accounts : Budget[a[1]] > 0 =>
      cost[a] <= Budget[a[1]] + Excess(a[1]) * Free(a)
BY DEF OverrunBounded, Free

(* A row that does not grow, while no call reserves.                       *)
LEMMA RowLower ==
  ASSUME TypeOK, TypeOK', OverrunBounded, NEW a \in Accounts,
         Budget[a[1]] > 0, cost'[a] <= cost[a],
         Holders(a)' \subseteq Holders(a)
  PROVE  cost'[a] <= Budget[a[1]] + Excess(a[1]) * Free(a)'
<1>1. /\ cost[a] \in Nat /\ cost'[a] \in Nat /\ Budget[a[1]] \in Nat
      /\ Excess(a[1]) \in Nat
  BY AccountType DEF TypeOK
<1>2. Free(a) \in Nat /\ Free(a)' \in Nat /\ Free(a) <= Free(a)'
  BY FreeType, FreeGrows
<1>3. cost[a] <= Budget[a[1]] + Excess(a[1]) * Free(a) BY OverrunIs
<1>4. PICK m \in Nat, n \in Nat : m = Free(a) /\ n = Free(a)' BY <1>2
<1>5. PICK e \in Nat : e = Excess(a[1]) BY <1>1
<1>6. e * m <= e * n /\ e * m \in Nat /\ e * n \in Nat BY <1>2, <1>4, More
<1> QED BY <1>1, <1>3, <1>4, <1>5, <1>6

(* A step of one account's row, or of none.                                *)
LEMMA LowerFits ==
  ASSUME TypeOK, TypeOK', OverrunBounded,
         \A a \in Accounts : cost'[a] <= cost[a]
                               /\ Holders(a)' \subseteq Holders(a)
  PROVE  OverrunBounded'
<1>1. \A a \in Accounts : Budget[a[1]] > 0 =>
        cost'[a] <= Budget[a[1]] + Excess(a[1]) * Free(a)'
  BY RowLower
<1> QED BY <1>1 DEF OverrunBounded, Free

LEMMA HoldFits ==
  ASSUME TypeOK, TypeOK', NEW c \in Calls, NEW p \in Providers,
         ~OverBudget(c, p), Hold(c, p), UNCHANGED period, OverrunBounded
  PROVE  OverrunBounded'
<1> SUFFICES ASSUME NEW a \in Accounts, Budget[a[1]] > 0
             PROVE  cost'[a] <= Budget[a[1]] + Excess(a[1]) * Free(a)'
  BY DEF OverrunBounded, Free
<1>1. CASE a = Row(c, p)
  <2>1. a[1] = p BY <1>1, RowFacts
  <2>2. cost'[a] = cost[a] + Est(p) BY <1>1 DEF Hold, TypeOK
  <2>3. /\ cost[a] \in Nat /\ Est(p) \in Nat /\ Budget[p] \in Nat
        /\ Excess(p) \in Nat
    BY <2>1, AccountType
  <2>4. cost'[a] <= Budget[p] /\ cost'[a] \in Nat
    BY <1>1, <2>1, <2>2, <2>3 DEF OverBudget
  <2>5. Free(a)' \in Nat
    <3>1. Holders(a)' \in SUBSET Calls BY DEF Holders
    <3>2. /\ Cardinality(Calls) \in Nat /\ Cardinality(Holders(a)') \in Nat
          /\ Cardinality(Holders(a)') <= Cardinality(Calls)
      BY <3>1, ConstantsAssumption, FS_Subset, FS_CardinalityType
    <3> QED BY <3>2 DEF Free
  <2>6. PICK e \in Nat, n \in Nat : e = Excess(p) /\ n = Free(a)'
    BY <2>3, <2>5
  <2>7. e * n \in Nat OBVIOUS
  <2> QED BY <2>1, <2>3, <2>4, <2>6, <2>7
<1>2. CASE a # Row(c, p)
  <2>1. cost'[a] = cost[a] /\ cost[a] \in Nat BY <1>2 DEF Hold, TypeOK
  <2>2. ~(a[1] = p /\ a[2] = period[c]) BY <1>2, RowFacts
  <2>3. Holders(a)' \subseteq Holders(a)
    BY <2>2 DEF Holders, Hold, TypeOK
  <2> QED BY <2>1, <2>3, RowLower
<1> QED BY <1>1, <1>2

LEMMA SettleCost ==
  ASSUME TypeOK, NEW c \in Calls, NEW p \in Providers, NEW actual \in Nat,
         actual <= Est(p) + Excess(p), Settle(c, p, actual), NEW a \in Accounts
  PROVE  /\ a = Row(c, p) => cost'[a] <= cost[a] + Excess(p)
         /\ a # Row(c, p) \/ actual = 0 => cost'[a] <= cost[a]
<1>1. cost[a] \in Nat /\ Est(p) \in Nat /\ Excess(p) \in Nat
  BY EstType DEF TypeOK
<1>2. CASE a = Row(c, p)
  <2>1. cost'[a] = Reconcile(a, p, actual) BY <1>2 DEF Settle, TypeOK
  <2> QED BY <1>1, <1>2, <2>1 DEF Reconcile
<1>3. CASE a # Row(c, p)
  BY <1>1, <1>3 DEF Settle, TypeOK
<1> QED BY <1>2, <1>3

LEMMA SettleHolders ==
  ASSUME TypeOK, NEW c \in Calls, NEW p \in Providers, NEW actual,
         Settle(c, p, actual), UNCHANGED period, NEW a \in Accounts
  PROVE  /\ Holders(a)' \subseteq Holders(a)
         /\ a = Row(c, p) => Holders(a)' = Holders(a) \ {c}
         /\ a = Row(c, p) /\ p \in held[c] => c \in Holders(a)
<1>1. a = Row(c, p) <=> a[1] = p /\ a[2] = period[c] BY RowFacts
<1> QED BY <1>1 DEF Settle, Holders, TypeOK

(* A settle replaces a reservation the ledger holds.                       *)
LEMMA SettleFits ==
  ASSUME TypeOK, TypeOK', NEW c \in Calls, NEW p \in Providers,
         NEW actual \in Nat, actual <= Est(p) + Excess(p), p \in held[c],
         Settle(c, p, actual), UNCHANGED period, OverrunBounded
  PROVE  OverrunBounded'
<1> SUFFICES ASSUME NEW a \in Accounts, Budget[a[1]] > 0
             PROVE  cost'[a] <= Budget[a[1]] + Excess(a[1]) * Free(a)'
  BY DEF OverrunBounded, Free
<1>1. CASE a = Row(c, p)
  <2>1. a[1] = p BY <1>1, RowFacts
  <2>2. cost'[a] <= cost[a] + Excess(p) BY <1>1, SettleCost
  <2>3. Free(a)' = Free(a) + 1 /\ Free(a) \in Nat
    BY <1>1, SettleHolders, FreeOne, FreeType
  <2>4. cost[a] <= Budget[p] + Excess(p) * Free(a) BY <2>1, OverrunIs
  <2>5. /\ cost[a] \in Nat /\ cost'[a] \in Nat /\ Budget[p] \in Nat
        /\ Excess(p) \in Nat
    BY <2>1, AccountType DEF TypeOK
  <2>6. PICK e \in Nat, n \in Nat : e = Excess(p) /\ n = Free(a)
    BY <2>3, <2>5
  <2>7. e * (n + 1) = e * n + e /\ e * n \in Nat BY Times
  <2> QED BY <2>1, <2>2, <2>3, <2>4, <2>5, <2>6, <2>7
<1>2. CASE a # Row(c, p)
  BY <1>2, SettleCost, SettleHolders, RowLower
<1> QED BY <1>1, <1>2

(* A refund never adds, even of what is not held.                          *)
LEMMA RefundFits ==
  ASSUME TypeOK, TypeOK', NEW c \in Calls, NEW p \in Providers,
         Settle(c, p, 0), UNCHANGED period, OverrunBounded
  PROVE  OverrunBounded'
<1>1. 0 <= Est(p) + Excess(p) /\ 0 \in Nat BY EstType
<1>2. \A a \in Accounts : cost'[a] <= cost[a] BY <1>1, SettleCost
<1>3. \A a \in Accounts : Holders(a)' \subseteq Holders(a) BY SettleHolders
<1> QED BY <1>2, <1>3, LowerFits

LEMMA OverrunStep ==
  ASSUME TypeOK, \A c \in Calls : CallInv(c), [Next]_vars, OverrunBounded
  PROVE  OverrunBounded'
<1>0. TypeOK' BY TypeStep
<1>1. ASSUME UNCHANGED <<cost, held, period>> PROVE OverrunBounded'
  BY <1>1 DEF OverrunBounded, Holders
<1>2. ASSUME NEW S \in SUBSET Calls, Over(S) PROVE OverrunBounded'
  <2>1. \A a \in Accounts : Holders(a)' \subseteq Holders(a)
    BY <1>2 DEF Over, Holders
  <2>2. \A a \in Accounts : cost'[a] <= cost[a] BY <1>2 DEF Over, TypeOK
  <2> QED BY <1>0, <2>1, <2>2, LowerFits
<1>3. ASSUME NEW c \in Calls, NEW p \in Providers, pc[c] = SettleAt[p],
             Settle(c, p, Actual(c, p)), UNCHANGED period
      PROVE  OverrunBounded'
  <2>1. p \in held[c]
    <3>1. Control(c) BY DEF CallInv
    <3>2. p \in reserved[c] BY <1>3, <3>1 DEF Control
    <3> QED BY <1>3, <3>1, <3>2, Stages DEF Control, Providers
  <2>2. PICK actual \in Nat : actual = Actual(c, p) BY ActualType
  <2>3. actual <= Est(p) + Excess(p) BY <2>2, ActualBound DEF CallInv
  <2> QED BY <1>0, <1>3, <2>1, <2>2, <2>3, SettleFits
<1>4. ASSUME NEW c \in Calls, Start(c) PROVE OverrunBounded'
  <2>1. held[c] = {} BY <1>4 DEF Start, CallInv, Control
  <2>2. \A a \in Accounts : Holders(a)' \subseteq Holders(a)
    BY <1>4, <2>1 DEF Start, Holders, books, TypeOK
  <2>3. \A a \in Accounts : cost'[a] <= cost[a]
    BY <1>4 DEF Start, books, TypeOK
  <2> QED BY <1>0, <2>2, <2>3, LowerFits
<1>5. CASE \E c \in Calls : Progress(c)
  <2> PICK c \in Calls : Progress(c) BY <1>5
  <2>1. CASE \/ BudgetFallback(c) \/ CacheHit(c) \/ PreCheck(c)
             \/ L1Answers(c) \/ L1Fails(c) \/ PostCheck(c) \/ Persist(c)
    BY <1>1, <2>1 DEF BudgetFallback, CacheHit, PreCheck, L1Answers, L1Fails,
       PostCheck, Persist, books
  <2>2. CASE Exit(c) BY <1>2, <2>2 DEF Exit
  <2>3. ASSUME NEW p \in Providers, ReserveGranted(c, p) PROVE OverrunBounded'
    BY <1>0, <2>3, HoldFits DEF ReserveGranted
  <2>4. ASSUME NEW p \in Providers, ReserveDenied(c, p) PROVE OverrunBounded'
    BY <1>1, <2>4 DEF ReserveDenied, books
  <2>5. ASSUME NEW p \in Providers, SettleCall(c, p) PROVE OverrunBounded'
    BY <1>3, <2>5 DEF SettleCall
  <2>6. ASSUME NEW p \in Providers, Refund(c, p) PROVE OverrunBounded'
    BY <1>0, <1>1, <2>6, RefundFits DEF Refund, books
  <2> QED BY <2>1, <2>2, <2>3, <2>4, <2>5, <2>6 DEF Progress
<1>6. CASE \E c \in Calls : Failure(c)
  <2> PICK c \in Calls : Failure(c) BY <1>6
  <2>1. CASE Raise(c) BY <1>1, <2>1 DEF Raise, books
  <2>2. ASSUME NEW p \in Providers, ReserveRaises(c, p) PROVE OverrunBounded'
    BY <1>0, <1>1, <2>2, HoldFits DEF ReserveRaises, books
  <2>3. ASSUME NEW p \in Providers, SettleRaises(c, p) PROVE OverrunBounded'
    BY <1>1, <1>3, <2>3 DEF SettleRaises, books
  <2> QED BY <2>1, <2>2, <2>3 DEF Failure
<1>7. CASE Crash BY <1>2, <1>7 DEF Crash
<1>8. CASE NextMonth BY <1>1, <1>8 DEF NextMonth
<1>9. CASE UNCHANGED vars BY <1>1, <1>9 DEF vars
<1> QED BY <1>4, <1>5, <1>6, <1>7, <1>8, <1>9 DEF Next

LEMMA InitOverrun == Init => OverrunBounded
<1> SUFFICES ASSUME Init, NEW a \in Accounts
             PROVE  cost[a] <= Budget[a[1]] + Excess(a[1]) * Free(a)
  BY OverrunIs
<1>1. TypeOK BY InitOK
<1>2. /\ Budget[a[1]] \in Nat /\ Excess(a[1]) \in Nat /\ Free(a) \in Nat
  BY <1>1, AccountType, FreeType
<1>3. Excess(a[1]) * Free(a) \in Nat BY <1>2
<1>4. cost[a] = 0 BY DEF Init
<1> QED BY <1>2, <1>3, <1>4

(* FR-329 / ADR-014: a row passes its cap by at most one excess for every  *)
(* call slot that holds no reservation of it, with any number of calls and *)
(* after any crash, rollback or lost acknowledgement.                      *)
THEOREM LedgerCap == Spec => []OverrunBounded
<1> DEFINE Inv == TypeOK /\ (\A c \in Calls : CallInv(c)) /\ OverrunBounded
<1>1. Init => Inv BY InitOK, InitOverrun
<1>2. Inv /\ [Next]_vars => Inv' BY TypeStep, CallStep, OverrunStep
<1> QED BY <1>1, <1>2, PTL DEF Spec

(* The "hard cap" of the documents is what remains when no call costs more *)
(* than its estimate.                                                      *)
COROLLARY HardCap ==
  ASSUME \A p \in Providers : CallExcess[p] = 0
  PROVE  Spec => []LedgerWithinBudget
<1> DEFINE Inv == TypeOK /\ (\A c \in Calls : CallInv(c)) /\ OverrunBounded
<1>1. Init => Inv BY InitOK, InitOverrun
<1>2. Inv /\ [Next]_vars => Inv' BY TypeStep, CallStep, OverrunStep
<1>3. Inv => LedgerWithinBudget
  <2> SUFFICES ASSUME Inv, NEW a \in Accounts, Budget[a[1]] > 0
               PROVE  cost[a] <= Budget[a[1]]
    BY DEF LedgerWithinBudget
  <2>1. Excess(a[1]) = 0 BY DEF Excess, Accounts, Providers
  <2>2. Free(a) \in Nat /\ Budget[a[1]] \in Nat BY FreeType, AccountType
  <2>3. cost[a] <= Budget[a[1]] + 0 * Free(a) BY <2>1, OverrunIs
  <2>4. 0 * Free(a) = 0 BY <2>2
  <2> QED BY <2>2, <2>3, <2>4
<1> QED BY <1>1, <1>2, <1>3, PTL DEF Spec

-----------------------------------------------------------------------------
(* BudgetLedger implements SpendingCap.                                    *)

LEMMA PromiseInit == Init => Promise!Init
<1> SUFFICES ASSUME Init PROVE Promise!Init OBVIOUS
<1>1. ASSUME NEW a \in Accounts PROVE Outstanding(a) = 0
  <2>1. Holders(a) = {} BY DEF Init, Holders
  <2> QED BY <2>1, FS_EmptySet DEF Init, Outstanding
<1> QED BY <1>1 DEF Init, Promise!Init

LEMMA PromiseStep ==
  ASSUME NoLostSettle, BooksInv, [Next]_vars
  PROVE  [Promise!Next]_(Promise!vars)
<1> DEFINE op == [b \in Accounts |-> Outstanding(b)]
<1> USE DEF BooksInv
<1>1. CASE Quiet
  BY <1>1 DEF Quiet, Promise!vars
<1>2. ASSUME NEW a \in Accounts, OpenStep(a) PROVE Promise!Open(a)
  <2>1. op' = [op EXCEPT ![a] = @ + 1] BY <1>2 DEF OpenStep
  <2>2. spent' = spent BY <1>2 DEF OpenStep
  <2>3. Budget[a[1]] > 0 =>
          spent[a] + Est(a[1]) * op[a] + Est(a[1]) <= Budget[a[1]]
    <3>1. cost[a] = spent[a] + Est(a[1]) * op[a] BY DEF Conservation
    <3> QED BY <1>2, <3>1 DEF OpenStep
  <2> QED BY <2>1, <2>2, <2>3 DEF Promise!Open, Promise!Exposure
<1>3. ASSUME NEW a \in Accounts, NEW actual \in Nat, CloseStep(a, actual)
      PROVE  Promise!Close(a)
  <2>1. op' = [op EXCEPT ![a] = @ - 1] BY <1>3 DEF CloseStep
  <2>2. op[a] > 0 BY <1>3 DEF CloseStep
  <2>3. spent' = [spent EXCEPT ![a] = @ + actual] BY <1>3 DEF CloseStep
  <2>4. actual \in 0..(Est(a[1]) + Excess(a[1]))
    BY <1>3, AccountType DEF CloseStep
  <2> QED BY <2>1, <2>2, <2>3, <2>4 DEF Promise!Close
<1>4. \/ Quiet
      \/ \E a \in Accounts : Promise!Open(a)
      \/ \E a \in Accounts : Promise!Close(a)
  BY <1>2, <1>3, BooksStep
<1> QED BY <1>1, <1>4 DEF Promise!Next

(* Every behaviour of the ledger and its callers is one of SpendingCap.    *)
THEOREM Implements == ASSUME NoLostSettle PROVE Spec => PromiseKept
<1>1. Init => BooksInv BY InitBooks
<1>2. BooksInv /\ [Next]_vars => BooksInv'
  BY TypeStep, CallStep, ConservationStep DEF BooksInv
<1>3. Init => Promise!Init BY PromiseInit
<1>4. BooksInv /\ [Next]_vars => [Promise!Next]_(Promise!vars) BY PromiseStep
<1> QED BY <1>1, <1>2, <1>3, <1>4, PTL DEF Spec, PromiseKept, Promise!Spec

(* The arithmetic of SpendingCap: A an allowance, D the most it may cost,  *)
(* s spent, o open, under a cap C.                                         *)
LEMMA OpenArithmetic ==
  ASSUME NEW A \in Nat, NEW D \in Nat, NEW s \in Nat, NEW o \in Nat,
         NEW C \in Nat, A <= D, s + A * (o + 1) <= C
  PROVE  A * (s + D * (o + 1)) <= C * D
<1> DEFINE t == A * (o + 1)
<1>1. t \in Nat /\ A * s \in Nat /\ D * s \in Nat /\ D * t \in Nat OBVIOUS
<1>2. A * (s + D * (o + 1)) = A * s + D * t OBVIOUS
<1>3. A * s <= D * s OBVIOUS
<1> HIDE DEF t
<1>4. D * s + D * t = (s + t) * D BY <1>1
<1>5. (s + t) * D <= C * D
  <2>1. s + t <= C BY DEF t
  <2> QED BY <1>1, <2>1
<1> QED BY <1>1, <1>2, <1>3, <1>4, <1>5

LEMMA CloseArithmetic ==
  ASSUME NEW A \in Nat, NEW D \in Nat, NEW s \in Nat, NEW o \in Nat,
         NEW x \in 0..D
  PROVE  A * ((s + x) + D * o) <= A * (s + D * (o + 1))
<1>1. D * (o + 1) = D * o + D /\ D * o \in Nat OBVIOUS
<1>2. PICK m \in Nat : m = D * o BY <1>1
<1>3. (s + x) + m <= s + (m + D) OBVIOUS
<1> QED BY <1>1, <1>2, <1>3

LEMMA SpendStep ==
  ASSUME NoLostSettle, BooksInv, [Next]_vars, SpendBounded
  PROVE  SpendBounded'
<1> USE DEF BooksInv
<1> DEFINE Bound(s, o, a) ==
      Est(a[1]) * (s + (Est(a[1]) + Excess(a[1])) * o)
        <= Budget[a[1]] * (Est(a[1]) + Excess(a[1]))
<1>1. \A a \in Accounts : Budget[a[1]] > 0 => Bound(spent[a], Outstanding(a), a)
  BY DEF SpendBounded, Promise!OverspendBounded, Promise!Worst
<1> SUFFICES ASSUME NEW b \in Accounts, Budget[b[1]] > 0
             PROVE  Bound(spent'[b], Outstanding(b)', b)
  BY DEF SpendBounded, Promise!OverspendBounded, Promise!Worst
<1>2. /\ spent[b] \in Nat /\ cost[b] \in Nat /\ Budget[b[1]] \in Nat
      /\ Est(b[1]) \in Nat /\ Excess(b[1]) \in Nat
  BY AccountType
<1>3. Outstanding(b) \in Nat BY OutstandingType
<1>4. cost[b] = spent[b] + Est(b[1]) * Outstanding(b) BY DEF Conservation
<1>5. ASSUME spent'[b] = spent[b], Outstanding(b)' = Outstanding(b)
      PROVE  Bound(spent'[b], Outstanding(b)', b)
  BY <1>1, <1>5
<1>6. CASE Quiet BY <1>5, <1>6 DEF Quiet
<1>7. ASSUME NEW a \in Accounts, OpenStep(a)
      PROVE  Bound(spent'[b], Outstanding(b)', b)
  <2>1. CASE a = b
    <3>1. PICK A \in Nat, D \in Nat, s \in Nat, o \in Nat, C \in Nat :
            /\ A = Est(b[1]) /\ D = Est(b[1]) + Excess(b[1])
            /\ s = spent[b] /\ o = Outstanding(b) /\ C = Budget[b[1]]
      BY <1>2, <1>3
    <3>2. A <= D BY <1>2, <3>1
    <3>3. s + A * o + A <= C BY <1>4, <1>7, <2>1, <3>1 DEF OpenStep
    <3>4. s + A * (o + 1) <= C
      <4>1. A * (o + 1) = A * o + A /\ A * o \in Nat BY Times
      <4> QED BY <3>3, <4>1
    <3>5. A * (s + D * (o + 1)) <= C * D BY <3>2, <3>4, OpenArithmetic
    <3>6. spent'[b] = s /\ Outstanding(b)' = o + 1
      BY <1>7, <2>1, <3>1 DEF OpenStep
    <3> QED BY <3>1, <3>5, <3>6
  <2>2. CASE a # b BY <1>5, <1>7, <2>2 DEF OpenStep
  <2> QED BY <2>1, <2>2
<1>8. ASSUME NEW a \in Accounts, NEW actual \in Nat, CloseStep(a, actual)
      PROVE  Bound(spent'[b], Outstanding(b)', b)
  <2>1. CASE a = b
    <3>1. Outstanding(b) > 0 /\ Outstanding(b)' = Outstanding(b) - 1
      BY <1>8, <2>1 DEF CloseStep
    <3>2. PICK A \in Nat, D \in Nat, s \in Nat, o \in Nat, C \in Nat :
            /\ A = Est(b[1]) /\ D = Est(b[1]) + Excess(b[1])
            /\ s = spent[b] /\ o = Outstanding(b) - 1 /\ C = Budget[b[1]]
      BY <1>2, <1>3, <3>1
    <3>3. actual \in 0..D BY <1>2, <1>8, <2>1, <3>2 DEF CloseStep
    <3>4. A * ((s + actual) + D * o) <= A * (s + D * (o + 1))
      BY <3>3, CloseArithmetic
    <3>5. A * (s + D * (o + 1)) <= C * D
      <4>1. o + 1 = Outstanding(b) BY <1>3, <3>2
      <4> QED BY <1>1, <3>2, <4>1
    <3>6. spent'[b] = s + actual /\ Outstanding(b)' = o
      BY <1>8, <2>1, <3>1, <3>2 DEF CloseStep, TypeOK
    <3>7. A * ((s + actual) + D * o) <= C * D
      <4>1. /\ A * ((s + actual) + D * o) \in Nat
            /\ A * (s + D * (o + 1)) \in Nat /\ C * D \in Nat
        OBVIOUS
      <4> QED BY <3>4, <3>5, <4>1
    <3> QED BY <3>2, <3>6, <3>7
  <2>2. CASE a # b BY <1>5, <1>8, <2>2 DEF CloseStep, TypeOK
  <2> QED BY <2>1, <2>2
<1> QED BY <1>6, <1>7, <1>8, BooksStep

LEMMA InitSpend == Init => SpendBounded
<1> SUFFICES ASSUME Init PROVE SpendBounded OBVIOUS
<1> SUFFICES ASSUME NEW a \in Accounts
             PROVE  Est(a[1]) * (spent[a]
                        + (Est(a[1]) + Excess(a[1])) * Outstanding(a))
                      <= Budget[a[1]] * (Est(a[1]) + Excess(a[1]))
  BY DEF SpendBounded, Promise!OverspendBounded, Promise!Worst
<1>1. /\ Est(a[1]) \in Nat /\ Excess(a[1]) \in Nat /\ Budget[a[1]] \in Nat
  BY InitOK, AccountType
<1>2. spent[a] = 0 BY DEF Init
<1>3. Outstanding(a) = 0
  <2>1. Holders(a) = {} BY DEF Init, Holders
  <2> QED BY <2>1, FS_EmptySet DEF Init, Outstanding
<1>4. Budget[a[1]] * (Est(a[1]) + Excess(a[1])) \in Nat BY <1>1
<1> QED BY <1>1, <1>2, <1>3, <1>4

(* What the calls have cost and may still cost exceeds the cap by no       *)
(* greater factor than one call exceeds its estimate, however many calls   *)
(* there are: with an exact estimate the cap is hard.                      *)
THEOREM SpendCap == ASSUME NoLostSettle PROVE Spec => []SpendBounded
<1> DEFINE Inv == BooksInv /\ SpendBounded
<1>1. Init => Inv BY InitBooks, InitSpend
<1>2. Inv /\ [Next]_vars => Inv'
  BY TypeStep, CallStep, ConservationStep, SpendStep DEF BooksInv
<1> QED BY <1>1, <1>2, PTL DEF Spec

-----------------------------------------------------------------------------
(* The sum of a function on the calls, as the cardinality of a set: what   *)
(* has to be known of it follows without an induction.                     *)

Tokens(s) == {t \in Calls \X Nat : t[2] \in 1..s[t[1]]}
Total(s)  == Cardinality(Tokens(s))

LEMMA TokensFinite ==
  ASSUME NEW s \in [Calls -> Nat]
  PROVE  IsFiniteSet(Tokens(s)) /\ Total(s) \in Nat
<1> DEFINE f == [c \in Calls |-> {c} \X (1..s[c])]
           T == {f[c] : c \in Calls}
<1>1. f \in Surjection(Calls, T) BY DEF Surjection
<1>2. IsFiniteSet(T) BY <1>1, FS_Surjection, ConstantsAssumption
<1>3. ASSUME NEW c \in Calls PROVE IsFiniteSet(f[c])
  <2>1. IsFiniteSet({c}) BY FS_Singleton
  <2>2. IsFiniteSet(1..s[c]) BY FS_Interval
  <2> QED BY <2>1, <2>2, FS_Product
<1>4. IsFiniteSet(UNION T) BY <1>2, <1>3, FS_UNION
<1>5. Tokens(s) \in SUBSET (UNION T) BY DEF Tokens
<1> QED BY <1>4, <1>5, FS_Subset, FS_CardinalityType DEF Total

(* The share of one call is a term of the sum.                             *)
LEMMA OneTerm ==
  ASSUME NEW s \in [Calls -> Nat], NEW c \in Calls
  PROVE  Total(s) = Total([s EXCEPT ![c] = 0]) + s[c]
<1> DEFINE r == [s EXCEPT ![c] = 0]
           Own == {c} \X (1..s[c])
<1>1. r \in [Calls -> Nat] OBVIOUS
<1>2. IsFiniteSet(Tokens(r)) /\ Total(r) \in Nat BY <1>1, TokensFinite
<1>3. IsFiniteSet(Own) /\ Cardinality(Own) = s[c]
  <2>1. IsFiniteSet({c}) /\ Cardinality({c}) = 1 BY FS_Singleton
  <2>2. IsFiniteSet(1..s[c]) /\ Cardinality(1..s[c]) = s[c] BY FS_Interval
  <2>3. s[c] \in Nat /\ 1 * s[c] = s[c] OBVIOUS
  <2>4. /\ IsFiniteSet({c} \X (1..s[c]))
        /\ Cardinality({c} \X (1..s[c])) = Cardinality({c}) * Cardinality(1..s[c])
    BY <2>1, <2>2, FS_Product
  <2> QED BY <2>1, <2>2, <2>3, <2>4
<1>4. Tokens(s) = Tokens(r) \cup Own
  <2>1. ASSUME NEW t \in Calls \X Nat
        PROVE  t \in Tokens(s) <=> t \in Tokens(r) \cup Own
    <3>1. CASE t[1] = c BY <3>1 DEF Tokens
    <3>2. CASE t[1] # c BY <3>2 DEF Tokens
    <3> QED BY <3>1, <3>2
  <2> QED BY <2>1 DEF Tokens
<1>5. Tokens(r) \cap Own = {} BY DEF Tokens
<1>6. Cardinality(Tokens(r) \cap Own) = 0 BY <1>5, FS_EmptySet
<1> HIDE DEF Own, r
<1>7. Cardinality(Tokens(s)) = Cardinality(Tokens(r)) + Cardinality(Own)
  <2>1. Cardinality(Tokens(r) \cup Own)
          = Cardinality(Tokens(r)) + Cardinality(Own) - Cardinality(Tokens(r) \cap Own)
    BY <1>2, <1>3, FS_Union
  <2>2. Cardinality(Tokens(r)) \in Nat /\ Cardinality(Own) \in Nat
    BY <1>2, <1>3 DEF Total
  <2> QED BY <1>4, <1>6, <2>1, <2>2
<1> QED BY <1>3, <1>7 DEF Total, r

LEMMA OneShare ==
  ASSUME NEW s \in [Calls -> Nat], NEW r \in [Calls -> Nat], NEW c \in Calls,
         \A d \in Calls \ {c} : r[d] = s[d]
  PROVE  Total(r) + s[c] = Total(s) + r[c]
<1> DEFINE z == [s EXCEPT ![c] = 0]
<1>1. z = [r EXCEPT ![c] = 0] OBVIOUS
<1>2. z \in [Calls -> Nat] /\ s[c] \in Nat /\ r[c] \in Nat OBVIOUS
<1>3. Total(z) \in Nat BY <1>2, TokensFinite
<1>4. Total(s) = Total(z) + s[c] BY OneTerm
<1>5. Total(r) = Total(z) + r[c] BY <1>1, OneTerm
<1> HIDE DEF z
<1> QED BY <1>2, <1>3, <1>4, <1>5

LEMMA SmallerShares ==
  ASSUME NEW s \in [Calls -> Nat], NEW r \in [Calls -> Nat],
         \A d \in Calls : r[d] <= s[d]
  PROVE  Total(r) <= Total(s)
<1>1. Tokens(r) \in SUBSET Tokens(s) BY DEF Tokens
<1> QED BY <1>1, TokensFinite, FS_Subset DEF Total

-----------------------------------------------------------------------------
(* What is recorded was charged.  The usage a call has collected and not   *)
(* settled yet was charged as well, unless it came from the cache.         *)

Finishing == {"idle", "refund_l1", "refund_g", "exit"}

Owed(c, p) ==
  IF result[c] = "cache" \/ pc[c] \in Finishing \/ p \in settled[c]
  THEN 0 ELSE used[c][p]

Share(c, a) == IF period[c] = a[2] THEN Owed(c, a[1]) ELSE 0
Shares(a) == [c \in Calls |-> Share(c, a)]

Charged == \A a \in Accounts : spent[a] + Total(Shares(a)) <= billed[a]

(* A call has no usage before its first model call, and no result before   *)
(* its last one.                                                           *)
Unused == {"idle", "reserve_l1", "reserve_g", "classify"}

Fresh(c) ==
  /\ pc[c] \in Unused => used[c] = NoUsage
  /\ pc[c] \in Unused \cup {"l1", "post"} => result[c] = "none"

LEMMA SharesType ==
  ASSUME TypeOK, NEW a \in Accounts
  PROVE  /\ Shares(a) \in [Calls -> Nat]
         /\ \A c \in Calls : Shares(a)[c] = Share(c, a) /\ Share(c, a) \in Nat
         /\ \A c \in Calls : Owed(c, a[1]) \in Nat
BY DEF Shares, Share, Owed, TypeOK, Accounts

(* Calls may forget what they owe.                                         *)
LEMMA ChargedLess ==
  ASSUME TypeOK, TypeOK', Charged, UNCHANGED spent,
         \A a \in Accounts : billed'[a] >= billed[a],
         \A c \in Calls, a \in Accounts : Share(c, a)' <= Share(c, a)
  PROVE  Charged'
<1> SUFFICES ASSUME NEW a \in Accounts
             PROVE  spent'[a] + Total(Shares(a)') <= billed'[a]
  BY DEF Charged
<1> DEFINE s == Shares(a)
           r == Shares(a)'
<1>1. s \in [Calls -> Nat] BY SharesType
<1>2. r \in [Calls -> Nat] BY DEF Shares, Share, Owed, TypeOK, Accounts
<1>3. \A c \in Calls : r[c] <= s[c] BY DEF Shares
<1> HIDE DEF s, r
<1>4. Total(r) <= Total(s) /\ Total(r) \in Nat /\ Total(s) \in Nat
  BY <1>1, <1>2, <1>3, SmallerShares, TokensFinite
<1>5. spent[a] + Total(s) <= billed[a] BY DEF Charged, s
<1>6. spent[a] \in Nat /\ billed[a] \in Nat /\ billed'[a] \in Nat BY DEF TypeOK
<1>7. billed'[a] >= billed[a] /\ spent'[a] = spent[a] OBVIOUS
<1> QED BY <1>4, <1>5, <1>6, <1>7 DEF r

(* A call owes no more than it pays, records or is charged.                *)
LEMMA ChargedOne ==
  ASSUME TypeOK, TypeOK', Charged, NEW c \in Calls,
         \A d \in Calls \ {c}, a \in Accounts : Share(d, a)' = Share(d, a),
         \A a \in Accounts :
           spent'[a] + Share(c, a)' + billed[a] <= spent[a] + Share(c, a) + billed'[a]
  PROVE  Charged'
<1> SUFFICES ASSUME NEW a \in Accounts
             PROVE  spent'[a] + Total(Shares(a)') <= billed'[a]
  BY DEF Charged
<1> DEFINE s == Shares(a)
           r == Shares(a)'
<1>1. s \in [Calls -> Nat] BY SharesType
<1>2. r \in [Calls -> Nat] BY DEF Shares, Share, Owed, TypeOK, Accounts
<1>3. \A d \in Calls \ {c} : r[d] = s[d] BY DEF Shares
<1>4. s[c] = Share(c, a) /\ r[c] = Share(c, a)' BY DEF Shares
<1>5. s[c] \in Nat /\ r[c] \in Nat BY <1>1, <1>2
<1> HIDE DEF s, r
<1>6. Total(r) + s[c] = Total(s) + r[c] BY <1>1, <1>2, <1>3, OneShare
<1>7. Total(r) \in Nat /\ Total(s) \in Nat BY <1>1, <1>2, TokensFinite
<1>8. spent[a] + Total(s) <= billed[a] BY DEF Charged, s
<1>9. /\ spent[a] \in Nat /\ spent'[a] \in Nat
      /\ billed[a] \in Nat /\ billed'[a] \in Nat
  BY DEF TypeOK
<1>10. spent'[a] + r[c] + billed[a] <= spent[a] + s[c] + billed'[a] BY <1>4
<1> QED BY <1>5, <1>6, <1>7, <1>8, <1>9, <1>10 DEF r

LEMMA FreshInit == Init => Charged /\ \A c \in Calls : Fresh(c)
<1> SUFFICES ASSUME Init PROVE Charged /\ \A c \in Calls : Fresh(c) OBVIOUS
<1>1. \A c \in Calls : Fresh(c) BY DEF Init, Fresh
<1>2. ASSUME NEW a \in Accounts PROVE spent[a] + Total(Shares(a)) <= billed[a]
  <2>1. Tokens(Shares(a)) = {}
    <3>1. \A c \in Calls : Shares(a)[c] = 0
      BY DEF Shares, Share, Owed, Init, Finishing
    <3> QED BY <3>1 DEF Tokens
  <2>2. Total(Shares(a)) = 0 BY <2>1, FS_EmptySet DEF Total
  <2> QED BY <2>2 DEF Init
<1> QED BY <1>1, <1>2 DEF Charged

(* A step of one call: the others keep their shares and stay fresh.        *)
Alone(c) == \A d \in Calls \ {c} :
  /\ pc'[d] = pc[d] /\ settled'[d] = settled[d] /\ period'[d] = period[d]
  /\ used'[d] = used[d] /\ result'[d] = result[d]

LEMMA OthersShares ==
  ASSUME NEW c \in Calls, Alone(c)
  PROVE  /\ \A d \in Calls \ {c}, a \in Accounts : Share(d, a)' = Share(d, a)
         /\ (\A d \in Calls : Fresh(d)) /\ Fresh(c)' => \A d \in Calls : Fresh(d)'
BY DEF Alone, Share, Owed, Fresh

(* A call is charged b for a model call of p.                              *)
LEMMA CallCharged ==
  ASSUME TypeOK, TypeOK', Charged, NEW c \in Calls, Alone(c),
         NEW p \in Providers, NEW b \in Nat, Charge(c, p, b),
         spent' = spent, period' = period,
         \A q \in Providers :
           Owed(c, q)' <= Owed(c, q) + (IF q = p THEN b ELSE 0)
  PROVE  Charged'
<1> SUFFICES ASSUME NEW a \in Accounts
             PROVE  spent'[a] + Share(c, a)' + billed[a]
                      <= spent[a] + Share(c, a) + billed'[a]
  BY OthersShares, ChargedOne
<1>1. a[1] \in Providers BY DEF Accounts
<1>2. /\ spent[a] \in Nat /\ spent'[a] = spent[a]
      /\ billed[a] \in Nat /\ Owed(c, a[1]) \in Nat
      /\ Owed(c, a[1])' \in Nat
  BY <1>1 DEF TypeOK, Owed
<1>3. CASE a = Row(c, p)
  <2>1. a[1] = p /\ a[2] = period[c] BY <1>3, RowFacts
  <2>2. billed'[a] = billed[a] + b BY <1>3 DEF Charge, TypeOK
  <2>3. /\ Share(c, a) = Owed(c, p) /\ Share(c, a)' = Owed(c, p)'
    BY <2>1 DEF Share
  <2>4. Owed(c, p)' <= Owed(c, p) + b OBVIOUS
  <2> QED BY <1>2, <2>1, <2>2, <2>3, <2>4
<1>4. CASE a # Row(c, p)
  <2>1. ~(a[1] = p /\ a[2] = period[c]) BY <1>4, RowFacts
  <2>2. billed'[a] = billed[a] BY <1>4 DEF Charge, TypeOK
  <2>3. CASE a[2] = period[c]
    <3>1. Owed(c, a[1])' <= Owed(c, a[1]) BY <1>1, <1>2, <2>1, <2>3
    <3>2. Share(c, a) = Owed(c, a[1]) /\ Share(c, a)' = Owed(c, a[1])'
      BY <2>3 DEF Share
    <3> QED BY <1>2, <2>2, <3>1, <3>2
  <2>4. CASE a[2] # period[c]
    <3>1. Share(c, a) = 0 /\ Share(c, a)' = 0 BY <2>4 DEF Share
    <3> QED BY <1>2, <2>2, <3>1
  <2> QED BY <2>3, <2>4
<1> QED BY <1>3, <1>4

(* A call records what it owes for p, or less, and owes it no more.        *)
LEMMA CallRecords ==
  ASSUME TypeOK, TypeOK', Charged, NEW c \in Calls, Alone(c),
         NEW p \in Providers, NEW b \in Nat, b <= Owed(c, p), Settle(c, p, b),
         billed' = billed, period' = period,
         Owed(c, p)' = 0,
         \A q \in Providers : Owed(c, q)' <= Owed(c, q)
  PROVE  Charged'
<1> SUFFICES ASSUME NEW a \in Accounts
             PROVE  spent'[a] + Share(c, a)' + billed[a]
                      <= spent[a] + Share(c, a) + billed'[a]
  BY OthersShares, ChargedOne
<1>1. a[1] \in Providers BY DEF Accounts
<1>2. /\ spent[a] \in Nat /\ billed[a] \in Nat /\ billed'[a] = billed[a]
      /\ Owed(c, a[1]) \in Nat /\ Owed(c, a[1])' \in Nat
  BY <1>1 DEF TypeOK, Owed
<1>3. CASE a = Row(c, p)
  <2>1. a[1] = p /\ a[2] = period[c] BY <1>3, RowFacts
  <2>2. spent'[a] = spent[a] + b BY <1>3 DEF Settle, TypeOK
  <2>3. /\ Share(c, a) = Owed(c, p) /\ Share(c, a)' = 0
    BY <2>1 DEF Share
  <2> QED BY <1>2, <2>1, <2>2, <2>3
<1>4. CASE a # Row(c, p)
  <2>1. spent'[a] = spent[a] BY <1>4 DEF Settle, TypeOK
  <2>2. Share(c, a)' <= Share(c, a) /\ Share(c, a) \in Nat /\ Share(c, a)' \in Nat
    BY <1>1, <1>2 DEF Share
  <2> QED BY <1>2, <2>1, <2>2
<1> QED BY <1>3, <1>4

(* A step that neither charges nor records, after which the call owes no   *)
(* more than before.                                                       *)
LEMMA CallQuiet ==
  ASSUME TypeOK, TypeOK', Charged, NEW c \in Calls, Alone(c),
         spent' = spent, billed' = billed,
         \A a \in Accounts : Share(c, a)' <= Share(c, a)
  PROVE  Charged'
<1>1. \A d \in Calls, a \in Accounts : Share(d, a)' <= Share(d, a)
  <2> SUFFICES ASSUME NEW d \in Calls, NEW a \in Accounts
               PROVE  Share(d, a)' <= Share(d, a)
    OBVIOUS
  <2>1. CASE d = c BY <2>1
  <2>2. CASE d # c
    <3>1. Share(d, a)' = Share(d, a) BY <2>2, OthersShares
    <3>2. Share(d, a) \in Nat BY SharesType
    <3> QED BY <3>1, <3>2
  <2> QED BY <2>1, <2>2
<1>2. \A a \in Accounts : billed'[a] >= billed[a] BY DEF TypeOK
<1> QED BY <1>1, <1>2, ChargedLess

(* Where only the stage of the call changes, and its reservations.         *)
LEMMA StageOnly ==
  ASSUME TypeOK, NEW c \in Calls,
         used' = used, result' = result, settled' = settled, period' = period,
         pc[c] \in Finishing => pc'[c] \in Finishing
  PROVE  \A a \in Accounts : Share(c, a)' <= Share(c, a)
<1> SUFFICES ASSUME NEW a \in Accounts PROVE Share(c, a)' <= Share(c, a)
  OBVIOUS
<1>1. used[c][a[1]] \in Nat BY DEF TypeOK, Accounts
<1>2. Owed(c, a[1])' \in {0, Owed(c, a[1])} /\ Owed(c, a[1]) \in Nat
  BY <1>1 DEF Owed
<1> QED BY <1>2 DEF Share

ChargeInv == Charged /\ \A c \in Calls : Fresh(c)

LEMMA ChargeStart ==
  ASSUME TypeOK, TypeOK', ChargeInv, NEW c \in Calls, Start(c)
  PROVE  ChargeInv'
<1>1. /\ Alone(c) /\ spent' = spent /\ billed' = billed
      /\ pc[c] = "idle" /\ used' = used /\ result' = result
  BY DEF Start, Goto, Alone, TypeOK, flags, answer, books
<1>2. used[c] = NoUsage /\ result[c] = "none"
  BY <1>1 DEF ChargeInv, Fresh, Unused
<1>3. \A a \in Accounts : Share(c, a)' = 0 /\ Share(c, a) \in Nat
  BY <1>1, <1>2, SharesType DEF Share, Owed, NoUsage, Accounts
<1>4. \A a \in Accounts : Share(c, a)' <= Share(c, a) BY <1>3
<1>5. Fresh(c)' BY <1>1, <1>2 DEF Fresh
<1> QED BY <1>1, <1>4, <1>5, CallQuiet, OthersShares DEF ChargeInv

(* Where the stage changes to one after the reserves, or to a finishing one. *)
LEMMA ChargeStage ==
  ASSUME TypeOK, TypeOK', ChargeInv, NEW c \in Calls, Alone(c),
         UNCHANGED <<used, result, settled, period, spent, billed>>,
         pc[c] \in Finishing => pc'[c] \in Finishing \ {"idle"},
         pc'[c] \in Unused \cup {"l1", "post"} => pc[c] \in Unused
  PROVE  ChargeInv'
<1>1. Fresh(c)' BY DEF ChargeInv, Fresh, Finishing, Unused
<1>2. \A a \in Accounts : Share(c, a)' <= Share(c, a)
  BY StageOnly
<1> QED BY <1>1, <1>2, CallQuiet, OthersShares DEF ChargeInv

LEMMA ChargeReserve ==
  ASSUME TypeOK, TypeOK', ChargeInv, NEW c \in Calls, NEW p \in Providers,
         ReserveGranted(c, p) \/ ReserveDenied(c, p) \/ ReserveRaises(c, p)
  PROVE  ChargeInv'
<1>1. /\ pc[c] \in {"reserve_l1", "reserve_g"} /\ Alone(c)
      /\ UNCHANGED <<used, result, settled, period, spent, billed>>
  BY Stages
  DEF ReserveGranted, ReserveDenied, ReserveRaises, Hold, Goto, Alone, TypeOK,
      flags, answer, books, Providers
<1> QED BY <1>1, ChargeStage DEF Finishing, Unused

(* Before the first model call: the fallback and the cache.                *)
LEMMA ChargeNoCall ==
  ASSUME TypeOK, TypeOK', ChargeInv, NEW c \in Calls,
         BudgetFallback(c) \/ CacheHit(c)
  PROVE  ChargeInv'
<1>1. /\ pc[c] = "classify" /\ pc'[c] = "persist" /\ Alone(c)
      /\ UNCHANGED <<settled, period, spent, billed>>
      /\ result'[c] = "cache" \/ used' = used
  BY DEF BudgetFallback, CacheHit, Fallback, Goto, Alone, TypeOK, flags, books
<1>2. used[c] = NoUsage BY <1>1 DEF ChargeInv, Fresh, Unused
<1>3. \A a \in Accounts : Share(c, a)' = 0 /\ Share(c, a) \in Nat
  BY <1>1, <1>2, SharesType DEF Share, Owed, NoUsage, Accounts
<1>4. \A a \in Accounts : Share(c, a)' <= Share(c, a) BY <1>3
<1>5. Fresh(c)' BY <1>1 DEF Fresh, Unused
<1>6. Alone(c) /\ spent' = spent /\ billed' = billed BY <1>1
<1>7. Charged' BY <1>4, <1>6, CallQuiet DEF ChargeInv
<1> QED BY <1>5, <1>6, <1>7, OthersShares DEF ChargeInv

(* A check of the guardrail adds to its usage what it was charged, or less. *)
LEMMA ChargeJudge ==
  ASSUME TypeOK, TypeOK', ChargeInv, NEW c \in Calls,
         PreCheck(c) \/ PostCheck(c)
  PROVE  ChargeInv'
<1>1. PICK b \in Price("guardrail") \cup {0} :
        /\ Charge(c, "guardrail", b)
        /\ \/ used' = [used EXCEPT ![c]["guardrail"] = @ + b]
           \/ used' = used
  BY DEF PreCheck, PostCheck, Judge
<1>2. b \in Nat /\ "guardrail" \in Providers BY PriceType DEF Providers
<1>3. /\ pc[c] \in {"classify", "post"} /\ pc'[c] \in {"l1", "persist"}
      /\ pc'[c] = "l1" => result' = result
      /\ Alone(c) /\ UNCHANGED <<settled, period, spent>>
  BY DEF PreCheck, PostCheck, Judge, Fallback, Goto, Alone, TypeOK, flags, books
<1>4. result[c] = "none" BY <1>3 DEF ChargeInv, Fresh, Unused
<1>5. Fresh(c)' BY <1>3, <1>4 DEF Fresh, Unused
<1>6. ASSUME NEW q \in Providers
      PROVE  Owed(c, q)' <= Owed(c, q) + (IF q = "guardrail" THEN b ELSE 0)
  <2>1. /\ used[c][q] \in Nat /\ used'[c][q] \in Nat
        /\ used'[c][q] <= used[c][q] + (IF q = "guardrail" THEN b ELSE 0)
    <3>1. used[c] \in [Providers -> Nat] BY DEF TypeOK
    <3>2. used'[c] = used[c] \/ used'[c] = [used[c] EXCEPT !["guardrail"] = @ + b]
      BY <1>1 DEF TypeOK
    <3>3. \/ used'[c][q] = used[c][q]
          \/ q = "guardrail" /\ used'[c][q] = used[c][q] + b
      BY <1>2, <3>1, <3>2
    <3> QED BY <1>2, <3>1, <3>3
  <2>2. CASE q \in settled[c]
    <3>1. Owed(c, q) = 0 /\ Owed(c, q)' = 0 BY <1>3, <2>2 DEF Owed
    <3> QED BY <1>2, <3>1
  <2>3. CASE q \notin settled[c]
    <3>1. Owed(c, q) = used[c][q]
      BY <1>3, <1>4, <2>3 DEF Owed, Finishing
    <3>2. Owed(c, q)' = 0 \/ Owed(c, q)' = used'[c][q] BY DEF Owed
    <3>3. CASE q = "guardrail" BY <1>2, <2>1, <3>1, <3>2, <3>3
    <3>4. CASE q # "guardrail" BY <2>1, <3>1, <3>2, <3>4
    <3> QED BY <3>3, <3>4
  <2> QED BY <2>2, <2>3
<1>7. Charged' BY <1>1, <1>2, <1>3, <1>6, CallCharged DEF ChargeInv
<1> QED BY <1>3, <1>5, <1>7, OthersShares DEF ChargeInv

LEMMA ChargeL1 ==
  ASSUME TypeOK, TypeOK', ChargeInv, NEW c \in Calls,
         L1Answers(c) \/ L1Fails(c)
  PROVE  ChargeInv'
<1>1. PICK b \in Price("l1") \cup {0} :
        /\ Charge(c, "l1", b)
        /\ \/ used' = [used EXCEPT ![c]["l1"] = b]
           \/ used' = used
  BY DEF L1Answers, L1Fails
<1>2. b \in Nat /\ "l1" \in Providers BY PriceType DEF Providers
<1>3. /\ pc[c] = "l1" /\ pc'[c] \in {"l1", "post", "persist"}
      /\ pc'[c] # "persist" => result' = result
      /\ Alone(c) /\ UNCHANGED <<settled, period, spent>>
  BY DEF L1Answers, L1Fails, Fallback, Goto, Alone, TypeOK, flags, books
<1>4. result[c] = "none" BY <1>3 DEF ChargeInv, Fresh, Unused
<1>5. Fresh(c)' BY <1>3, <1>4 DEF Fresh, Unused
<1>6. ASSUME NEW q \in Providers
      PROVE  Owed(c, q)' <= Owed(c, q) + (IF q = "l1" THEN b ELSE 0)
  <2>1. /\ used[c][q] \in Nat /\ used'[c][q] \in Nat
        /\ used'[c][q] <= used[c][q] + (IF q = "l1" THEN b ELSE 0)
    <3>1. used[c] \in [Providers -> Nat] BY DEF TypeOK
    <3>2. used'[c] = used[c] \/ used'[c] = [used[c] EXCEPT !["l1"] = b]
      BY <1>1 DEF TypeOK
    <3>3. \/ used'[c][q] = used[c][q]
          \/ q = "l1" /\ used'[c][q] = b
      BY <1>2, <3>1, <3>2
    <3> QED BY <1>2, <3>1, <3>3
  <2>2. CASE q \in settled[c]
    <3>1. Owed(c, q) = 0 /\ Owed(c, q)' = 0 BY <1>3, <2>2 DEF Owed
    <3> QED BY <1>2, <3>1
  <2>3. CASE q \notin settled[c]
    <3>1. Owed(c, q) = used[c][q]
      BY <1>3, <1>4, <2>3 DEF Owed, Finishing
    <3>2. Owed(c, q)' = 0 \/ Owed(c, q)' = used'[c][q] BY DEF Owed
    <3>3. CASE q = "l1" BY <1>2, <2>1, <3>1, <3>2, <3>3
    <3>4. CASE q # "l1" BY <2>1, <3>1, <3>2, <3>4
    <3> QED BY <3>3, <3>4
  <2> QED BY <2>2, <2>3
<1>7. Charged' BY <1>1, <1>2, <1>3, <1>6, CallCharged DEF ChargeInv
<1> QED BY <1>3, <1>5, <1>7, OthersShares DEF ChargeInv

LEMMA ChargeLeave ==
  ASSUME TypeOK, TypeOK', ChargeInv, NEW c \in Calls, Persist(c) \/ Raise(c)
  PROVE  ChargeInv'
<1>1. /\ pc[c] \in Unprotected /\ Alone(c)
      /\ UNCHANGED <<used, result, settled, period, spent, billed>>
      /\ pc'[c] \notin Unused \cup {"l1", "post"}
  BY Stages
  DEF Persist, Raise, Goto, Alone, TypeOK, flags, answer, books, FirstOf,
      Finally, Unprotected, Unused
<1> QED BY <1>1, ChargeStage DEF Finishing, Unprotected

(* A settle records what the call owes; the cached usage is not recorded.  *)
LEMMA ChargeSettle ==
  ASSUME TypeOK, TypeOK', ChargeInv, NEW c \in Calls, CallInv(c),
         NEW p \in Providers, SettleCall(c, p) \/ SettleRaises(c, p)
  PROVE  ChargeInv'
<1>1. /\ pc[c] = SettleAt[p] /\ Alone(c)
      /\ UNCHANGED <<used, result, period, billed>>
      /\ pc'[c] \notin Unused \cup {"l1", "post"}
      /\ \/ settled'[c] = settled[c] \cup {p} /\ SettleCall(c, p)
         \/ settled' = settled /\ pc'[c] \in Finishing
  BY Stages
  DEF SettleCall, SettleRaises, Goto, Alone, TypeOK, flags, answer, FirstOf,
      Finally, Unused, Finishing
<1>2. p \notin settled[c] /\ pc[c] \notin Finishing
  BY <1>1, Stages DEF CallInv, Control, Finishing, Providers
<1>3. Fresh(c)' BY <1>1 DEF Fresh
<1>4. Owed(c, p)' = 0 BY <1>1 DEF Owed
<1>5. ASSUME NEW q \in Providers PROVE Owed(c, q)' <= Owed(c, q)
  <2>1. used[c][q] \in Nat BY DEF TypeOK
  <2>2. Owed(c, q) \in Nat /\ Owed(c, q)' \in {0, Owed(c, q)}
    BY <1>1, <1>2, <2>1 DEF Owed
  <2> QED BY <2>2
<1>6. CASE Settle(c, p, Actual(c, p))
  <2>1. Actual(c, p) \in Nat BY ActualType
  <2>2. Actual(c, p) <= Owed(c, p)
    <3>1. used[c][p] \in Nat BY DEF TypeOK
    <3> QED BY <1>2, <3>1 DEF Actual, Owed
  <2>3. PICK b \in Nat : b = Actual(c, p) BY <2>1
  <2>4. Charged'
    BY <1>1, <1>4, <1>5, <1>6, <2>2, <2>3, CallRecords DEF ChargeInv
  <2> QED BY <1>1, <1>3, <2>4, OthersShares DEF ChargeInv
<1>7. CASE UNCHANGED books
  <2>1. spent' = spent BY <1>7 DEF books
  <2>2. ASSUME NEW a \in Accounts PROVE Share(c, a)' <= Share(c, a)
    <3>1. a[1] \in Providers BY DEF Accounts
    <3> QED BY <1>1, <1>5, <3>1 DEF Share
  <2> QED BY <1>1, <1>3, <2>1, <2>2, CallQuiet, OthersShares DEF ChargeInv
<1> QED BY <1>6, <1>7 DEF SettleCall, SettleRaises

LEMMA ChargeRefund ==
  ASSUME TypeOK, TypeOK', ChargeInv, NEW c \in Calls, NEW p \in Providers,
         Refund(c, p)
  PROVE  ChargeInv'
<1>1. /\ pc[c] \in Finishing /\ Alone(c)
      /\ UNCHANGED <<used, result, settled, period, billed>>
      /\ pc'[c] \in Finishing \ {"idle"}
  BY Stages
  DEF Refund, Goto, Alone, TypeOK, flags, answer, FirstOf, Finally, Finishing,
      Providers
<1>2. spent' = spent
  <2>1. CASE Settle(c, p, 0)
    <3>1. spent[Row(c, p)] + 0 = spent[Row(c, p)] BY RowFacts DEF TypeOK
    <3>2. spent' = [spent EXCEPT ![Row(c, p)] = spent[Row(c, p)]]
      BY <2>1, <3>1 DEF Settle
    <3> QED BY <3>2 DEF TypeOK
  <2>2. CASE UNCHANGED books BY <2>2 DEF books
  <2> QED BY <2>1, <2>2 DEF Refund
<1> QED BY <1>1, <1>2, ChargeStage DEF Finishing, Unused

LEMMA ChargeOver ==
  ASSUME TypeOK, TypeOK', ChargeInv, NEW S \in SUBSET Calls, Over(S)
  PROVE  ChargeInv'
<1>1. spent' = spent /\ billed' = billed BY DEF Over
<1>2. ASSUME NEW c \in Calls
      PROVE  /\ Fresh(c)'
             /\ \A a \in Accounts : Share(c, a)' <= Share(c, a)
  <2>1. CASE c \in S
    <3>1. pc'[c] = "idle" /\ used'[c] = NoUsage /\ result'[c] = "none"
      BY <2>1 DEF Over
    <3>2. \A a \in Accounts : Share(c, a)' = 0 /\ Share(c, a) \in Nat
      BY <3>1, SharesType DEF Share, Owed, Finishing
    <3>3. \A a \in Accounts : Share(c, a)' <= Share(c, a) BY <3>2
    <3> QED BY <3>1, <3>3 DEF Fresh
  <2>2. CASE c \notin S
    <3>1. /\ pc'[c] = pc[c] /\ settled'[c] = settled[c]
          /\ period'[c] = period[c] /\ used'[c] = used[c]
          /\ result'[c] = result[c]
      BY <2>2 DEF Over
    <3>2. \A a \in Accounts : Share(c, a)' = Share(c, a) /\ Share(c, a) \in Nat
      BY <3>1, SharesType DEF Share, Owed
    <3>3. \A a \in Accounts : Share(c, a)' <= Share(c, a) BY <3>2
    <3> QED BY <3>1, <3>3 DEF ChargeInv, Fresh
  <2> QED BY <2>1, <2>2
<1>3. \A a \in Accounts : billed'[a] >= billed[a] BY <1>1 DEF TypeOK
<1> QED BY <1>1, <1>2, <1>3, ChargedLess DEF ChargeInv

LEMMA ChargeStep ==
  ASSUME TypeOK, TypeOK', \A c \in Calls : CallInv(c), ChargeInv, [Next]_vars
  PROVE  ChargeInv'
<1>1. ASSUME UNCHANGED <<pc, settled, period, used, result, spent, billed>>
      PROVE  ChargeInv'
  BY <1>1 DEF ChargeInv, Charged, Shares, Share, Owed, Fresh
<1>2. CASE \E c \in Calls : Start(c) BY <1>2, ChargeStart
<1>3. CASE \E c \in Calls : Progress(c)
  BY <1>3, ChargeNoCall, ChargeJudge, ChargeL1, ChargeLeave, ChargeOver,
     ChargeReserve, ChargeSettle, ChargeRefund DEF Progress, Exit
<1>4. CASE \E c \in Calls : Failure(c)
  BY <1>4, ChargeLeave, ChargeReserve, ChargeSettle DEF Failure
<1>5. CASE Crash BY <1>5, ChargeOver DEF Crash
<1>6. CASE NextMonth \/ UNCHANGED vars
  BY <1>1, <1>6 DEF NextMonth, vars, flags, answer
<1> QED BY <1>2, <1>3, <1>4, <1>5, <1>6 DEF Next

(* The ledger records nothing that no model API charged: neither a cached   *)
(* outcome nor a fallback, a refund or a settle that was repeated after a   *)
(* lost acknowledgement adds to it, whatever faults occur.                  *)
THEOREM NothingOvercharged == Spec => []NeverOvercharged
<1> DEFINE Inv == TypeOK /\ (\A c \in Calls : CallInv(c)) /\ ChargeInv
<1>1. Init => Inv BY InitOK, FreshInit DEF ChargeInv
<1>2. Inv /\ [Next]_vars => Inv' BY TypeStep, CallStep, ChargeStep
<1>3. Inv => NeverOvercharged
  <2> SUFFICES ASSUME Inv, NEW a \in Accounts PROVE spent[a] <= billed[a]
    BY DEF NeverOvercharged
  <2>1. Total(Shares(a)) \in Nat BY SharesType, TokensFinite
  <2>2. spent[a] + Total(Shares(a)) <= billed[a] BY DEF ChargeInv, Charged
  <2> QED BY <2>1, <2>2 DEF TypeOK
<1> QED BY <1>1, <1>2, <1>3, PTL DEF Spec

-----------------------------------------------------------------------------
(* Without a failing transaction, a lost reserve or a crash, the ledger    *)
(* holds nothing that the call has not on its list, and nothing for a      *)
(* provider whose refund lies behind it.                                   *)
Kept(c) ==
  /\ held[c] \subseteq reserved[c] \ settled[c]
  /\ \A p \in Providers : pc[c] \in Past(p) => p \notin held[c]

NoLostBooks == Faults \cap {"abort", "reserve_ack", "crash"} = {}

(* Where the finally block is entered, or a later part of it.              *)
LEMMA EnterFinally ==
  ASSUME NEW h, NEW S \in SUBSET Providers, h \subseteq S
  PROVE  \A p \in Providers : Finally(S) \in Past(p) => p \notin h
BY FirstStage DEF Past, Providers

LEMMA KeptStart ==
  ASSUME TypeOK, NEW c \in Calls, CallInv(c), Start(c)
  PROVE  Kept(c)'
<1>1. held'[c] = {} /\ reserved'[c] \ settled'[c] = {}
  BY DEF Start, CallInv, Control, flags, books
<1> QED BY <1>1 DEF Kept

LEMMA KeptReserve ==
  ASSUME TypeOK, NoLostBooks, NEW c \in Calls, CallInv(c), Kept(c),
         NEW p \in Providers,
         ReserveGranted(c, p) \/ ReserveDenied(c, p) \/ ReserveRaises(c, p)
  PROVE  Kept(c)'
<1>1. /\ pc[c] = ReserveAt[p] /\ p \in Metered /\ p \notin settled[c]
      /\ pc'[c] = FirstOf(ReserveAt, Metered \ UpTo[p], "classify")
      /\ settled' = settled
      /\ \/ held'[c] = held[c] \cup {p} /\ reserved'[c] = reserved[c] \cup {p}
         \/ held' = held /\ reserved' = reserved
  BY Stages
  DEF ReserveGranted, ReserveDenied, ReserveRaises, NoLostBooks, Hold, Goto,
      CallInv, Control, TypeOK, flags, books, Providers
<1>2. pc'[c] \in {"reserve_l1", "reserve_g", "classify"}
  BY <1>1, Stages DEF FirstOf
<1> QED BY <1>1, <1>2 DEF Kept, Past

(* Where the ledger and the list of the call stay as they are.             *)
LEMMA KeptQuiet ==
  ASSUME TypeOK, NEW c \in Calls, Kept(c),
         held'[c] = held[c], reserved'[c] = reserved[c], settled'[c] = settled[c],
         \/ pc'[c] \in Labels \ {"refund_g", "exit"}
         \/ pc'[c] = Finally(reserved[c] \ settled[c])
  PROVE  Kept(c)'
<1>1. reserved[c] \ settled[c] \in SUBSET Providers
  BY ConstantsAssumption DEF TypeOK
<1>2. \A p \in Providers : pc'[c] \in Past(p) => p \notin held[c]
  BY <1>1, EnterFinally DEF Kept, Past
<1> QED BY <1>2 DEF Kept

LEMMA KeptClassify ==
  ASSUME TypeOK, NEW c \in Calls, Kept(c),
         \/ BudgetFallback(c) \/ CacheHit(c) \/ PreCheck(c)
         \/ L1Answers(c) \/ L1Fails(c) \/ PostCheck(c)
  PROVE  Kept(c)'
<1>1. /\ pc'[c] \in {"l1", "post", "persist"}
      /\ UNCHANGED <<held, reserved, settled>>
  BY DEF BudgetFallback, CacheHit, PreCheck, L1Answers, L1Fails, PostCheck,
         Judge, Fallback, Goto, TypeOK, flags, books
<1> QED BY <1>1, KeptQuiet DEF Labels

LEMMA KeptLeave ==
  ASSUME TypeOK, NEW c \in Calls, Kept(c), Persist(c) \/ Raise(c)
  PROVE  Kept(c)'
<1>1. /\ pc'[c] \in {"settle_l1", "settle_g", Finally(reserved[c] \ settled[c])}
      /\ UNCHANGED <<held, reserved, settled>>
  BY Stages DEF Persist, Raise, FirstOf, Goto, TypeOK, flags, books
<1> QED BY <1>1, KeptQuiet DEF Labels

LEMMA KeptSettle ==
  ASSUME TypeOK, NoLostBooks, NEW c \in Calls, CallInv(c), Kept(c),
         NEW p \in Providers, SettleCall(c, p) \/ SettleRaises(c, p)
  PROVE  Kept(c)'
<1>1. /\ held'[c] = held[c] \ {p} /\ reserved'[c] = reserved[c]
      /\ settled'[c] \in {settled[c], settled[c] \cup {p}}
      /\ pc'[c] \in {"settle_l1", "settle_g", Finally(reserved'[c] \ settled'[c])}
  <2>1. CASE SettleCall(c, p)
    BY <2>1, Stages DEF SettleCall, Settle, FirstOf, Goto, TypeOK
  <2>2. CASE SettleRaises(c, p)
    BY <2>2 DEF SettleRaises, NoLostBooks, Settle, Goto, TypeOK, flags
  <2> QED BY <2>1, <2>2
<1>2. held'[c] \subseteq reserved'[c] \ settled'[c] BY <1>1 DEF Kept
<1>3. reserved'[c] \ settled'[c] \in SUBSET Providers
  BY <1>1, ConstantsAssumption DEF TypeOK
<1>4. \A q \in Providers : pc'[c] \in Past(q) => q \notin held'[c]
  BY <1>1, <1>2, <1>3, EnterFinally DEF Past
<1> QED BY <1>2, <1>4 DEF Kept

LEMMA KeptRefund ==
  ASSUME TypeOK, NoLostBooks, NEW c \in Calls, Kept(c), NEW p \in Providers,
         Refund(c, p)
  PROVE  Kept(c)'
<1> DEFINE S == (reserved[c] \ settled[c]) \ UpTo[p]
<1>1. /\ held'[c] = held[c] \ {p} /\ pc[c] = RefundAt[p] /\ pc'[c] = Finally(S)
      /\ reserved'[c] = reserved[c] /\ settled'[c] = settled[c]
  BY DEF Refund, NoLostBooks, Settle, Goto, TypeOK, flags
<1>2. held'[c] \subseteq S
  <2>1. CASE p = "l1" BY <1>1, <2>1, Stages DEF Kept
  <2>2. CASE p = "guardrail"
    <3>1. "l1" \notin held[c]
      BY <1>1, <2>2, Stages DEF Kept, Past, Providers
    <3> QED BY <1>1, <2>2, <3>1, ConstantsAssumption DEF TypeOK, Providers
  <2> QED BY <2>1, <2>2 DEF Providers
<1>3. S \in SUBSET Providers BY ConstantsAssumption DEF TypeOK
<1>4. held'[c] \subseteq reserved'[c] \ settled'[c] BY <1>1, <1>2
<1> HIDE DEF S
<1>5. \A q \in Providers : pc'[c] \in Past(q) => q \notin held'[c]
  BY <1>1, <1>2, <1>3, EnterFinally
<1> QED BY <1>4, <1>5 DEF Kept

(* A call that ends holds nothing.                                         *)
LEMMA NothingLeaks ==
  ASSUME TypeOK, NoLeak, NEW c \in Calls, Kept(c), Exit(c)
  PROVE  NoLeak'
<1>1. held[c] = {}
  <2>1. \A p \in Providers : p \notin held[c]
    BY DEF Exit, Kept, Past
  <2> QED BY <2>1, ConstantsAssumption DEF TypeOK
<1> SUFFICES ASSUME NEW a \in Accounts PROVE leaked'[a] = 0 BY DEF NoLeak
<1>2. Holders(a) \cap {c} = {} BY <1>1 DEF Holders
<1>3. Cardinality(Holders(a) \cap {c}) = 0 BY <1>2, FS_EmptySet
<1> QED BY <1>3 DEF Exit, Over, NoLeak

LEMMA KeptStep ==
  ASSUME TypeOK, NoLostBooks, \A c \in Calls : CallInv(c) /\ Kept(c),
         NoLeak, [Next]_vars
  PROVE  (\A c \in Calls : Kept(c)') /\ NoLeak'
<1>1. ASSUME NEW c \in Calls, leaked' = leaked, Kept(c)',
             \A d \in Calls \ {c} :
               /\ pc'[d] = pc[d] /\ held'[d] = held[d]
               /\ reserved'[d] = reserved[d] /\ settled'[d] = settled[d]
      PROVE  (\A d \in Calls : Kept(d)') /\ NoLeak'
  BY <1>1 DEF Kept, NoLeak
<1>2. ASSUME UNCHANGED <<pc, reserved, settled, held, leaked>>
      PROVE  (\A c \in Calls : Kept(c)') /\ NoLeak'
  BY <1>2 DEF Kept, NoLeak
<1>3. ASSUME NEW c \in Calls, Start(c)
      PROVE  (\A d \in Calls : Kept(d)') /\ NoLeak'
  BY <1>1, <1>3, KeptStart DEF Start, Goto, TypeOK, flags, books
<1>4. ASSUME NEW c \in Calls, Persist(c) \/ Raise(c)
      PROVE  (\A d \in Calls : Kept(d)') /\ NoLeak'
  BY <1>1, <1>4, KeptLeave DEF Persist, Raise, Goto, TypeOK, flags, books
<1>5. ASSUME NEW c \in Calls,
             \/ BudgetFallback(c) \/ CacheHit(c) \/ PreCheck(c)
             \/ L1Answers(c) \/ L1Fails(c) \/ PostCheck(c)
      PROVE  (\A d \in Calls : Kept(d)') /\ NoLeak'
  BY <1>1, <1>5, KeptClassify
  DEF BudgetFallback, CacheHit, PreCheck, L1Answers, L1Fails, PostCheck,
      Judge, Fallback, Goto, TypeOK, flags, books
<1>6. ASSUME NEW c \in Calls, NEW p \in Providers,
             \/ ReserveGranted(c, p) \/ ReserveDenied(c, p) \/ ReserveRaises(c, p)
             \/ SettleCall(c, p) \/ SettleRaises(c, p) \/ Refund(c, p)
      PROVE  (\A d \in Calls : Kept(d)') /\ NoLeak'
  <2>1. Kept(c)' BY <1>6, KeptReserve, KeptSettle, KeptRefund
  <2>2. /\ leaked' = leaked
        /\ \A d \in Calls \ {c} :
             /\ pc'[d] = pc[d] /\ held'[d] = held[d]
             /\ reserved'[d] = reserved[d] /\ settled'[d] = settled[d]
    BY <1>6
    DEF ReserveGranted, ReserveDenied, ReserveRaises, SettleCall, SettleRaises,
        Refund, Settle, Hold, Goto, TypeOK, flags, books
  <2> QED BY <1>1, <2>1, <2>2
<1>7. ASSUME NEW c \in Calls, Exit(c)
      PROVE  (\A d \in Calls : Kept(d)') /\ NoLeak'
  <2>1. NoLeak' BY <1>7, NothingLeaks
  <2>2. ASSUME NEW d \in Calls PROVE Kept(d)'
    BY <1>7 DEF Exit, Over, Kept, Past
  <2> QED BY <2>1, <2>2
<1>8. CASE NextMonth \/ UNCHANGED vars
  BY <1>2, <1>8 DEF NextMonth, vars, flags
<1>9. ~Crash BY DEF Crash, NoLostBooks
<1> QED BY <1>3, <1>4, <1>5, <1>6, <1>7, <1>8, <1>9 DEF Next, Progress, Failure

(* "No leak": unless a ledger transaction fails, a reserve is granted       *)
(* without the service hearing of it or a process dies, a reservation is    *)
(* always that of a running call: whatever raises, and wherever, the       *)
(* finally block has refunded it before the call ends.  A settle whose     *)
(* acknowledgement is lost leaks nothing either.                           *)
THEOREM NothingLeaked == ASSUME NoLostBooks PROVE Spec => []NoLeak
<1> DEFINE Inv == /\ TypeOK
                  /\ \A c \in Calls : CallInv(c) /\ Kept(c)
                  /\ NoLeak
<1>1. Init => Inv
  <2>1. Init => NoLeak /\ \A c \in Calls : Kept(c) BY DEF Init, Kept, NoLeak
  <2> QED BY <2>1, InitOK
<1>2. Inv /\ [Next]_vars => Inv' BY TypeStep, CallStep, KeptStep
<1>3. Inv => NoLeak OBVIOUS
<1> QED BY <1>1, <1>2, <1>3, PTL DEF Spec
=============================================================================
