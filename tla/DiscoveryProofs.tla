-------------------------- MODULE DiscoveryProofs --------------------------
(***************************************************************************)
(* Discovery bounds the bursts of new candidates for every limit, window,  *)
(* delay and set of messages.                                              *)
(***************************************************************************)
EXTENDS Discovery, SlidingWindowTheorems

LEMMA ConstantTypes ==
  /\ RateLimit \in Nat /\ RateWindow \in Nat /\ DedupeWindow \in Nat
  /\ RateLimit > 0 /\ RateWindow > 0 /\ DedupeWindow > 0
  /\ MaxLag \in Nat /\ MaxInbox \in Nat /\ MaxFaults \in Nat
  /\ Horizon \in Nat /\ Horizon = RateWindow + MaxLag
BY DiscoveryAssumption DEF Horizon

-----------------------------------------------------------------------------
(* Type correctness.                                                       *)

LEMMA TypeInit == Init => TypeOK
<1> SUFFICES ASSUME Init PROVE TypeOK OBVIOUS
<1> USE ConstantTypes
<1>1. /\ inbox \in Seq(Messages) /\ Len(inbox) <= MaxInbox
      /\ times \in Seq(0..Horizon) /\ Len(times) <= RateLimit
      /\ births \in Seq(0..RateWindow)
  BY EmptySeq DEF Init
<1>2. last \in [Topics -> 0..DedupeWindow] BY DEF Init
<1>3. devices \subseteq WellFormed /\ online \in BOOLEAN BY DEF Init
<1>4. pc = "idle" /\ message = NoMessage BY DEF Init
<1>5. lag \in 0..MaxLag /\ faults \in 0..MaxFaults BY DEF Init
<1> QED BY <1>1, <1>2, <1>3, <1>4, <1>5 DEF TypeOK

LEMMA DoneType ==
  ASSUME Done
  PROVE  /\ pc' = "idle" /\ message' = NoMessage /\ lag' \in 0..MaxLag
BY ConstantTypes DEF Done

LEMMA RecordType ==
  ASSUME TypeOK, record_candidate, message \in Messages
  PROVE  last' \in [Topics -> 0..DedupeWindow]
<1>1. {lag, DedupeWindow} \in SUBSET Nat
  BY ConstantTypes DEF TypeOK
<1>2. Min({lag, DedupeWindow}) \in 0..DedupeWindow
  BY <1>1, MinOfNats, ConstantTypes
<1>3. message.topic \in Topics BY DEF Topics
<1> QED BY <1>2, <1>3 DEF TypeOK, record_candidate

LEMMA FreshType ==
  ASSUME TypeOK
  PROVE  /\ Fresh \in Seq(0..Horizon) /\ Len(Fresh) <= Len(times)
         /\ \E c \in 0..Len(times) :
              /\ Len(Fresh) = Len(times) - c
              /\ \A j \in 1..(Len(times) - c) : Fresh[j] = times[c + j]
              /\ \A j \in 1..c : times[j] >= RateWindow + lag
<1>1. RateWindow + lag \in Nat BY ConstantTypes DEF TypeOK
<1>2. times \in Seq(0..Horizon) /\ Horizon \in Nat
  BY ConstantTypes DEF TypeOK
<1>3. /\ Fresh \in Seq(0..Horizon)
      /\ \E c \in 0..Len(times) :
           /\ Len(Fresh) = Len(times) - c
           /\ \A j \in 1..(Len(times) - c) : Fresh[j] = times[c + j]
           /\ \A j \in 1..c : times[j] >= RateWindow + lag
  BY <1>1, <1>2, TrimmedDropsOld DEF Fresh
<1>4. Len(Fresh) <= Len(times)
  <2>1. Len(times) \in Nat BY <1>2
  <2> QED BY <1>3, <2>1
<1> QED BY <1>3, <1>4

(* After allow_rate there is room for the candidate that it admitted.       *)
Admitted == pc = "create" => Len(times) < RateLimit

LEMMA TypeStep == TypeOK /\ Admitted /\ [Next]_vars => TypeOK'
<1> SUFFICES ASSUME TypeOK, Admitted, [Next]_vars PROVE TypeOK' OBVIOUS
<1> USE ConstantTypes
<1>1. ASSUME NEW m \in Messages, Publish(m) PROVE TypeOK'
  <2>1. inbox' \in Seq(Messages) /\ Len(inbox') <= MaxInbox
    BY <1>1 DEF Publish, TypeOK
  <2> QED BY <1>1, <2>1 DEF Publish, TypeOK, task, gate
<1>2. ASSUME Receive PROVE TypeOK'
  <2> DEFINE m == Head(inbox)
  <2>1. inbox # <<>> /\ inbox' = Tail(inbox) BY <1>2 DEF Receive
  <2>2. m \in Messages /\ inbox' \in Seq(Messages) /\ Len(inbox') <= MaxInbox
    BY <2>1 DEF TypeOK
  <2>3. CASE Admissible(m) /\ ~is_duplicate(m.topic)
    BY <1>2, <2>2, <2>3 DEF Receive, TypeOK, gate
  <2>4. CASE ~(Admissible(m) /\ ~is_duplicate(m.topic))
    BY <1>2, <2>2, <2>4 DEF Receive, TypeOK, gate, task
  <2> QED BY <2>3, <2>4
<1>3. ASSUME Existing PROVE TypeOK'
  BY <1>3, DoneType DEF Existing, TypeOK, gate
<1>4. ASSUME Admit PROVE TypeOK'
  <2>1. times' \in Seq(0..Horizon) /\ Len(times') <= RateLimit
    BY <1>4, FreshType DEF Admit, TypeOK
  <2>2. CASE allow_rate
    BY <1>4, <2>1, <2>2 DEF Admit, TypeOK
  <2>3. CASE ~allow_rate
    BY <1>4, <2>1, <2>3, DoneType DEF Admit, TypeOK
  <2> QED BY <2>2, <2>3
<1>5. ASSUME CreateCandidate PROVE TypeOK'
  <2>1. CASE Identity(message) \in devices
    BY <1>5, <2>1, DoneType DEF CreateCandidate, TypeOK, gate
  <2>2. CASE Identity(message) \notin devices
    <3>1. message \in Messages /\ Identity(message) \in WellFormed
      BY <1>5 DEF CreateCandidate, TypeOK, Admissible
    <3>2. times' \in Seq(0..Horizon) /\ Len(times') <= RateLimit
      <4>1. /\ times' = Append(times, lag) /\ times \in Seq(0..Horizon)
            /\ lag \in 0..Horizon
        BY <1>5, <2>2 DEF CreateCandidate, record_candidate, TypeOK
      <4>2. Len(times') = Len(times) + 1 /\ Len(times) \in Nat BY <4>1
      <4>3. times' \in Seq(0..Horizon) BY <4>1
      <4>4. Len(times) < RateLimit BY <1>5 DEF CreateCandidate, Admitted
      <4> QED BY <4>2, <4>3, <4>4
    <3>3. last' \in [Topics -> 0..DedupeWindow]
      BY <1>5, <2>2, <3>1, RecordType DEF CreateCandidate
    <3>4. births' \in Seq(0..RateWindow)
      <4>1. births' = Append(births, 0) /\ births \in Seq(0..RateWindow)
        BY <1>5, <2>2 DEF CreateCandidate, TypeOK
      <4>2. 0 \in 0..RateWindow OBVIOUS
      <4> QED BY <4>1, <4>2
    <3> QED BY <1>5, <2>2, <3>1, <3>2, <3>3, <3>4 DEF CreateCandidate, TypeOK
  <2> QED BY <2>1, <2>2
<1>6. ASSUME Classify PROVE TypeOK'
  BY <1>6, DoneType DEF Classify, TypeOK, gate
<1>7. ASSUME Raise PROVE TypeOK'
  <2>1. faults' \in 0..MaxFaults BY <1>7 DEF Raise, TypeOK
  <2>2. devices' \subseteq WellFormed
    BY <1>7 DEF Raise, TypeOK, Admissible
  <2> QED BY <1>7, <2>1, <2>2, DoneType DEF Raise, TypeOK, gate
<1>8. ASSUME Disconnect PROVE TypeOK'
  <2>1. faults' \in 0..MaxFaults BY <1>8 DEF Disconnect, TypeOK
  <2>2. inbox' \in Seq(Messages) /\ Len(inbox') <= MaxInbox
    BY <1>8, EmptySeq DEF Disconnect
  <2> QED BY <1>8, <2>1, <2>2 DEF Disconnect, TypeOK, gate, task
<1>9. ASSUME Connect PROVE TypeOK'
  BY <1>9 DEF Connect, TypeOK, gate, task
<1>10. ASSUME Restart PROVE TypeOK'
  <2>1. faults' \in 0..MaxFaults BY <1>10 DEF Restart, TypeOK
  <2>2. /\ inbox' \in Seq(Messages) /\ Len(inbox') <= MaxInbox
        /\ times' \in Seq(0..Horizon) /\ Len(times') <= RateLimit
        /\ births' \in Seq(0..RateWindow)
    BY <1>10, EmptySeq DEF Restart
  <2>3. last' \in [Topics -> 0..DedupeWindow] BY <1>10 DEF Restart
  <2>4. devices' \subseteq WellFormed /\ online' \in BOOLEAN
    BY <1>10 DEF Restart, TypeOK
  <2> QED BY <1>10, <2>1, <2>2, <2>3, <2>4, DoneType DEF Restart, TypeOK
<1>11. ASSUME NEW d \in WellFormed, CreateDevice(d) PROVE TypeOK'
  BY <1>11 DEF CreateDevice, TypeOK, gate, task
<1>12. ASSUME Tick PROVE TypeOK'
  <2>1. lag' \in 0..MaxLag BY <1>12 DEF Tick, TypeOK
  <2>2. last' \in [Topics -> 0..DedupeWindow]
    BY <1>12 DEF Tick, TypeOK, Older
  <2>3. /\ times' \in Seq(0..Horizon) /\ Len(times') = Len(times)
        /\ births' \in Seq(0..RateWindow)
    BY <1>12, AgedTimes DEF Tick, TypeOK
  <2>4. Len(times') <= RateLimit BY <2>3 DEF TypeOK
  <2> QED BY <1>12, <2>1, <2>2, <2>3, <2>4 DEF Tick, TypeOK
<1>13. CASE UNCHANGED vars
  BY <1>13 DEF vars, TypeOK
<1> QED
  BY <1>1, <1>2, <1>3, <1>4, <1>5, <1>6, <1>7, <1>8, <1>9, <1>10, <1>11,
     <1>12, <1>13 DEF Next, Loop

-----------------------------------------------------------------------------
(* The invariant behind BurstBounded.  The deque holds the times of the     *)
(* latest candidates, times[j] that of births[j + dropped]: since the loop  *)
(* handles one message at a time, the message of a candidate was received   *)
(* after its predecessor was created.  A time leaves the deque when it is   *)
(* as old as the window, and by then so is the predecessor.                 *)

dropped == Len(births) - Len(times)

(* The candidates before the last one that was dropped are old.            *)
DroppedOld ==
  \A i \in 1..Len(births) : i < dropped => births[i] >= RateWindow

(* What is still in the deque was received after the birth before it.      *)
DequeFollows ==
  \A i \in 1..Len(births) :
    i >= dropped /\ i < Len(births) /\ births[i] < RateWindow
      => times[i + 1 - dropped] <= births[i]

(* So was the message in work.                                             *)
LagFollows ==
  LET n == Len(births)
  IN pc \in {"lookup", "create"} /\ n > 0 /\ births[n] < RateWindow
       => lag <= births[n]

GateInv ==
  /\ Admitted
  /\ dropped >= 0
  /\ DroppedOld
  /\ DequeFollows
  /\ LagFollows
  /\ BurstBounded

LEMMA Lengths ==
  ASSUME TypeOK
  PROVE  /\ Len(births) \in Nat /\ Len(times) \in Nat /\ dropped \in Int
         /\ \A i \in 1..Len(births) : births[i] \in 0..RateWindow
         /\ \A j \in 1..Len(times) : times[j] \in 0..Horizon
BY ConstantTypes DEF TypeOK, dropped

LEMMA GateInit == Init => GateInv
<1> SUFFICES ASSUME Init PROVE GateInv OBVIOUS
<1>1. Len(births) = 0 /\ Len(times) = 0 /\ pc = "idle" BY DEF Init
<1> QED
  BY <1>1, ConstantTypes
  DEF GateInv, Admitted, dropped, DroppedOld, DequeFollows, LagFollows,
      BurstBounded

(* A step that leaves the deque and the births alone keeps the invariant,   *)
(* if it neither admits nor makes the message older.                        *)
LEMMA GateUnchanged ==
  ASSUME TypeOK, GateInv, times' = times, births' = births,
         pc' # "create" \/ pc' = pc,
         pc' \in {"lookup", "create"} => lag' = 0 \/ (pc' = pc /\ lag' = lag)
  PROVE  GateInv'
<1>1. Admitted' BY DEF GateInv, Admitted
<1>2. (dropped >= 0)' /\ DroppedOld' /\ DequeFollows' /\ BurstBounded'
  BY DEF GateInv, dropped, DroppedOld, DequeFollows, BurstBounded
<1>3. LagFollows'
  BY Lengths DEF GateInv, LagFollows
<1> QED BY <1>1, <1>2, <1>3 DEF GateInv

LEMMA GateAdmit ==
  ASSUME TypeOK, GateInv, Admit
  PROVE  GateInv'
<1> USE ConstantTypes
<1> DEFINE n == Len(births)
           d == dropped
<1>1. /\ births' = births /\ times' = Fresh
      /\ pc = "lookup" /\ pc' \in {"create", "idle"}
      /\ pc' = "create" => Len(Fresh) < RateLimit /\ lag' = lag
  BY DEF Admit, Done, allow_rate
<1>2. PICK c \in 0..Len(times) :
        /\ Len(Fresh) = Len(times) - c
        /\ \A j \in 1..(Len(times) - c) : Fresh[j] = times[c + j]
        /\ \A j \in 1..c : times[j] >= RateWindow + lag
  BY FreshType
<1>3. /\ n \in Nat /\ Len(times) \in Nat /\ d = n - Len(times)
      /\ \A i \in 1..n : births[i] \in 0..RateWindow
      /\ lag \in Nat
  BY Lengths DEF dropped, TypeOK
<1>4. d >= 0 /\ dropped' = d + c /\ c \in Nat
  BY <1>1, <1>2, <1>3 DEF GateInv, dropped
<1>5. DroppedOld'
  <2> SUFFICES ASSUME NEW i \in 1..n, i < d + c PROVE births[i] >= RateWindow
    BY <1>1, <1>4 DEF DroppedOld
  <2>1. CASE i < d BY <2>1 DEF GateInv, DroppedOld
  <2>2. CASE i >= d
    <3> SUFFICES ASSUME births[i] < RateWindow PROVE FALSE
      BY <1>3
    <3>1. i < n BY <1>2, <1>3, <1>4
    <3>2. times[i + 1 - d] <= births[i]
      BY <2>2, <3>1 DEF GateInv, DequeFollows
    <3>3. i + 1 - d \in 1..c BY <1>3, <1>4, <2>2
    <3>4. times[i + 1 - d] >= RateWindow + lag BY <1>2, <3>3
    <3>5. times[i + 1 - d] \in Nat
      <4>1. i + 1 - d \in 1..Len(times) BY <1>2, <1>3, <3>3
      <4> QED BY <4>1, Lengths
    <3> QED BY <1>3, <3>2, <3>4, <3>5
  <2> QED BY <1>3, <1>4, <2>1, <2>2
<1>6. DequeFollows'
  <2> SUFFICES ASSUME NEW i \in 1..n, i >= d + c, i < n, births[i] < RateWindow
               PROVE  Fresh[i + 1 - (d + c)] <= births[i]
    BY <1>1, <1>4 DEF DequeFollows
  <2>1. times[i + 1 - d] <= births[i]
    BY <1>3, <1>4 DEF GateInv, DequeFollows
  <2>2. i + 1 - (d + c) \in 1..(Len(times) - c) BY <1>2, <1>3, <1>4
  <2>3. Fresh[i + 1 - (d + c)] = times[c + (i + 1 - (d + c))] BY <1>2, <2>2
  <2>4. c + (i + 1 - (d + c)) = i + 1 - d BY <1>3, <1>4
  <2> QED BY <2>1, <2>3, <2>4
<1>7. LagFollows' BY <1>1 DEF GateInv, LagFollows
<1>8. Admitted' BY <1>1 DEF Admitted
<1>9. BurstBounded' BY <1>1 DEF GateInv, BurstBounded
<1>10. (dropped >= 0)' BY <1>3, <1>4
<1> QED BY <1>5, <1>6, <1>7, <1>8, <1>9, <1>10 DEF GateInv

LEMMA GateCreate ==
  ASSUME TypeOK, GateInv, CreateCandidate
  PROVE  GateInv'
<1> USE ConstantTypes
<1> DEFINE n == Len(births)
           k == Len(times)
<1>1. CASE Identity(message) \in devices
  BY <1>1, GateUnchanged DEF CreateCandidate, Done, gate
<1>2. CASE Identity(message) \notin devices
  <2>1. /\ births' = Append(births, 0) /\ times' = Append(times, lag)
        /\ pc = "create" /\ pc' = "classify"
    BY <1>2 DEF CreateCandidate, record_candidate
  <2>2. /\ n \in Nat /\ k \in Nat /\ dropped = n - k
        /\ \A i \in 1..n : births[i] \in 0..RateWindow
        /\ lag \in Nat
    BY Lengths DEF dropped, TypeOK
  <2>3. /\ Len(births') = n + 1 /\ births'[n + 1] = 0
        /\ \A i \in 1..n : births'[i] = births[i]
    BY <2>1 DEF TypeOK
  <2>4. /\ Len(times') = k + 1 /\ times'[k + 1] = lag
        /\ \A j \in 1..k : times'[j] = times[j]
    BY <2>1 DEF TypeOK
  <2>5. dropped' = dropped /\ dropped >= 0 /\ k < RateLimit
    BY <2>1, <2>2, <2>3, <2>4 DEF dropped, GateInv, Admitted
  <2>6. DroppedOld'
    <3> SUFFICES ASSUME NEW i \in 1..(n + 1), i < dropped
                 PROVE  births'[i] >= RateWindow
      BY <2>3, <2>5 DEF DroppedOld
    <3>1. i \in 1..n BY <2>2
    <3> QED BY <2>3, <3>1 DEF GateInv, DroppedOld
  <2>7. DequeFollows'
    <3> SUFFICES ASSUME NEW i \in 1..(n + 1), i >= dropped, i < n + 1,
                        births'[i] < RateWindow
                 PROVE  times'[i + 1 - dropped] <= births'[i]
      BY <2>3, <2>5 DEF DequeFollows
    <3>1. i \in 1..n /\ births'[i] = births[i] BY <2>2, <2>3
    <3>2. CASE i < n
      <4>1. i + 1 - dropped \in 1..k BY <2>2, <3>1, <3>2
      <4> QED BY <2>4, <3>1, <3>2, <4>1 DEF GateInv, DequeFollows
    <3>3. CASE i = n
      <4>1. i + 1 - dropped = k + 1 BY <2>2, <3>3
      <4>2. lag <= births[n]
        BY <2>1, <2>2, <3>1, <3>3 DEF GateInv, LagFollows
      <4> QED BY <2>4, <3>1, <3>3, <4>1, <4>2
    <3> QED BY <2>2, <3>1, <3>2, <3>3
  <2>8. BurstBounded'
    <3> SUFFICES ASSUME n + 1 > RateLimit + 1
                 PROVE  births'[n + 1 - RateLimit - 1] >= RateWindow
      BY <2>3 DEF BurstBounded
    <3>1. n + 1 - RateLimit - 1 \in 1..n /\ n + 1 - RateLimit - 1 < dropped
      BY <2>2, <2>5
    <3> QED BY <2>3, <3>1 DEF GateInv, DroppedOld
  <2>9. Admitted' /\ LagFollows' BY <2>1 DEF Admitted, LagFollows
  <2> QED BY <2>5, <2>6, <2>7, <2>8, <2>9 DEF GateInv
<1> QED BY <1>1, <1>2

LEMMA GateTick ==
  ASSUME TypeOK, GateInv, Tick
  PROVE  GateInv'
<1> USE ConstantTypes
<1> DEFINE n == Len(births)
           k == Len(times)
<1>1. /\ n \in Nat /\ k \in Nat /\ dropped = n - k
      /\ \A i \in 1..n : births[i] \in 0..RateWindow
      /\ \A j \in 1..k : times[j] \in 0..Horizon
      /\ lag \in Nat
  BY Lengths DEF dropped, TypeOK
<1>2. /\ Len(births') = n
      /\ \A i \in 1..n : births'[i] = Older(births[i], RateWindow)
  BY AgedTimes DEF Tick, TypeOK
<1>3. /\ Len(times') = k
      /\ \A j \in 1..k : times'[j] = Older(times[j], Horizon)
  BY AgedTimes DEF Tick, TypeOK
<1>4. dropped' = dropped /\ dropped >= 0 /\ pc' = pc
  BY <1>1, <1>2, <1>3 DEF dropped, GateInv, Tick
<1>5. \A i \in 1..n : /\ births[i] \in Nat /\ births'[i] \in Nat
                      /\ births'[i] >= births[i]
                      /\ births'[i] < RateWindow =>
                           births[i] < RateWindow /\ births'[i] = births[i] + 1
  BY <1>1, <1>2 DEF Older
<1>6. \A j \in 1..k : /\ times[j] \in Nat /\ times'[j] \in Nat
                      /\ times'[j] <= times[j] + 1
  BY <1>1, <1>3 DEF Older
<1>7. DroppedOld'
  <2> SUFFICES ASSUME NEW i \in 1..n, i < dropped
               PROVE  births'[i] >= RateWindow
    BY <1>2, <1>4 DEF DroppedOld
  <2>1. births[i] >= RateWindow BY DEF GateInv, DroppedOld
  <2> QED BY <1>1, <1>2, <2>1 DEF Older
<1>8. DequeFollows'
  <2> SUFFICES ASSUME NEW i \in 1..n, i >= dropped, i < n,
                      births'[i] < RateWindow
               PROVE  times'[i + 1 - dropped] <= births'[i]
    BY <1>2, <1>4 DEF DequeFollows
  <2>1. i + 1 - dropped \in 1..k BY <1>1
  <2>2. times[i + 1 - dropped] <= births[i]
    BY <1>5 DEF GateInv, DequeFollows
  <2> DEFINE j == i + 1 - dropped
  <2>3. j \in 1..k /\ times[j] <= births[i] BY <2>1, <2>2
  <2>4. births'[i] = births[i] + 1 /\ births[i] \in Nat BY <1>5
  <2> HIDE DEF j
  <2>5. times'[j] <= births'[i] BY <1>6, <2>3, <2>4
  <2> QED BY <2>5 DEF j
<1>9. LagFollows'
  <2> SUFFICES ASSUME pc \in {"lookup", "create"}, n > 0, births'[n] < RateWindow
               PROVE  lag' <= births'[n]
    BY <1>2, <1>4 DEF LagFollows
  <2>1. n \in 1..n /\ lag' = lag + 1 BY <1>1 DEF Tick
  <2>2. lag <= births[n] BY <1>5, <2>1 DEF GateInv, LagFollows
  <2> QED BY <1>1, <1>5, <2>1, <2>2
<1>10. Admitted' BY <1>3, <1>4 DEF GateInv, Admitted
<1>11. BurstBounded'
  <2> SUFFICES ASSUME n > RateLimit + 1
               PROVE  births'[n - RateLimit - 1] >= RateWindow
    BY <1>2 DEF BurstBounded
  <2> DEFINE i == n - RateLimit - 1
  <2>1. i \in 1..n BY <1>1
  <2>2. births[i] >= RateWindow BY DEF GateInv, BurstBounded
  <2> HIDE DEF i
  <2>3. births'[i] >= RateWindow BY <1>5, <2>1, <2>2
  <2> QED BY <2>3 DEF i
<1> QED BY <1>4, <1>7, <1>8, <1>9, <1>10, <1>11 DEF GateInv

LEMMA GateStep == TypeOK /\ GateInv /\ [Next]_vars => GateInv'
<1> SUFFICES ASSUME TypeOK, GateInv, [Next]_vars PROVE GateInv' OBVIOUS
<1>1. ASSUME NEW m \in Messages, Publish(m) PROVE GateInv'
  BY <1>1, GateUnchanged DEF Publish, task, gate
<1>2. CASE Receive
  <2>1. times' = times /\ births' = births BY <1>2 DEF Receive, gate
  <2>2. \/ pc' = "lookup" /\ lag' = 0
        \/ pc' = pc /\ lag' = lag
    <3> DEFINE go == Admissible(Head(inbox)) /\ ~is_duplicate(Head(inbox).topic)
    <3>1. CASE go BY <1>2, <3>1 DEF Receive
    <3>2. CASE ~go BY <1>2, <3>2 DEF Receive, task
    <3> QED BY <3>1, <3>2
  <2> QED BY <2>1, <2>2, GateUnchanged
<1>3. CASE Existing BY <1>3, GateUnchanged DEF Existing, Done, gate
<1>4. CASE Admit BY <1>4, GateAdmit
<1>5. CASE CreateCandidate BY <1>5, GateCreate
<1>6. CASE Classify BY <1>6, GateUnchanged DEF Classify, Done, gate
<1>7. CASE Raise BY <1>7, GateUnchanged DEF Raise, Done, gate
<1>8. CASE Disconnect BY <1>8, GateUnchanged DEF Disconnect, task, gate
<1>9. CASE Connect BY <1>9, GateUnchanged DEF Connect, task, gate
<1>10. CASE Restart
  <2>1. Len(births') = 0 /\ Len(times') = 0 /\ pc' = "idle"
    BY <1>10 DEF Restart, Done
  <2> QED
    BY <2>1, ConstantTypes
    DEF GateInv, Admitted, dropped, DroppedOld, DequeFollows, LagFollows,
        BurstBounded
<1>11. ASSUME NEW d \in WellFormed, CreateDevice(d) PROVE GateInv'
  BY <1>11, GateUnchanged DEF CreateDevice, task, gate
<1>12. CASE Tick BY <1>12, GateTick
<1>13. CASE UNCHANGED vars BY <1>13, GateUnchanged DEF vars
<1> QED
  BY <1>1, <1>2, <1>3, <1>4, <1>5, <1>6, <1>7, <1>8, <1>9, <1>10, <1>11,
     <1>12, <1>13 DEF Next, Loop

-----------------------------------------------------------------------------
(* The loop and its gate never leave their types: no more than RateLimit    *)
(* times are kept, and only admissible messages are worked on.              *)
THEOREM TypeCorrect == Spec => []TypeOK
<1>1. Init => TypeOK /\ GateInv BY TypeInit, GateInit
<1>2. TypeOK /\ GateInv /\ [Next]_vars => TypeOK' /\ GateInv'
  BY TypeStep, GateStep DEF GateInv
<1> QED BY <1>1, <1>2, PTL DEF Spec

(* FR-325: however long a message is handled, at most one candidate more    *)
(* than the limit is created in any window.                                 *)
THEOREM BurstsBounded == Spec => []BurstBounded
<1>1. Init => TypeOK /\ GateInv BY TypeInit, GateInit
<1>2. TypeOK /\ GateInv /\ [Next]_vars => TypeOK' /\ GateInv'
  BY TypeStep, GateStep DEF GateInv
<1>3. GateInv => BurstBounded BY DEF GateInv
<1> QED BY <1>1, <1>2, <1>3, PTL DEF Spec

-----------------------------------------------------------------------------
(* The refinement of RateBound.                                            *)

LEMMA LatestAges ==
  ASSUME NEW s \in Seq(0..RateWindow)
  PROVE  /\ Latest(s) \in Seq(0..RateWindow)
         /\ \E m \in 0..Len(s) :
              /\ Len(Latest(s)) = Len(s) - m
              /\ \A i \in 1..(Len(s) - m) : Latest(s)[i] = s[m + i]
              /\ Len(s) <= RateLimit + 1 => m = 0
              /\ Len(s) > RateLimit + 1 => m = Len(s) - RateLimit - 1
<1> USE ConstantTypes
<1> DEFINE n == Len(s)
<1>1. n \in Nat /\ \A i \in 1..n : s[i] \in 0..RateWindow
  BY LenProperties, ElementOfSeq
<1>2. CASE n <= RateLimit + 1
  <2>1. Latest(s) = s BY <1>2 DEF Latest
  <2>2. 0 \in 0..n /\ n - 0 = n /\ \A i \in 1..n : 0 + i = i BY <1>1
  <2>3. ~(n > RateLimit + 1) BY <1>1, <1>2
  <2> HIDE DEF n
  <2> QED BY <2>1, <2>2, <2>3, <1>2 DEF n
<1>3. CASE n > RateLimit + 1
  <2> DEFINE m == n - RateLimit - 1
  <2>1. Latest(s) = SubSeq(s, n - RateLimit, n) BY <1>1, <1>3 DEF Latest
  <2>2. /\ m \in 0..n /\ n - m = RateLimit + 1
        /\ \A i \in 1..(n - m) : n - RateLimit + i - 1 = m + i
        /\ n - (n - RateLimit) + 1 = n - m
        /\ n - RateLimit \in Int /\ n - RateLimit <= n + 1
        /\ \A i \in (n - RateLimit)..n : i \in 1..n
    BY <1>1, <1>3
  <2>3. /\ SubSeq(s, n - RateLimit, n) \in Seq(0..RateWindow)
        /\ Len(SubSeq(s, n - RateLimit, n)) = n - m
        /\ \A i \in 1..(n - m) :
             SubSeq(s, n - RateLimit, n)[i] = s[n - RateLimit + i - 1]
    BY <1>1, <2>2, SubSeqProperties
  <2>4. \A i \in 1..(n - m) : Latest(s)[i] = s[m + i] BY <2>1, <2>2, <2>3
  <2>5. ~(n <= RateLimit + 1) BY <1>1, <1>3
  <2> QED BY <1>3, <2>1, <2>2, <2>3, <2>4, <2>5
<1> QED BY <1>1, <1>2, <1>3

(* Time passes for the latest candidates as for all.                       *)
LEMMA TickPasses ==
  ASSUME TypeOK, Tick
  PROVE  Promise!Pass
<1> USE ConstantTypes
<1> DEFINE old == Latest(births)
           new == Latest(births')
           n   == Len(births)
<1>1. /\ births' \in Seq(0..RateWindow) /\ Len(births') = n /\ n \in Nat
      /\ \A i \in 1..n : births'[i] = Older(births[i], RateWindow)
      /\ \A i \in 1..n : births[i] \in 0..RateWindow
  BY AgedTimes, Lengths DEF Tick, TypeOK
<1>2. PICK m \in 0..n :
        /\ Len(old) = n - m
        /\ \A i \in 1..(n - m) : old[i] = births[m + i]
        /\ n <= RateLimit + 1 => m = 0
        /\ n > RateLimit + 1 => m = n - RateLimit - 1
  BY LatestAges DEF TypeOK
<1>3. /\ Len(new) = n - m
      /\ \A i \in 1..(n - m) : new[i] = births'[m + i]
  <2>1. PICK k \in 0..n :
          /\ Len(new) = n - k
          /\ \A i \in 1..(n - k) : new[i] = births'[k + i]
          /\ n <= RateLimit + 1 => k = 0
          /\ n > RateLimit + 1 => k = n - RateLimit - 1
    BY <1>1, LatestAges
  <2>2. k = m BY <1>1, <1>2, <2>1
  <2> QED BY <2>1, <2>2
<1>4. old \in Seq(0..RateWindow) /\ new \in Seq(0..RateWindow)
  BY <1>1, LatestAges DEF TypeOK
<1>5. \A i \in 1..(n - m) :
        new[i] = IF old[i] < RateWindow THEN old[i] + 1 ELSE RateWindow
  <2> SUFFICES ASSUME NEW i \in 1..(n - m)
               PROVE  new[i] = IF old[i] < RateWindow THEN old[i] + 1
                               ELSE RateWindow
    OBVIOUS
  <2>1. m + i \in 1..n BY <1>1
  <2>2. /\ new[i] = Older(births[m + i], RateWindow)
        /\ old[i] = births[m + i] /\ births[m + i] \in 0..RateWindow
    BY <1>1, <1>2, <1>3, <2>1
  <2> QED BY <2>2 DEF Older
<1>6. DOMAIN old = 1..(n - m) /\ DOMAIN new = 1..(n - m)
  BY <1>2, <1>3, <1>4, LenProperties
<1>7. new = [i \in DOMAIN old |->
               IF old[i] < RateWindow THEN old[i] + 1 ELSE RateWindow]
  <2>1. new = [i \in DOMAIN new |-> new[i]] BY <1>4, LenProperties
  <2> HIDE DEF new, old
  <2> QED BY <1>5, <1>6, <2>1
<1> QED BY <1>7 DEF Promise!Pass

(* A candidate is an event that RateBound allows.                          *)
LEMMA CreateOccurs ==
  ASSUME TypeOK, GateInv, CreateCandidate
  PROVE  Promise!Occur \/ UNCHANGED births
<1> USE ConstantTypes
<1> DEFINE old == Latest(births)
           new == Latest(births')
           n   == Len(births)
           B   == RateLimit + 1
<1>1. SUFFICES ASSUME births' = Append(births, 0)
               PROVE  Promise!Occur
  BY DEF CreateCandidate
<1>2. /\ births' \in Seq(0..RateWindow) /\ Len(births') = n + 1 /\ n \in Nat
      /\ \A i \in 1..n : births'[i] = births[i]
      /\ births'[n + 1] = 0
  BY <1>1 DEF TypeOK
<1>3. PICK m \in 0..n :
        /\ Len(old) = n - m
        /\ \A i \in 1..(n - m) : old[i] = births[m + i]
        /\ n <= B => m = 0
        /\ n > B => m = n - RateLimit - 1
  BY LatestAges DEF TypeOK
<1>4. PICK k \in 0..(n + 1) :
        /\ Len(new) = n + 1 - k
        /\ \A i \in 1..(n + 1 - k) : new[i] = births'[k + i]
        /\ n + 1 <= B => k = 0
        /\ n + 1 > B => k = n + 1 - RateLimit - 1
  <2>1. PICK k \in 0..Len(births') :
          /\ Len(new) = Len(births') - k
          /\ \A i \in 1..(Len(births') - k) : new[i] = births'[k + i]
          /\ Len(births') <= RateLimit + 1 => k = 0
          /\ Len(births') > RateLimit + 1 => k = Len(births') - RateLimit - 1
    BY <1>2, LatestAges
  <2>2. Len(births') = n + 1 /\ n \in Nat BY <1>2
  <2>3. k \in 0..(n + 1) BY <2>1, <2>2
  <2> HIDE DEF n, new
  <2>4. /\ Len(new) = n + 1 - k
        /\ \A i \in 1..(n + 1 - k) : new[i] = births'[k + i]
    BY <2>1, <2>2
  <2>5. n + 1 <= B => k = 0 BY <2>1, <2>2
  <2>6. n + 1 > B => k = n + 1 - RateLimit - 1 BY <2>1, <2>2
  <2> QED BY <2>3, <2>4, <2>5, <2>6
<1>5. old \in Seq(0..RateWindow) /\ new \in Seq(0..RateWindow)
  BY <1>2, LatestAges DEF TypeOK
<1>9. n \in Nat BY <1>2
<1> HIDE DEF old, new, n
<1>6. CASE n < B
  <2>1. m = 0 /\ k = 0 /\ Len(old) = n /\ Len(new) = n + 1
    BY <1>2, <1>3, <1>4, <1>6
  <2>2. \A i \in 1..(n + 1) : new[i] = Append(old, 0)[i]
    <3> SUFFICES ASSUME NEW i \in 1..(n + 1) PROVE new[i] = Append(old, 0)[i]
      OBVIOUS
    <3>1. new[i] = births'[i] BY <1>2, <1>4, <2>1
    <3>2. CASE i = n + 1 BY <1>2, <1>5, <2>1, <3>1, <3>2
    <3>3. CASE i \in 1..n
      <4>1. old[i] = births[i] BY <1>2, <1>3, <2>1, <3>3
      <4> QED BY <1>2, <1>5, <2>1, <3>1, <3>3, <4>1
    <3>4. i = n + 1 \/ i \in 1..n BY <1>9
    <3> QED BY <3>2, <3>3, <3>4
  <2>3. Append(old, 0) \in Seq(0..RateWindow) /\ Len(Append(old, 0)) = n + 1
    BY <1>5, <2>1
  <2>4. new = Append(old, 0) BY <1>5, <2>1, <2>2, <2>3, SeqEqual
  <2> QED BY <1>6, <2>1, <2>4 DEF Promise!Occur, old, new
<1>7. CASE n >= B
  <2>1. /\ m = n - RateLimit - 1 /\ k = m + 1
        /\ Len(old) = B /\ Len(new) = B /\ m \in Nat
    BY <1>9, <1>3, <1>4, <1>7
  <2>2. old[1] >= RateWindow
    <3>1. GateInv' BY GateCreate
    <3>2. births'[m + 1] >= RateWindow
      <4>1. n + 1 > B /\ n + 1 - RateLimit - 1 = m + 1
        BY <1>9, <1>7, <2>1
      <4> QED BY <1>2, <3>1, <4>1 DEF GateInv, BurstBounded
    <3>3. m + 1 \in 1..n /\ 1 \in 1..(n - m) BY <1>9, <1>3, <1>7, <2>1
    <3> QED BY <1>2, <1>3, <3>2, <3>3
  <2>3. /\ Tail(old) \in Seq(0..RateWindow) /\ Len(Tail(old)) = RateLimit
        /\ \A i \in 1..RateLimit : Tail(old)[i] = old[i + 1]
    <3>1. old # <<>> BY <2>1, EmptySeq
    <3> QED BY <1>5, <2>1, <3>1, HeadTailProperties
  <2>4. \A i \in 1..B : new[i] = Append(Tail(old), 0)[i]
    <3> SUFFICES ASSUME NEW i \in 1..B PROVE new[i] = Append(Tail(old), 0)[i]
      OBVIOUS
    <3>1. new[i] = births'[m + 1 + i] BY <1>2, <1>4, <2>1
    <3>2. CASE i = B
      <4>1. m + 1 + i = n + 1 BY <1>9, <2>1, <3>2
      <4> QED BY <1>2, <2>3, <3>1, <3>2, <4>1
    <3>3. CASE i \in 1..RateLimit
      <4>1. i + 1 \in 1..(n - m) /\ m + (i + 1) = m + 1 + i
            /\ m + 1 + i \in 1..n
        BY <1>9, <2>1, <3>3
      <4>2. old[i + 1] = births[m + 1 + i] BY <1>3, <4>1
      <4> QED BY <1>2, <2>3, <3>1, <3>3, <4>1, <4>2
    <3>4. i = B \/ i \in 1..RateLimit OBVIOUS
    <3> QED BY <3>2, <3>3, <3>4
  <2>5. /\ Append(Tail(old), 0) \in Seq(0..RateWindow)
        /\ Len(Append(Tail(old), 0)) = B
    BY <2>3
  <2>6. new = Append(Tail(old), 0) BY <1>5, <2>1, <2>4, <2>5, SeqEqual
  <2> QED BY <2>1, <2>2, <2>6 DEF Promise!Occur, old, new
<1> QED BY <1>9, <1>6, <1>7

(* The candidates of the loop keep the promise of RateBound: every step     *)
(* lets time pass, creates a candidate that is allowed, forgets, or         *)
(* stutters.                                                               *)
THEOREM Implements == Spec => PromiseKept
<1>1. Init => Promise!Init
  <2> SUFFICES ASSUME Init PROVE Latest(births) = <<>> BY DEF Promise!Init
  <2>1. births = <<>> /\ Len(births) = 0 BY DEF Init
  <2> QED BY <2>1, ConstantTypes DEF Latest
<1>2. TypeOK /\ GateInv /\ [Next]_vars => [Promise!Next]_(Latest(births))
  <2> SUFFICES ASSUME TypeOK, GateInv, [Next]_vars
               PROVE  [Promise!Next]_(Latest(births))
    OBVIOUS
  <2>1. CASE Tick BY <2>1, TickPasses DEF Promise!Next
  <2>2. CASE CreateCandidate BY <2>2, CreateOccurs DEF Promise!Next
  <2>3. CASE Restart
    <3>1. births' = <<>> /\ Len(births') = 0 BY <2>3 DEF Restart
    <3>2. Latest(births') = <<>> BY <3>1, ConstantTypes DEF Latest
    <3> QED BY <3>2 DEF Promise!Next, Promise!Forget
  <2>4. CASE UNCHANGED births BY <2>4
  <2> QED
    BY <2>1, <2>2, <2>3, <2>4
    DEF Next, Loop, vars, Publish, Receive, Existing, Admit, Classify, Raise,
        Disconnect, Connect, CreateDevice
<1>3. Init => TypeOK /\ GateInv BY TypeInit, GateInit
<1>4. TypeOK /\ GateInv /\ [Next]_vars => TypeOK' /\ GateInv'
  BY TypeStep, GateStep DEF GateInv
<1> QED BY <1>1, <1>2, <1>3, <1>4, PTL DEF Spec, PromiseKept, Promise!Spec
=============================================================================
