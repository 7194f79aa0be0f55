----------------------- MODULE SlidingWindowTheorems -----------------------
(***************************************************************************)
(* Facts about the operators of SlidingWindow.                             *)
(***************************************************************************)
EXTENDS SlidingWindow, WellFoundedInduction, SequenceTheorems, TLAPS

(* A non-empty set of naturals has a least element.                        *)
LEMMA MinOfNats ==
  ASSUME NEW S \in SUBSET Nat, S # {}
  PROVE  Min(S) \in S /\ \A j \in S : Min(S) <= j
<1>1. PICK x \in S : \A y \in S : ~(<<y, x>> \in OpToRel(<, Nat))
  BY NatLessThanWellFounded, WFMin
<1>2. \A y \in S : ~(y < x)
  BY <1>1 DEF OpToRel
<1>3. \A y \in S : x <= y BY <1>2
<1>4. \E m \in S : \A y \in S : m =< y BY <1>3
<1> QED BY <1>4 DEF Min

(* Trimmed drops a prefix of entries that are as old as the window, and     *)
(* nothing else.                                                           *)
LEMMA TrimmedDropsOld ==
  ASSUME NEW horizon \in Nat, NEW times \in Seq(0..horizon), NEW window \in Nat
  PROVE  /\ Trimmed(times, window) \in Seq(0..horizon)
         /\ \E c \in 0..Len(times) :
              /\ Len(Trimmed(times, window)) = Len(times) - c
              /\ \A j \in 1..(Len(times) - c) :
                   Trimmed(times, window)[j] = times[c + j]
              /\ \A j \in 1..c : times[j] >= window
<1> DEFINE n == Len(times)
           Live == {i \in DOMAIN times : times[i] < window}
<1>1. n \in Nat /\ DOMAIN times = 1..n BY LenProperties
<1>2. \A i \in 1..n : times[i] \in 0..horizon BY ElementOfSeq
<1>3. CASE Live = {}
  <2>1. Trimmed(times, window) = <<>> BY <1>3 DEF Trimmed
  <2>2. \A j \in 1..n : times[j] >= window BY <1>1, <1>2, <1>3
  <2>3. n \in 0..n /\ n - n = 0 BY <1>1
  <2>4. Len(<<>>) = n - n /\ 1..(n - n) = {} BY <1>1, <2>3
  <2>5. <<>> \in Seq(0..horizon) OBVIOUS
  <2> QED BY <2>1, <2>2, <2>3, <2>4, <2>5
<1>4. CASE Live # {}
  <2> DEFINE f == Min(Live)
  <2>1. Live \in SUBSET Nat BY <1>1
  <2>2. f \in Live /\ \A j \in Live : f <= j BY <1>4, <2>1, MinOfNats
  <2>3. f \in 1..n BY <2>2, <1>1
  <2>4. Trimmed(times, window) = SubSeq(times, f, n) BY <1>4 DEF Trimmed
  <2> HIDE DEF f
  <2>5. \A i \in f..n : times[i] \in 0..horizon BY <1>1, <1>2, <2>3
  <2>6. /\ SubSeq(times, f, n) \in Seq(0..horizon)
        /\ Len(SubSeq(times, f, n)) = n - f + 1
        /\ \A i \in 1..(n - f + 1) : SubSeq(times, f, n)[i] = times[f + i - 1]
    BY <1>1, <2>3, <2>5, SubSeqProperties
  <2>7. \A j \in 1..(f - 1) : times[j] >= window
    <3> SUFFICES ASSUME NEW j \in 1..(f - 1) PROVE times[j] >= window
      OBVIOUS
    <3>1. j \in 1..n /\ j < f BY <1>1, <2>3
    <3>2. j \notin Live BY <2>2, <2>3, <3>1
    <3>3. times[j] \in Nat BY <1>2, <3>1
    <3> QED BY <1>1, <3>1, <3>2, <3>3
  <2>8. /\ f - 1 \in 0..n
        /\ n - (f - 1) = n - f + 1
        /\ \A i \in 1..(n - f + 1) : (f - 1) + i = f + i - 1
    BY <1>1, <2>3
  <2>9. /\ Len(SubSeq(times, f, n)) = n - (f - 1)
        /\ \A i \in 1..(n - (f - 1)) : SubSeq(times, f, n)[i] = times[(f - 1) + i]
    BY <2>6, <2>8
  <2> HIDE DEF n
  <2> QED BY <2>4, <2>6, <2>7, <2>8, <2>9 DEF n
<1> QED BY <1>3, <1>4

(* What is left of a window starts with an entry that is within it.         *)
LEMMA TrimmedIsLive ==
  ASSUME NEW horizon \in Nat, NEW times \in Seq(0..horizon), NEW window \in Nat,
         Trimmed(times, window) # <<>>
  PROVE  Trimmed(times, window)[1] < window
<1> DEFINE n == Len(times)
           Live == {i \in DOMAIN times : times[i] < window}
           f == Min(Live)
<1>1. n \in Nat /\ DOMAIN times = 1..n /\ \A i \in 1..n : times[i] \in 0..horizon
  BY LenProperties, ElementOfSeq
<1>2. Live # {} BY DEF Trimmed
<1>3. f \in Live
  <2>1. Live \in SUBSET Nat BY <1>1
  <2> QED BY <1>2, <2>1, MinOfNats
<1>4. f \in 1..n /\ times[f] < window BY <1>1, <1>3
<1>5. Trimmed(times, window) = SubSeq(times, f, n) BY <1>2 DEF Trimmed
<1> HIDE DEF f
<1>6. \A i \in f..n : times[i] \in 0..horizon BY <1>1, <1>4
<1>7. \A i \in 1..(n - f + 1) : SubSeq(times, f, n)[i] = times[f + i - 1]
  BY <1>1, <1>4, <1>6, SubSeqProperties
<1>8. 1 \in 1..(n - f + 1) /\ f + 1 - 1 = f BY <1>1, <1>4
<1>9. SubSeq(times, f, n)[1] = times[f] BY <1>7, <1>8
<1> QED BY <1>4, <1>5, <1>9

(* Growing older keeps the length of a window, and its order.              *)
LEMMA AgedTimes ==
  ASSUME NEW horizon \in Nat, NEW times \in Seq(0..horizon)
  PROVE  /\ Aged(times, horizon) \in Seq(0..horizon)
         /\ Len(Aged(times, horizon)) = Len(times)
         /\ \A j \in 1..Len(times) :
              Aged(times, horizon)[j] = Older(times[j], horizon)
<1>1. Len(times) \in Nat /\ DOMAIN times = 1..Len(times) BY LenProperties
<1>2. \A i \in 1..Len(times) : times[i] \in 0..horizon BY ElementOfSeq
<1>3. \A i \in 1..Len(times) : Older(times[i], horizon) \in 0..horizon
  BY <1>2 DEF Older
<1>4. Aged(times, horizon) = [i \in 1..Len(times) |-> Older(times[i], horizon)]
  BY <1>1 DEF Aged
<1> QED BY <1>1, <1>3, <1>4
=============================================================================
