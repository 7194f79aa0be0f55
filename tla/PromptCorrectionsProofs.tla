---------------------- MODULE PromptCorrectionsProofs ----------------------
(***************************************************************************)
(* The prompt cap keeps the longest prefix that fits, for any number of    *)
(* corrections and any lengths, and every answered prompt is accounted     *)
(* for in applied_count or among the answers that are not persisted.       *)
(***************************************************************************)
EXTENDS PromptCorrections, FiniteSetTheorems, TLAPS

Context == Ids \cup {Hint}

-----------------------------------------------------------------------------
(* Prefixes of the contexts of a run r.                                    *)

LEMMA ContextsType ==
  ASSUME NEW r \in Run
  PROVE  Contexts(r) \in Seq(Context)
<1>1. r.rows \in Seq(Ids) /\ r.rows \in Seq(Context) BY DEF Run, Context
<1>2. <<Hint>> \in Seq(Context) BY DEF Context
<1> QED BY <1>1, <1>2 DEF Contexts

LEMMA PrefixIs ==
  ASSUME NEW r \in Run, NEW k \in 0..Len(Contexts(r))
  PROVE  Prefix(r, k) = {Contexts(r)[i] : i \in 1..k}
<1> DEFINE s == Contexts(r)
<1>1. s \in Seq(Context) BY ContextsType
<1> HIDE DEF s
<1>2. /\ DOMAIN SubSeq(s, 1, k) = 1..k
      /\ \A i \in 1..k : SubSeq(s, 1, k)[i] = s[i]
  BY <1>1 DEF s
<1>3. Range(SubSeq(s, 1, k)) = {s[i] : i \in 1..k} BY <1>2 DEF Range
<1> QED BY <1>3 DEF Prefix, s

LEMMA PrefixGrows ==
  ASSUME NEW r \in Run, NEW j \in 0..Len(Contexts(r)), NEW i \in 0..j
  PROVE  Prefix(r, i) \subseteq Prefix(r, j) /\ Prefix(r, j) \subseteq Context
<1>1. Contexts(r) \in Seq(Context) BY ContextsType
<1>2. i \in 0..Len(Contexts(r)) BY <1>1
<1>3. \A k \in 1..j : Contexts(r)[k] \in Context BY <1>1
<1>4. 1..i \subseteq 1..j OBVIOUS
<1> QED BY <1>2, <1>3, <1>4, PrefixIs

(* Rendered size is monotonic in the prefix length.                        *)
LEMMA ShorterFits ==
  ASSUME NEW r \in Run, r.device \in Devices,
         NEW j \in 0..Len(Contexts(r)), NEW i \in 0..j, Fits(r, j)
  PROVE  Fits(r, i)
<1>1. Prefix(r, i) \subseteq Prefix(r, j) /\ Prefix(r, j) \subseteq Context
  BY PrefixGrows
<1>2. Rendered[r.device][Prefix(r, i)] <= Rendered[r.device][Prefix(r, j)]
  BY <1>1, RenderedGrows DEF Context
<1>3. /\ Rendered[r.device][Prefix(r, i)] \in Nat
      /\ Rendered[r.device][Prefix(r, j)] \in Nat /\ Cap \in Nat
  BY <1>1, PromptAssumption DEF Context
<1> QED BY <1>2, <1>3 DEF Fits

(* The positions of the rows kept, found by the offset, are those of the   *)
(* contexts kept that have a row.                                          *)
LEMMA AppliedAreKept ==
  ASSUME NEW r \in Run, r.best <= Len(Contexts(r)), NEW k \in Ids
  PROVE  k \in applied_ids(r) <=> k \in Kept(r)
<1>1. r.rows \in Seq(Ids) /\ r.best \in Nat BY DEF Run
<1>2. Contexts(r) \in Seq(Context) BY ContextsType
<1>3. r.best \in 0..Len(Contexts(r)) BY <1>1, <1>2
<1>4. Kept(r) = {Contexts(r)[i] : i \in 1..r.best}
  BY <1>3, PrefixIs DEF Kept
<1>5. k # Hint BY PromptAssumption DEF Ids, Hint
<1>6. CASE r.hint
  <2>1. Contexts(r) = <<Hint>> \o r.rows BY <1>6 DEF Contexts
  <2>2. /\ Len(Contexts(r)) = Len(r.rows) + 1
        /\ Contexts(r)[1] = Hint
        /\ \A i \in 1..Len(r.rows) : Contexts(r)[i + 1] = r.rows[i]
    BY <1>1, <2>1
  <2>3. ASSUME k \in applied_ids(r) PROVE k \in Kept(r)
    <3>1. PICK i \in DOMAIN r.rows : i <= r.best - 1 /\ k = r.rows[i]
      BY <2>3, <1>6 DEF applied_ids
    <3>2. i \in 1..Len(r.rows) BY <3>1, <1>1
    <3>3. i + 1 \in 1..r.best BY <3>1, <3>2, <1>1
    <3>4. k = Contexts(r)[i + 1] BY <3>1, <3>2, <2>2
    <3> QED BY <3>3, <3>4, <1>4
  <2>4. ASSUME k \in Kept(r) PROVE k \in applied_ids(r)
    <3>1. PICK j \in 1..r.best : k = Contexts(r)[j] BY <2>4, <1>4
    <3>2. j # 1 BY <3>1, <2>2, <1>5
    <3>3. /\ j - 1 \in DOMAIN r.rows /\ j - 1 <= r.best - 1
          /\ k = r.rows[j - 1]
      BY <3>1, <3>2, <1>1, <2>2
    <3> QED BY <3>3, <1>6 DEF applied_ids
  <2> QED BY <2>3, <2>4
<1>7. CASE ~r.hint
  <2>1. Contexts(r) = r.rows BY <1>7 DEF Contexts
  <2>2. {j \in DOMAIN r.rows : j <= r.best - 0} = 1..r.best
    BY <1>1, <1>3, <2>1
  <2> QED BY <2>1, <2>2, <1>4, <1>7 DEF applied_ids
<1> QED BY <1>6, <1>7

-----------------------------------------------------------------------------
(* The invariant: what is left of the search lies between a prefix that    *)
(* fits, or none, and one that does not.                                   *)

Bracket(r) ==
  LET n == Len(Contexts(r))
  IN /\ r.best <= n
     /\ r.best > 0 => Fits(r, r.best)
     /\ r.lo = r.best + 1 \/ (r.lo = 0 /\ r.best = 0)
     /\ r.hi >= -1 /\ r.hi <= n
     /\ \A k \in r.hi + 1 .. n : ~Fits(r, k)

Longest(r) ==
  LET n == Len(Contexts(r))
  IN /\ r.best <= n
     /\ r.best > 0 => Fits(r, r.best)
     /\ \A k \in r.best + 1 .. n : ~Fits(r, k)

Good(r) ==
  /\ r \in Run
  /\ r.pc # "idle" => r.device \in Devices
  /\ r.pc = "search" => Bracket(r)
  /\ r.pc \notin {"idle", "search"} => Longest(r)

(* A classification that is given one other local.                         *)
LEMMA RunField ==
  ASSUME NEW r \in Run
  PROVE  /\ \A x \in Stages : [r EXCEPT !.pc = x] \in Run
         /\ \A x \in Devices : [r EXCEPT !.device = x] \in Run
         /\ \A x \in BOOLEAN : [r EXCEPT !.hint = x] \in Run
         /\ \A x \in Seq(Ids) : [r EXCEPT !.rows = x] \in Run
         /\ \A x \in Nat : [r EXCEPT !.best = x] \in Run
         /\ \A x \in Nat : [r EXCEPT !.lo = x] \in Run
         /\ \A x \in Int : [r EXCEPT !.hi = x] \in Run
         /\ \A x \in Nat : [r EXCEPT !.stamp = x] \in Run
         /\ \A x \in Sources : [r EXCEPT !.source = x] \in Run
<1>1. \A x \in Stages : [r EXCEPT !.pc = x] \in Run
  BY DEF Run
<1>2. \A x \in Devices : [r EXCEPT !.device = x] \in Run BY DEF Run
<1>3. \A x \in BOOLEAN : [r EXCEPT !.hint = x] \in Run BY DEF Run
<1>4. \A x \in Seq(Ids) : [r EXCEPT !.rows = x] \in Run BY DEF Run
<1>5. \A x \in Nat : [r EXCEPT !.best = x] \in Run BY DEF Run
<1>6. \A x \in Nat : [r EXCEPT !.lo = x] \in Run BY DEF Run
<1>7. \A x \in Int : [r EXCEPT !.hi = x] \in Run BY DEF Run
<1>8. \A x \in Nat : [r EXCEPT !.stamp = x] \in Run BY DEF Run
<1>9. \A x \in Sources : [r EXCEPT !.source = x] \in Run BY DEF Run
<1> QED BY <1>1, <1>2, <1>3, <1>4, <1>5, <1>6, <1>7, <1>8, <1>9

LEMMA IdleGood == Good(Idle)
<1>1. <<>> \in Seq(Ids) OBVIOUS
<1> QED BY <1>1 DEF Good, Idle, Run, Stages, Sources

(* The record of a classification that is given other locals.              *)
LEMMA SameContexts ==
  ASSUME NEW r \in Run, NEW t \in Run,
         t.rows = r.rows, t.hint = r.hint, t.device = r.device
  PROVE  Contexts(t) = Contexts(r) /\ \A k : Fits(t, k) <=> Fits(r, k)
BY DEF Contexts, Fits, Prefix

LEMMA SameFound ==
  ASSUME NEW r \in Run, NEW t \in Run,
         t.rows = r.rows, t.hint = r.hint, t.device = r.device, t.best = r.best
  PROVE  Kept(t) = Kept(r) /\ (Longest(r) => Longest(t))
<1>1. Contexts(t) = Contexts(r) /\ \A k : Fits(t, k) <=> Fits(r, k)
  BY SameContexts
<1>2. Kept(t) = Kept(r) BY <1>1 DEF Kept, Prefix
<1>3. Longest(r) => Longest(t) BY <1>1 DEF Longest
<1> QED BY <1>2, <1>3

LEMMA CappedGood ==
  ASSUME NEW r \in Run, r.device \in Devices
  PROVE  Good(Capped(r))
<1> DEFINE n == Len(Contexts(r))
           a == [r EXCEPT !.pc = "loaded", !.best = n]
           b == [r EXCEPT !.pc = "search", !.best = 0, !.lo = 0, !.hi = n]
<1>1. n \in Nat BY ContextsType
<1> HIDE DEF n
<1>2. a \in Run /\ b \in Run
  <2>1. [r EXCEPT !.pc = "loaded"] \in Run BY RunField DEF Stages
  <2>2. a \in Run BY <1>1, <2>1, RunField
  <2>3. [r EXCEPT !.pc = "search"] \in Run BY RunField DEF Stages
  <2>4. [r EXCEPT !.pc = "search", !.best = 0] \in Run BY <2>3, RunField
  <2>5. [r EXCEPT !.pc = "search", !.best = 0, !.lo = 0] \in Run
    BY <2>4, RunField
  <2>6. n \in Int BY <1>1
  <2>7. b \in Run BY <2>5, <2>6, RunField
  <2> QED BY <2>2, <2>7
<1>3. CASE n = 0 \/ Fits(r, n)
  <2>1. Contexts(a) = Contexts(r) /\ \A k : Fits(a, k) <=> Fits(r, k)
    BY <1>2, SameContexts DEF Run
  <2>2. a.best = n /\ a.pc = "loaded" /\ a.device \in Devices BY DEF Run
  <2>3. Longest(a) BY <1>1, <1>3, <2>1, <2>2 DEF Longest, n
  <2>4. Good(a) BY <1>2, <2>2, <2>3 DEF Good
  <2>5. Capped(r) = a BY <1>3 DEF Capped, n
  <2> QED BY <2>4, <2>5
<1>4. CASE ~(n = 0 \/ Fits(r, n))
  <2>1. Contexts(b) = Contexts(r) /\ \A k : Fits(b, k) <=> Fits(r, k)
    BY <1>2, SameContexts DEF Run
  <2>2. /\ b.best = 0 /\ b.lo = 0 /\ b.hi = n
        /\ b.pc = "search" /\ b.device \in Devices
    BY DEF Run
  <2>3. Bracket(b) BY <1>1, <2>1, <2>2 DEF Bracket, n
  <2>4. Good(b) BY <1>2, <2>2, <2>3 DEF Good
  <2>5. Capped(r) = b BY <1>4 DEF Capped, n
  <2> QED BY <2>4, <2>5
<1> QED BY <1>3, <1>4

(* One probe keeps the bracket.                                            *)
LEMMA HalveGood ==
  ASSUME NEW r \in Run, Good(r), r.pc = "search", r.lo <= r.hi
  PROVE  Good(Halve(r))
<1> DEFINE n == Len(Contexts(r))
           mid == (r.lo + r.hi) \div 2
           a == [r EXCEPT !.best = mid, !.lo = mid + 1]
           b == [r EXCEPT !.hi = mid - 1]
<1>1. n \in Nat BY ContextsType
<1>2. r.lo \in Nat /\ r.hi \in Int /\ r.best \in Nat BY DEF Run
<1>3. /\ r.best <= n /\ r.hi <= n
      /\ r.best > 0 => Fits(r, r.best)
      /\ r.lo = r.best + 1 \/ (r.lo = 0 /\ r.best = 0)
      /\ \A k \in r.hi + 1 .. n : ~Fits(r, k)
  BY DEF Good, Bracket
<1>4. mid \in Nat /\ r.lo <= mid /\ mid <= r.hi BY <1>2
<1>5. r.device \in Devices BY DEF Good
<1> HIDE DEF n, mid
<1>6. a \in Run /\ b \in Run
  <2>1. [r EXCEPT !.best = mid] \in Run BY <1>4, RunField
  <2>2. mid + 1 \in Nat BY <1>4
  <2>3. a \in Run BY <2>1, <2>2, RunField
  <2>4. mid - 1 \in Int BY <1>4
  <2>5. b \in Run BY <2>4, RunField
  <2> QED BY <2>3, <2>5
<1>7. CASE Fits(r, mid)
  <2>1. Contexts(a) = Contexts(r) /\ \A k : Fits(a, k) <=> Fits(r, k)
    BY <1>6, SameContexts DEF Run
  <2>2. /\ a.best = mid /\ a.lo = mid + 1 /\ a.hi = r.hi
        /\ a.pc = "search" /\ a.device \in Devices
    BY <1>5 DEF Run
  <2>3. Bracket(a)
    BY <1>1, <1>2, <1>3, <1>4, <1>7, <2>1, <2>2 DEF Bracket, n
  <2>4. Good(a) BY <1>6, <2>2, <2>3 DEF Good
  <2>5. Halve(r) = a BY <1>7 DEF Halve, mid
  <2> QED BY <2>4, <2>5
<1>8. CASE ~Fits(r, mid)
  <2>1. Contexts(b) = Contexts(r) /\ \A k : Fits(b, k) <=> Fits(r, k)
    BY <1>6, SameContexts DEF Run
  <2>2. /\ b.best = r.best /\ b.lo = r.lo /\ b.hi = mid - 1
        /\ b.pc = "search" /\ b.device \in Devices
    BY <1>5 DEF Run
  <2>3. ASSUME NEW k \in mid .. n PROVE ~Fits(r, k)
    <3>1. k \in 0..Len(Contexts(r)) /\ mid \in 0..k
      BY <1>1, <1>4 DEF n
    <3> QED BY <3>1, <1>5, <1>8, ShorterFits
  <2>4. \A k \in (mid - 1) + 1 .. n : ~Fits(r, k) BY <2>3, <1>1, <1>4
  <2>5. Bracket(b)
    BY <1>1, <1>2, <1>3, <1>4, <2>1, <2>2, <2>4 DEF Bracket, n
  <2>6. Good(b) BY <1>6, <2>2, <2>5 DEF Good
  <2>7. Halve(r) = b BY <1>8 DEF Halve, mid
  <2> QED BY <2>6, <2>7
<1> QED BY <1>7, <1>8

(* When nothing is left between them, the prefix is the longest.           *)
LEMMA FoundGood ==
  ASSUME NEW r \in Run, Good(r), r.pc = "search", r.lo > r.hi
  PROVE  Good([r EXCEPT !.pc = "loaded"])
<1> DEFINE n == Len(Contexts(r))
           a == [r EXCEPT !.pc = "loaded"]
<1>1. n \in Nat BY ContextsType
<1>2. r.lo \in Nat /\ r.hi \in Int /\ r.best \in Nat BY DEF Run
<1>3. /\ r.best <= n
      /\ r.best > 0 => Fits(r, r.best)
      /\ r.lo = r.best + 1 \/ (r.lo = 0 /\ r.best = 0)
      /\ \A k \in r.hi + 1 .. n : ~Fits(r, k)
  BY DEF Good, Bracket
<1> HIDE DEF n
<1>4. a \in Run /\ a.best = r.best /\ a.pc = "loaded" /\ a.device \in Devices
  BY DEF Run, Good, Stages
<1>5. Contexts(a) = Contexts(r) /\ \A k : Fits(a, k) <=> Fits(r, k)
  BY <1>4, SameContexts DEF Run
<1>6. \A k \in r.best + 1 .. n : k \in r.hi + 1 .. n
  BY <1>1, <1>2, <1>3
<1>7. Longest(a) BY <1>3, <1>4, <1>5, <1>6 DEF Longest, n
<1> QED BY <1>4, <1>7 DEF Good

-----------------------------------------------------------------------------
(* Every step keeps the invariant.                                         *)

Inv ==
  /\ TypeOK
  /\ \A w \in Workers : Good(run[w])
  /\ AppliedCount

(* A classification has an answer in hand to a prompt with correction k.   *)
Holds(r, k) == Unmarked(r) /\ k \in Kept(r)

Bit(b) == IF b THEN 1 ELSE 0

(* The workers with an answer in hand, one of them left out.               *)
LEMMA OneMore ==
  ASSUME NEW P, IsFiniteSet(P), NEW w, w \notin P, NEW b \in BOOLEAN,
         NEW Q, Q = IF b THEN P \cup {w} ELSE P
  PROVE  /\ Cardinality(P) \in Nat
         /\ Cardinality(Q) = Cardinality(P) + Bit(b)
<1>1. Cardinality(P) \in Nat BY FS_CardinalityType
<1>2. CASE b
  <2>1. Cardinality(P \cup {w}) = Cardinality(P) + 1 BY FS_AddElement
  <2> QED BY <1>1, <1>2, <2>1 DEF Bit
<1>3. CASE ~b BY <1>1, <1>3 DEF Bit
<1> QED BY <1>2, <1>3

LEMMA HandStep ==
  ASSUME TypeOK, NEW w \in Workers, NEW r, run' = [run EXCEPT ![w] = r],
         NEW k \in Ids
  PROVE  \E n \in Nat :
           /\ Cardinality(InHand(k)) = n + Bit(Holds(run[w], k))
           /\ Cardinality(InHand(k)') = n + Bit(Holds(r, k))
<1> DEFINE P == {v \in Workers \ {w} : Holds(run[v], k)}
<1>1. IsFiniteSet(P)
  <2>1. P \subseteq Workers OBVIOUS
  <2> QED BY <2>1, PromptAssumption, FS_Subset
<1>2. w \notin P OBVIOUS
<1>3. Holds(run[w], k) \in BOOLEAN /\ Holds(r, k) \in BOOLEAN BY DEF Holds
<1>4. InHand(k) = IF Holds(run[w], k) THEN P \cup {w} ELSE P
  BY DEF InHand, Holds
<1>5. InHand(k)' = {v \in Workers : Holds(run'[v], k)}
  BY DEF InHand, Holds, Unmarked, Kept, Prefix, Contexts
<1>6. /\ run'[w] = r
      /\ \A v \in Workers \ {w} : run'[v] = run[v]
  BY DEF TypeOK
<1>7. InHand(k)' = IF Holds(r, k) THEN P \cup {w} ELSE P
  BY <1>5, <1>6
<1> HIDE DEF P
<1>8. /\ Cardinality(P) \in Nat
      /\ Cardinality(InHand(k)) = Cardinality(P) + Bit(Holds(run[w], k))
  BY <1>1, <1>2, <1>3, <1>4, OneMore
<1>9. Cardinality(InHand(k)') = Cardinality(P) + Bit(Holds(r, k))
  BY <1>1, <1>2, <1>3, <1>7, OneMore
<1> QED BY <1>8, <1>9

(* A step of one worker that accounts for the answer it has in hand.       *)
LEMMA CountStep ==
  ASSUME Inv, NEW w \in Workers, NEW r, Good(r),
         run' = [run EXCEPT ![w] = r],
         corrections' \in [Ids -> Row], last_id' = last_id,
         clock' \in Nat, runs' \in 0..MaxRuns,
         shown' \in [Ids -> Nat], discarded' \in [Ids -> Nat],
         \A k \in Ids :
           shown'[k] + corrections[k].applied_count + discarded[k]
               + Bit(Holds(run[w], k))
             = shown[k] + corrections'[k].applied_count + discarded'[k]
               + Bit(Holds(r, k))
  PROVE  Inv'
<1>1. r \in Run BY DEF Good
<1>2. TypeOK' BY <1>1 DEF Inv, TypeOK
<1>3. \A v \in Workers : Good(run'[v]) BY DEF Inv, TypeOK
<1>4. AppliedCount'
  <2>1. SUFFICES ASSUME NEW k \in Ids
                 PROVE  shown'[k] = corrections'[k].applied_count
                          + discarded'[k] + Cardinality(InHand(k)')
    BY DEF AppliedCount
  <2>2. PICK n \in Nat :
          /\ Cardinality(InHand(k)) = n + Bit(Holds(run[w], k))
          /\ Cardinality(InHand(k)') = n + Bit(Holds(r, k))
    BY HandStep DEF Inv
  <2>3. /\ shown[k] \in Nat /\ shown'[k] \in Nat
        /\ discarded[k] \in Nat /\ discarded'[k] \in Nat
        /\ corrections[k].applied_count \in Nat
        /\ corrections'[k].applied_count \in Nat
    BY DEF Inv, TypeOK, Row
  <2>4. Bit(Holds(run[w], k)) \in Nat /\ Bit(Holds(r, k)) \in Nat BY DEF Bit
  <2>5. shown[k] = corrections[k].applied_count + discarded[k]
                     + Cardinality(InHand(k))
    BY DEF Inv, AppliedCount
  <2> QED BY <2>2, <2>3, <2>4, <2>5
<1> QED BY <1>2, <1>3, <1>4 DEF Inv, Good, Bracket, Longest

(* A step of one worker that leaves the corrections and the answers alone. *)
LEMMA RunStep ==
  ASSUME Inv, NEW w \in Workers, NEW r, Good(r),
         run' = [run EXCEPT ![w] = r], UNCHANGED <<table, history>>,
         clock' \in Nat, runs' \in 0..MaxRuns,
         \A k \in Ids : Holds(r, k) <=> Holds(run[w], k)
  PROVE  Inv'
<1>1. /\ corrections' = corrections /\ last_id' = last_id
      /\ shown' = shown /\ discarded' = discarded
  BY DEF table, history
<1>2. /\ corrections \in [Ids -> Row]
      /\ shown \in [Ids -> Nat] /\ discarded \in [Ids -> Nat]
  BY DEF Inv, TypeOK
<1>3. \A k \in Ids : Bit(Holds(r, k)) = Bit(Holds(run[w], k)) BY DEF Bit
<1> QED BY <1>1, <1>2, <1>3, CountStep

LEMMA InitInv == Init => Inv
<1> SUFFICES ASSUME Init PROVE Inv OBVIOUS
<1>1. Idle \in Run /\ Good(Idle) BY IdleGood DEF Good
<1>2. NoRow \in Row BY DEF NoRow, Row
<1>3. TypeOK BY <1>1, <1>2, PromptAssumption DEF Init, TypeOK
<1>4. AppliedCount
  <2>1. ASSUME NEW k \in Ids PROVE Cardinality(InHand(k)) = 0
    <3>1. InHand(k) = {} BY DEF Init, InHand, Unmarked, Idle
    <3> QED BY <3>1, FS_EmptySet
  <2> QED BY <2>1 DEF Init, AppliedCount, NoRow
<1> QED BY <1>1, <1>3, <1>4 DEF Inv, Init

LEMMA HandSame ==
  ASSUME run' = run, NEW k \in Ids
  PROVE  InHand(k)' = InHand(k)
BY DEF InHand, Unmarked, Kept, Prefix, Contexts

LEMMA EndpointInv ==
  ASSUME Inv, create \/ \E k \in Ids : deactivate(k)
  PROVE  Inv'
<1>1. PICK k \in Ids, b \in BOOLEAN :
        corrections' = [corrections EXCEPT ![k].is_active = b]
  <2>1. CASE create
    <3>1. last_id + 1 \in Ids
      BY <2>1, PromptAssumption DEF create, Inv, TypeOK, Ids
    <3> QED BY <2>1, <3>1 DEF create
  <2>2. CASE \E k \in Ids : deactivate(k) BY <2>2 DEF deactivate
  <2> QED BY <2>1, <2>2
<1>2. last_id' \in 0..MaxId
  BY PromptAssumption DEF create, deactivate, Inv, TypeOK
<1>3. UNCHANGED <<clock, runs, run, shown, discarded>>
  BY DEF create, deactivate, history
<1>4. corrections' \in [Ids -> Row] BY <1>1 DEF Inv, TypeOK, Row
<1>5. \A j \in Ids : corrections'[j].applied_count = corrections[j].applied_count
  BY <1>1 DEF Inv, TypeOK, Row
<1>6. TypeOK' BY <1>2, <1>3, <1>4 DEF Inv, TypeOK
<1>7. AppliedCount' BY <1>3, <1>5, HandSame DEF Inv, AppliedCount
<1> QED BY <1>3, <1>6, <1>7 DEF Inv, Good, Bracket, Longest

LEMMA RetrievedType ==
  ASSUME TypeOK, NEW d \in Devices, NEW rows \in Retrieved(d)
  PROVE  rows \in Seq(Ids)
<1>1. Candidates(d) \subseteq Ids BY PromptAssumption DEF Candidates
<1>2. IsFiniteSet(Ids) BY PromptAssumption, FS_Interval DEF Ids
<1>3. IsFiniteSet(Candidates(d)) BY <1>1, <1>2, FS_Subset
<1>4. Cardinality(Candidates(d)) \in Nat BY <1>3, FS_CardinalityType
<1> QED BY <1>1, <1>4 DEF Retrieved

LEMMA LoadInv ==
  ASSUME Inv, NEW w \in Workers, NEW d \in Devices, NEW hint \in BOOLEAN,
         Load(w, d, hint)
  PROVE  Inv'
<1>1. PICK rows \in Retrieved(d) :
        run' = [run EXCEPT ![w] =
          Capped([Idle EXCEPT !.device = d, !.hint = hint, !.rows = rows])]
  BY DEF Load
<1> DEFINE r == [Idle EXCEPT !.device = d, !.hint = hint, !.rows = rows]
<1>2. rows \in Seq(Ids) BY RetrievedType DEF Inv
<1>3. r \in Run /\ r.device \in Devices
  <2>1. Idle \in Run BY IdleGood DEF Good
  <2>2. [Idle EXCEPT !.device = d] \in Run BY <2>1, RunField
  <2>3. [Idle EXCEPT !.device = d, !.hint = hint] \in Run
    BY <2>2, RunField
  <2>4. r \in Run BY <1>2, <2>3, RunField
  <2> QED BY <2>4 DEF Idle
<1> HIDE DEF r
<1>4. /\ Good(Capped(r)) /\ Capped(r).pc \in {"loaded", "search"}
      /\ run[w].pc = "idle"
  BY <1>3, CappedGood DEF Capped, Load, Run
<1>5. run' = [run EXCEPT ![w] = Capped(r)] BY <1>1 DEF r
<1>6. runs' \in 0..MaxRuns /\ clock' \in Nat /\ UNCHANGED <<table, history>>
  BY PromptAssumption DEF Load, Inv, TypeOK
<1>7. \A k \in Ids : ~Holds(Capped(r), k) /\ ~Holds(run[w], k)
  BY <1>4 DEF Holds, Unmarked
<1> QED BY <1>4, <1>5, <1>6, <1>7, RunStep

LEMMA CapInv ==
  ASSUME Inv, NEW w \in Workers, cap_to_prompt_size(w)
  PROVE  Inv'
<1> DEFINE r == run[w]
           t == IF r.lo <= r.hi THEN Halve(r) ELSE [r EXCEPT !.pc = "loaded"]
<1>1. r \in Run /\ Good(r) BY DEF Inv, Good
<1>2. r.pc = "search" BY DEF cap_to_prompt_size
<1>3. run' = [run EXCEPT ![w] = t] BY DEF cap_to_prompt_size
<1> HIDE DEF r
<1>4. Good(t)
  <2>1. CASE r.lo <= r.hi BY <1>1, <1>2, <2>1, HalveGood
  <2>2. CASE ~(r.lo <= r.hi)
    <3>1. r.lo > r.hi BY <1>1, <2>2 DEF Run
    <3> QED BY <1>1, <1>2, <2>2, <3>1, FoundGood
  <2> QED BY <2>1, <2>2
<1>5. t.pc \in {"loaded", "search"} BY <1>1, <1>2 DEF Halve, Run
<1> HIDE DEF t
<1>6. runs' \in 0..MaxRuns /\ clock' \in Nat /\ UNCHANGED <<table, history>>
  BY DEF cap_to_prompt_size, Inv, TypeOK
<1>7. \A k \in Ids : ~Holds(t, k) /\ ~Holds(run[w], k)
  BY <1>2, <1>5 DEF Holds, Unmarked, r
<1> QED BY <1>3, <1>4, <1>6, <1>7, RunStep

(* The record of a classification past the search, given another stage.    *)
LEMMA LaterGood ==
  ASSUME NEW r \in Run, Good(r), r.pc \notin {"idle", "search"},
         NEW t \in Run, t.pc \notin {"idle", "search"},
         t.rows = r.rows, t.hint = r.hint, t.device = r.device, t.best = r.best
  PROVE  Good(t) /\ Kept(t) = Kept(r)
BY SameFound DEF Good

(* Counting the corrections of a prompt.                                   *)
LEMMA CountKeptIs ==
  ASSUME NEW counter \in [Ids -> Nat], NEW w
  PROVE  /\ CountKept(counter, w) \in [Ids -> Nat]
         /\ \A k \in Ids :
              CountKept(counter, w)[k] = counter[k] + Bit(k \in Kept(run[w]))
<1>1. \A k \in Ids : counter[k] \in Nat /\ counter[k] + 1 \in Nat OBVIOUS
<1> QED BY <1>1 DEF CountKept, Bit

LEMMA DiscardIs ==
  ASSUME TypeOK, NEW w, Discard(w)
  PROVE  /\ discarded' \in [Ids -> Nat]
         /\ \A k \in Ids :
              discarded'[k] = discarded[k] + Bit(Holds(run[w], k))
<1>1. discarded \in [Ids -> Nat] BY DEF TypeOK
<1>2. CASE Unmarked(run[w])
  <2>1. discarded' = CountKept(discarded, w) BY <1>2 DEF Discard
  <2> QED BY <1>1, <1>2, <2>1, CountKeptIs DEF Holds
<1>3. CASE ~Unmarked(run[w])
  <2>1. discarded' = discarded BY <1>3 DEF Discard
  <2>2. \A k \in Ids : Bit(Holds(run[w], k)) = 0 BY <1>3 DEF Holds, Bit
  <2> QED BY <1>1, <2>1, <2>2
<1> QED BY <1>2, <1>3

LEMMA L1AnswersInv ==
  ASSUME Inv, NEW w \in Workers, L1Answers(w)
  PROVE  Inv'
<1> DEFINE r == run[w]
           t == [r EXCEPT !.pc = "answered"]
<1>1. r \in Run /\ Good(r) /\ r.pc = "loaded" BY DEF Inv, Good, L1Answers
<1>2. run' = [run EXCEPT ![w] = t] BY DEF L1Answers
<1>3. /\ t \in Run /\ t.pc = "answered"
      /\ t.rows = r.rows /\ t.hint = r.hint
      /\ t.device = r.device /\ t.best = r.best
  <2>1. t \in Run BY <1>1, RunField DEF Stages
  <2> QED BY <1>1, <2>1 DEF Run
<1> HIDE DEF t
<1>4. Good(t) /\ Kept(t) = Kept(r) BY <1>1, <1>3, LaterGood
<1>5. /\ shown \in [Ids -> Nat] /\ discarded \in [Ids -> Nat]
      /\ corrections \in [Ids -> Row]
  BY DEF Inv, TypeOK
<1>6. /\ shown' \in [Ids -> Nat]
      /\ \A k \in Ids : shown'[k] = shown[k] + Bit(k \in Kept(r))
  BY <1>5, CountKeptIs DEF L1Answers
<1>7. \A k \in Ids : /\ Bit(Holds(r, k)) = 0
                     /\ Bit(Holds(t, k)) = Bit(k \in Kept(r))
  BY <1>1, <1>3, <1>4 DEF Holds, Unmarked, Bit
<1>8. /\ runs' \in 0..MaxRuns /\ clock' \in Nat /\ last_id' = last_id
      /\ corrections' = corrections /\ discarded' = discarded
  BY DEF L1Answers, Inv, TypeOK, table
<1>9. ASSUME NEW k \in Ids
      PROVE  shown'[k] + corrections[k].applied_count + discarded[k]
                 + Bit(Holds(r, k))
               = shown[k] + corrections'[k].applied_count + discarded'[k]
                 + Bit(Holds(t, k))
  <2>1. /\ shown[k] \in Nat /\ discarded[k] \in Nat
        /\ corrections[k].applied_count \in Nat
    BY <1>5 DEF Row
  <2>2. Bit(k \in Kept(r)) \in Nat BY DEF Bit
  <2> QED BY <1>6, <1>7, <1>8, <2>1, <2>2
<1> QED BY <1>2, <1>4, <1>5, <1>6, <1>8, <1>9, CountStep

LEMMA AcceptInv ==
  ASSUME Inv, NEW w \in Workers, Accept(w)
  PROVE  Inv'
<1> DEFINE r == run[w]
           t == [r EXCEPT !.pc = "persist", !.source = "llm",
                          !.stamp = clock + 1]
<1>1. /\ r \in Run /\ Good(r) /\ r.pc = "answered"
      /\ clock \in Nat /\ clock + 1 \in Nat
  BY DEF Inv, Good, Accept, TypeOK
<1>2. run' = [run EXCEPT ![w] = t] BY DEF Accept
<1>3. /\ t \in Run /\ t.pc = "persist" /\ t.source = "llm"
      /\ t.rows = r.rows /\ t.hint = r.hint
      /\ t.device = r.device /\ t.best = r.best
  <2>1. [r EXCEPT !.pc = "persist"] \in Run BY <1>1, RunField DEF Stages
  <2>2. [r EXCEPT !.pc = "persist", !.source = "llm"] \in Run
    BY <2>1, RunField DEF Sources
  <2>3. t \in Run BY <1>1, <2>2, RunField
  <2> QED BY <1>1, <2>3 DEF Run
<1> HIDE DEF t
<1>4. Good(t) /\ Kept(t) = Kept(r) BY <1>1, <1>3, LaterGood
<1>5. \A k \in Ids : Holds(t, k) <=> Holds(r, k)
  BY <1>1, <1>3, <1>4 DEF Holds, Unmarked
<1>6. runs' \in 0..MaxRuns /\ clock' \in Nat /\ UNCHANGED <<table, history>>
  BY <1>1 DEF Accept, Inv, TypeOK
<1> QED BY <1>2, <1>4, <1>5, <1>6, RunStep

(* An answer in hand is thrown away.                                       *)
LEMMA DiscardInv ==
  ASSUME Inv, NEW w \in Workers, NEW t, Good(t), ~Unmarked(t),
         run' = [run EXCEPT ![w] = t], Discard(w),
         UNCHANGED <<table, clock, runs, shown>>
  PROVE  Inv'
<1>1. /\ shown \in [Ids -> Nat] /\ discarded \in [Ids -> Nat]
      /\ corrections \in [Ids -> Row]
  BY DEF Inv, TypeOK
<1>2. /\ discarded' \in [Ids -> Nat]
      /\ \A k \in Ids : discarded'[k] = discarded[k] + Bit(Holds(run[w], k))
  BY DiscardIs DEF Inv
<1>3. \A k \in Ids : Bit(Holds(t, k)) = 0 BY DEF Holds, Bit
<1>4. /\ runs' \in 0..MaxRuns /\ clock' \in Nat /\ last_id' = last_id
      /\ corrections' = corrections /\ shown' = shown
  BY DEF Inv, TypeOK, table
<1>5. ASSUME NEW k \in Ids
      PROVE  shown'[k] + corrections[k].applied_count + discarded[k]
                 + Bit(Holds(run[w], k))
               = shown[k] + corrections'[k].applied_count + discarded'[k]
                 + Bit(Holds(t, k))
  <2>1. /\ shown[k] \in Nat /\ discarded[k] \in Nat
        /\ corrections[k].applied_count \in Nat
    BY <1>1 DEF Row
  <2>2. Bit(Holds(run[w], k)) \in Nat BY DEF Bit
  <2> QED BY <1>2, <1>3, <1>4, <2>1, <2>2
<1> QED BY <1>1, <1>2, <1>4, <1>5, CountStep

LEMMA FallbackInv ==
  ASSUME Inv, NEW w \in Workers, Fallback(w)
  PROVE  Inv'
<1> DEFINE r == run[w]
           t == [r EXCEPT !.pc = "persist", !.source = "system_fallback"]
<1>1. r \in Run /\ Good(r) /\ r.pc \in {"loaded", "answered"}
  BY DEF Inv, Good, Fallback
<1>2. run' = [run EXCEPT ![w] = t] BY DEF Fallback
<1>3. /\ t \in Run /\ t.pc = "persist" /\ t.source = "system_fallback"
      /\ t.rows = r.rows /\ t.hint = r.hint
      /\ t.device = r.device /\ t.best = r.best
  <2>1. [r EXCEPT !.pc = "persist"] \in Run BY <1>1, RunField DEF Stages
  <2>2. t \in Run BY <2>1, RunField DEF Sources
  <2> QED BY <1>1, <2>2 DEF Run
<1> HIDE DEF t
<1>4. Good(t) BY <1>1, <1>3, LaterGood
<1>5. ~Unmarked(t) BY <1>3 DEF Unmarked
<1> QED BY <1>2, <1>4, <1>5, DiscardInv DEF Fallback

LEMMA RaiseInv ==
  ASSUME Inv, NEW w \in Workers, Raise(w)
  PROVE  Inv'
<1>1. Good(Idle) /\ ~Unmarked(Idle) BY IdleGood DEF Idle, Unmarked
<1> QED BY <1>1, DiscardInv DEF Raise

(* The corrections marked are those of the prompt that was answered.       *)
LEMMA MarkedIs ==
  ASSUME Inv, NEW w \in Workers, run[w].pc = "persist", mark_applied(w)
  PROVE  /\ corrections' \in [Ids -> Row]
         /\ \A k \in Ids : corrections'[k].applied_count =
              corrections[k].applied_count + Bit(k \in Kept(run[w]))
<1> DEFINE r == run[w]
<1>1. r \in Run /\ Good(r) BY DEF Inv, Good
<1>2. r.best <= Len(Contexts(r)) BY <1>1 DEF Good, Longest
<1>3. corrections' = [k \in Ids |->
        IF k \in applied_ids(r)
        THEN [corrections[k] EXCEPT !.applied_count = @ + 1,
                                    !.last_applied_at = r.stamp]
        ELSE corrections[k]]
  BY DEF mark_applied
<1>4. corrections \in [Ids -> Row] BY DEF Inv, TypeOK
<1> HIDE DEF r
<1>5. \A k \in Ids : k \in applied_ids(r) <=> k \in Kept(r)
  BY <1>1, <1>2, AppliedAreKept
<1>6. r.stamp \in Nat BY <1>1 DEF Run
<1>7. ASSUME NEW k \in Ids
      PROVE  /\ corrections'[k] \in Row
             /\ corrections'[k].applied_count =
                  corrections[k].applied_count + Bit(k \in Kept(r))
  <2> DEFINE row == corrections[k]
             marked == [row EXCEPT !.applied_count = row.applied_count + 1,
                                   !.last_applied_at = r.stamp]
  <2>1. row \in Row /\ row.applied_count \in Nat BY <1>4 DEF Row
  <2>2. corrections'[k] = IF k \in Kept(r) THEN marked ELSE row
    BY <1>3, <1>5
  <2> HIDE DEF row
  <2>3. marked \in Row /\ marked.applied_count = row.applied_count + 1
    <3>1. [row EXCEPT !.applied_count = row.applied_count + 1] \in Row
      BY <2>1 DEF Row
    <3> QED BY <1>6, <2>1, <3>1 DEF Row
  <2> HIDE DEF marked
  <2>4. CASE k \in Kept(r) BY <2>2, <2>3, <2>4 DEF Bit, row
  <2>5. CASE k \notin Kept(r) BY <2>1, <2>2, <2>5 DEF Bit, row
  <2> QED BY <2>4, <2>5
<1>8. corrections' \in [Ids -> Row] BY <1>3, <1>7
<1> QED BY <1>7, <1>8 DEF r

LEMMA PersistInv ==
  ASSUME Inv, NEW w \in Workers, Persist(w)
  PROVE  Inv'
<1> DEFINE r == run[w]
<1>1. /\ r.pc = "persist" /\ run' = [run EXCEPT ![w] = Idle]
      /\ last_id' = last_id /\ shown' = shown /\ discarded' = discarded
      /\ clock' = clock /\ runs' = runs
  BY DEF Persist, history
<1>2. Good(Idle) /\ ~Unmarked(Idle) BY IdleGood DEF Idle, Unmarked
<1>3. /\ shown \in [Ids -> Nat] /\ discarded \in [Ids -> Nat]
      /\ corrections \in [Ids -> Row] /\ clock \in Nat /\ runs \in 0..MaxRuns
  BY DEF Inv, TypeOK
<1>4. \A k \in Ids : Bit(Holds(Idle, k)) = 0 BY <1>2 DEF Holds, Bit
<1>5. /\ corrections' \in [Ids -> Row]
      /\ \A k \in Ids : corrections'[k].applied_count =
           corrections[k].applied_count + Bit(Holds(r, k))
  <2>1. CASE r.source = "llm"
    <3>1. mark_applied(w) BY <2>1 DEF Persist
    <3>2. \A k \in Ids : Bit(Holds(r, k)) = Bit(k \in Kept(r))
      BY <1>1, <2>1 DEF Holds, Unmarked, Bit
    <3> QED BY <1>1, <3>1, <3>2, MarkedIs
  <2>2. CASE r.source # "llm"
    <3>1. corrections' = corrections BY <2>2 DEF Persist
    <3>2. \A k \in Ids : Bit(Holds(r, k)) = 0
      BY <1>1, <2>2 DEF Holds, Unmarked, Bit
    <3> QED BY <1>3, <3>1, <3>2 DEF Row
  <2> QED BY <2>1, <2>2
<1>6. ASSUME NEW k \in Ids
      PROVE  shown'[k] + corrections[k].applied_count + discarded[k]
                 + Bit(Holds(r, k))
               = shown[k] + corrections'[k].applied_count + discarded'[k]
                 + Bit(Holds(Idle, k))
  <2>1. /\ shown[k] \in Nat /\ discarded[k] \in Nat
        /\ corrections[k].applied_count \in Nat
    BY <1>3 DEF Row
  <2>2. Bit(Holds(r, k)) \in Nat BY DEF Bit
  <2> QED BY <1>1, <1>4, <1>5, <2>1, <2>2
<1> QED BY <1>1, <1>2, <1>3, <1>5, <1>6, CountStep

LEMMA NextInv == Inv /\ [Next]_vars => Inv'
<1> SUFFICES ASSUME Inv, [Next]_vars PROVE Inv' OBVIOUS
<1>1. CASE create \/ \E k \in Ids : deactivate(k) BY <1>1, EndpointInv
<1>2. CASE \E w \in Workers : Classification(w)
  <2>1. PICK w \in Workers : Classification(w) BY <1>2
  <2> QED BY <2>1, LoadInv, CapInv, L1AnswersInv, AcceptInv, FallbackInv,
             PersistInv, RaiseInv DEF Classification
<1>3. CASE UNCHANGED vars
  <2>1. UNCHANGED <<corrections, last_id, clock, runs, run, shown, discarded>>
    BY <1>3 DEF vars
  <2>2. TypeOK' BY <2>1 DEF Inv, TypeOK
  <2>3. AppliedCount' BY <2>1, HandSame DEF Inv, AppliedCount
  <2> QED BY <2>1, <2>2, <2>3 DEF Inv, Good, Bracket, Longest
<1> QED BY <1>1, <1>2, <1>3 DEF Next

THEOREM Invariance == Spec => []Inv
BY InitInv, NextInv, PTL DEF Spec

-----------------------------------------------------------------------------
(* Tables, counters and locals have their types, for any number of         *)
(* corrections, workers and classifications.                               *)
THEOREM TypeCorrect == Spec => []TypeOK
<1>1. Inv => TypeOK BY DEF Inv
<1> QED BY <1>1, Invariance, PTL

LEMMA InvLongest == Inv => LongestPrefix
BY DEF Inv, Good, Longest, LongestPrefix, Loaded

(* The binary search of cap_to_prompt_size finds the longest prefix that   *)
(* fits, for any number of contexts, any lengths and any cap.              *)
THEOREM SearchIsExact == Spec => []LongestPrefix
BY InvLongest, Invariance, PTL

LEMMA InvHint == Inv => HintKept
<1> SUFFICES ASSUME Inv, NEW w \in Workers, Loaded(w), run[w].hint,
                    Rendered[run[w].device][{Hint}] <= Cap
             PROVE  Hint \in Kept(run[w])
  BY DEF HintKept
<1> DEFINE r == run[w]
<1>1. r \in Run /\ Longest(r) BY DEF Inv, Good, Loaded
<1>2. r.hint /\ Rendered[r.device][{Hint}] <= Cap OBVIOUS
<1> HIDE DEF r
<1>3. r.rows \in Seq(Ids) /\ r.best \in Nat BY <1>1 DEF Run
<1>4. /\ Len(Contexts(r)) = Len(r.rows) + 1 /\ Contexts(r)[1] = Hint
      /\ Len(r.rows) \in Nat
  BY <1>2, <1>3 DEF Contexts
<1>5. Prefix(r, 1) = {Hint}
  <2>1. 1 \in 0..Len(Contexts(r)) BY <1>4
  <2>2. Prefix(r, 1) = {Contexts(r)[i] : i \in 1..1} BY <1>1, <2>1, PrefixIs
  <2>3. 1..1 = {1} OBVIOUS
  <2> QED BY <2>2, <2>3, <1>4
<1>6. Fits(r, 1) BY <1>2, <1>5 DEF Fits
<1>7. r.best # 0 BY <1>1, <1>4, <1>6 DEF Longest
<1>8. r.best \in 0..Len(Contexts(r)) /\ 1 \in 1..r.best
  BY <1>1, <1>3, <1>4, <1>7 DEF Longest
<1>9. Hint \in Prefix(r, r.best) BY <1>1, <1>4, <1>8, PrefixIs
<1> QED BY <1>9 DEF Kept, r

(* A hint that fits by itself is never dropped.                            *)
THEOREM HintsAreKept == Spec => []HintKept
BY InvHint, Invariance, PTL

(* applied_count is short of the prompts answered by exactly the answers   *)
(* still in hand and those thrown away, in every interleaving of loads,    *)
(* answers, fallbacks, marks, deactivations and exceptions.                *)
THEOREM CountsAreExact == Spec => []AppliedCount
<1>1. Inv => AppliedCount BY DEF Inv
<1> QED BY <1>1, Invariance, PTL
=============================================================================
