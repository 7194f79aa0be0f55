-------------------------- MODULE McpServerProofs --------------------------
(***************************************************************************)
(* The rate limit, the keys and the costs of McpServer, for any number of  *)
(* peers, keys and concurrent requests.                                    *)
(***************************************************************************)
EXTENDS McpServer, SlidingWindowTheorems

LEMMA ConstantTypes ==
  /\ Limit \in Nat \ {0} /\ Window \in Nat \ {0} /\ MaxRestarts \in Nat
  /\ None \notin Ips /\ None \notin Keys /\ None # Empty
BY McpAssumption

-----------------------------------------------------------------------------
(* The window of a peer and the history of what was let through.           *)

(* The window is the end of the history; what it has dropped is older than *)
(* it, and the history is in order.                                        *)
EndOf(times, past) ==
  LET k == Len(times)
      n == Len(past)
  IN /\ k <= n
     /\ \A i \in 1..k : times[i] = past[n - k + i]
     /\ \A i \in 1..(n - k) : past[i] >= Window
     /\ \A i, j \in 1..n : i <= j => past[i] >= past[j]

Times == Seq(0..Window)

LEMMA TimesFacts ==
  ASSUME NEW s \in Times
  PROVE  Len(s) \in Nat /\ \A i \in 1..Len(s) : s[i] \in 0..Window
BY LenProperties, ElementOfSeq DEF Times

LEMMA EmptyEnds == <<>> \in Times /\ Len(<<>>) = 0 /\ EndOf(<<>>, <<>>)
<1>1. Len(<<>>) = 0 /\ <<>> \in Times BY EmptySeq DEF Times
<1> QED BY <1>1 DEF EndOf

LEMMA TrimmedEnds ==
  ASSUME NEW s \in Times, NEW past \in Times, EndOf(s, past)
  PROVE  /\ Trimmed(s, Window) \in Times
         /\ Len(Trimmed(s, Window)) <= Len(s)
         /\ EndOf(Trimmed(s, Window), past)
<1> USE ConstantTypes
<1> DEFINE k == Len(s)
           n == Len(past)
           t == Trimmed(s, Window)
<1>1. k \in Nat /\ n \in Nat BY TimesFacts
<1>2. t \in Times BY TrimmedDropsOld DEF Times
<1>3. PICK c \in 0..k : /\ Len(t) = k - c
                        /\ \A j \in 1..(k - c) : t[j] = s[c + j]
                        /\ \A j \in 1..c : s[j] >= Window
  BY TrimmedDropsOld DEF Times
<1>4. /\ k <= n
      /\ \A i \in 1..k : s[i] = past[n - k + i]
      /\ \A i \in 1..(n - k) : past[i] >= Window
      /\ \A i, j \in 1..n : i <= j => past[i] >= past[j]
  BY DEF EndOf
<1> HIDE DEF k, n, t
<1>5. \A i \in 1..(k - c) : t[i] = past[n - (k - c) + i]
  <2> SUFFICES ASSUME NEW i \in 1..(k - c) PROVE t[i] = past[n - (k - c) + i]
    OBVIOUS
  <2>1. c + i \in 1..k /\ n - k + (c + i) = n - (k - c) + i BY <1>1
  <2> QED BY <1>3, <1>4, <2>1
<1>6. \A i \in 1..(n - (k - c)) : past[i] >= Window
  <2> SUFFICES ASSUME NEW i \in 1..(n - (k - c)) PROVE past[i] >= Window
    OBVIOUS
  <2>1. CASE i <= n - k
    <3>1. i \in 1..(n - k) BY <1>1, <1>4, <2>1
    <3> QED BY <1>4, <3>1
  <2>2. CASE i > n - k
    <3>1. /\ i - (n - k) \in 1..c /\ i - (n - k) \in 1..k
          /\ n - k + (i - (n - k)) = i
      BY <1>1, <1>4, <2>2
    <3> QED BY <1>3, <1>4, <3>1
  <2> QED BY <1>1, <2>1, <2>2
<1>7. k - c <= n /\ k - c <= k BY <1>1, <1>4
<1>8. EndOf(t, past) BY <1>3, <1>4, <1>5, <1>6, <1>7 DEF EndOf, n
<1> QED BY <1>2, <1>3, <1>7, <1>8 DEF t, k

LEMMA AppendedEnds ==
  ASSUME NEW s \in Times, NEW past \in Times, EndOf(s, past)
  PROVE  EndOf(Append(s, 0), Append(past, 0))
<1> USE ConstantTypes
<1> DEFINE k == Len(s)
           n == Len(past)
           t == Append(s, 0)
           p == Append(past, 0)
<1>1. /\ k \in Nat /\ n \in Nat
      /\ Len(t) = k + 1 /\ t[k + 1] = 0 /\ \A i \in 1..k : t[i] = s[i]
      /\ Len(p) = n + 1 /\ p[n + 1] = 0 /\ \A i \in 1..n : p[i] = past[i]
  BY AppendProperties, TimesFacts DEF Times
<1>2. /\ k <= n
      /\ \A i \in 1..k : s[i] = past[n - k + i]
      /\ \A i \in 1..(n - k) : past[i] >= Window
      /\ \A i, j \in 1..n : i <= j => past[i] >= past[j]
  BY DEF EndOf
<1>3. \A i \in 1..n : past[i] \in 0..Window BY TimesFacts
<1> HIDE DEF k, n, t, p
<1>4. \A i \in 1..(k + 1) : t[i] = p[(n + 1) - (k + 1) + i]
  <2> SUFFICES ASSUME NEW i \in 1..(k + 1)
               PROVE  t[i] = p[(n + 1) - (k + 1) + i]
    OBVIOUS
  <2>1. CASE i = k + 1
    <3>1. (n + 1) - (k + 1) + i = n + 1 BY <1>1, <2>1
    <3> QED BY <1>1, <2>1, <3>1
  <2>2. CASE i \in 1..k
    <3>1. /\ (n + 1) - (k + 1) + i = n - k + i
          /\ n - k + i \in 1..n
      BY <1>1, <1>2, <2>2
    <3> QED BY <1>1, <1>2, <2>2, <3>1
  <2> QED BY <1>1, <2>1, <2>2
<1>5. \A i \in 1..((n + 1) - (k + 1)) : p[i] >= Window
  <2> SUFFICES ASSUME NEW i \in 1..((n + 1) - (k + 1)) PROVE p[i] >= Window
    OBVIOUS
  <2>1. i \in 1..(n - k) /\ i \in 1..n BY <1>1, <1>2
  <2> QED BY <1>1, <1>2, <2>1
<1>6. \A i, j \in 1..(n + 1) : i <= j => p[i] >= p[j]
  <2> SUFFICES ASSUME NEW i \in 1..(n + 1), NEW j \in 1..(n + 1), i <= j
               PROVE  p[i] >= p[j]
    OBVIOUS
  <2>1. CASE j \in 1..n
    <3>1. i \in 1..n BY <1>1, <2>1
    <3> QED BY <1>1, <1>2, <2>1, <3>1
  <2>2. CASE j = n + 1
    <3>1. p[i] \in Nat
      <4>1. i = n + 1 \/ i \in 1..n BY <1>1
      <4> QED BY <1>1, <1>3, <4>1
    <3> QED BY <1>1, <2>2, <3>1
  <2> QED BY <1>1, <2>1, <2>2
<1>7. k + 1 <= n + 1 BY <1>1, <1>2
<1> QED BY <1>1, <1>4, <1>5, <1>6, <1>7 DEF EndOf, t, p

(* What Latest forgets is no part of the window.                           *)
LEMMA LatestEnds ==
  ASSUME NEW s \in Times, NEW past \in Times, EndOf(s, past), Len(s) <= Limit,
         Len(past) <= Limit + 2
  PROVE  /\ Latest(past) \in Times
         /\ Len(Latest(past)) <= Limit + 1
         /\ EndOf(s, Latest(past))
<1> USE ConstantTypes
<1> DEFINE k == Len(s)
           n == Len(past)
           p == Tail(past)
<1>1. k \in Nat /\ n \in Nat BY TimesFacts
<1>2. CASE ~(n > Limit + 1)
  <2>1. Latest(past) = past BY <1>2 DEF Latest
  <2>2. n <= Limit + 1 BY <1>1, <1>2
  <2> QED BY <2>1, <2>2
<1>3. CASE n > Limit + 1
  <2>1. Latest(past) = p BY <1>3 DEF Latest
  <2>2. past # <<>> BY <1>1, <1>3, EmptySeq
  <2>3. /\ p \in Times /\ Len(p) = n - 1
        /\ \A i \in 1..(n - 1) : p[i] = past[i + 1]
    BY <2>2, HeadTailProperties DEF Times
  <2>4. /\ k <= n
        /\ \A i \in 1..k : s[i] = past[n - k + i]
        /\ \A i \in 1..(n - k) : past[i] >= Window
        /\ \A i, j \in 1..n : i <= j => past[i] >= past[j]
    BY DEF EndOf
  <2>5. k < n /\ n - 1 <= Limit + 1 /\ k <= n - 1 BY <1>1, <1>3
  <2> HIDE DEF k, n, p
  <2>6. \A i \in 1..k : s[i] = p[(n - 1) - k + i]
    <3> SUFFICES ASSUME NEW i \in 1..k PROVE s[i] = p[(n - 1) - k + i]
      OBVIOUS
    <3>1. /\ (n - 1) - k + i \in 1..(n - 1)
          /\ (n - 1) - k + i + 1 = n - k + i
      BY <1>1, <2>5
    <3> QED BY <2>3, <2>4, <3>1
  <2>7. \A i \in 1..((n - 1) - k) : p[i] >= Window
    <3> SUFFICES ASSUME NEW i \in 1..((n - 1) - k) PROVE p[i] >= Window
      OBVIOUS
    <3>1. i \in 1..(n - 1) /\ i + 1 \in 1..(n - k) BY <1>1, <2>5
    <3> QED BY <2>3, <2>4, <3>1
  <2>8. \A i, j \in 1..(n - 1) : i <= j => p[i] >= p[j]
    <3> SUFFICES ASSUME NEW i \in 1..(n - 1), NEW j \in 1..(n - 1), i <= j
                 PROVE  p[i] >= p[j]
      OBVIOUS
    <3>1. i + 1 \in 1..n /\ j + 1 \in 1..n /\ i + 1 <= j + 1 BY <1>1
    <3>2. past[i + 1] >= past[j + 1] BY <2>4, <3>1
    <3> QED BY <2>3, <3>2
  <2>9. EndOf(s, p) BY <2>3, <2>5, <2>6, <2>7, <2>8 DEF EndOf, k
  <2> QED BY <2>1, <2>3, <2>5, <2>9
<1> QED BY <1>2, <1>3

LEMMA AgedEnds ==
  ASSUME NEW s \in Times, NEW past \in Times, EndOf(s, past)
  PROVE  /\ Aged(s, Window) \in Times /\ Len(Aged(s, Window)) = Len(s)
         /\ Aged(past, Window) \in Times /\ Len(Aged(past, Window)) = Len(past)
         /\ EndOf(Aged(s, Window), Aged(past, Window))
<1> USE ConstantTypes
<1> DEFINE k == Len(s)
           n == Len(past)
           t == Aged(s, Window)
           p == Aged(past, Window)
<1>1. /\ t \in Times /\ Len(t) = k /\ k \in Nat
      /\ \A i \in 1..k : t[i] = Older(s[i], Window)
  BY AgedTimes, TimesFacts DEF Times
<1>2. /\ p \in Times /\ Len(p) = n /\ n \in Nat
      /\ \A i \in 1..n : p[i] = Older(past[i], Window)
  BY AgedTimes, TimesFacts DEF Times
<1>3. /\ k <= n
      /\ \A i \in 1..k : s[i] = past[n - k + i]
      /\ \A i \in 1..(n - k) : past[i] >= Window
      /\ \A i, j \in 1..n : i <= j => past[i] >= past[j]
  BY DEF EndOf
<1>4. \A i \in 1..n : past[i] \in 0..Window BY TimesFacts
<1> HIDE DEF k, n, t, p
<1>5. \A i \in 1..k : t[i] = p[n - k + i]
  <2> SUFFICES ASSUME NEW i \in 1..k PROVE t[i] = p[n - k + i] OBVIOUS
  <2>1. n - k + i \in 1..n BY <1>1, <1>2, <1>3
  <2> QED BY <1>1, <1>2, <1>3, <2>1
<1>6. \A i \in 1..(n - k) : p[i] >= Window
  <2> SUFFICES ASSUME NEW i \in 1..(n - k) PROVE p[i] >= Window OBVIOUS
  <2>1. i \in 1..n BY <1>1, <1>2, <1>3
  <2>2. past[i] >= Window /\ p[i] = Older(past[i], Window) BY <1>2, <1>3, <2>1
  <2> QED BY <1>4, <2>1, <2>2 DEF Older
<1>7. \A i, j \in 1..n : i <= j => p[i] >= p[j]
  <2> SUFFICES ASSUME NEW i \in 1..n, NEW j \in 1..n, i <= j
               PROVE  p[i] >= p[j]
    OBVIOUS
  <2>1. past[i] \in 0..Window /\ past[j] \in 0..Window /\ past[i] >= past[j]
    BY <1>3, <1>4
  <2>2. Older(past[i], Window) >= Older(past[j], Window) BY <2>1 DEF Older
  <2> QED BY <1>2, <2>2
<1>8. EndOf(t, p) BY <1>1, <1>2, <1>3, <1>5, <1>6, <1>7 DEF EndOf
<1> QED BY <1>1, <1>2, <1>8 DEF t, p, k, n

(* A full window is the history of a busy minute.                          *)
LEMMA FullIsBusy ==
  ASSUME NEW s \in Times, NEW past \in Times, EndOf(s, past), Len(s) <= Limit,
         Len(Trimmed(s, Window)) >= Limit
  PROVE  /\ Len(past) >= Limit
         /\ \A i \in (Len(past) - Limit + 1)..Len(past) : past[i] < Window
<1> USE ConstantTypes
<1> DEFINE n == Len(past)
           t == Trimmed(s, Window)
<1>1. Len(s) \in Nat /\ n \in Nat /\ Len(t) \in Nat BY TimesFacts, TrimmedEnds
<1>2. /\ Len(t) = Limit /\ EndOf(t, past) BY <1>1, TrimmedEnds
<1>3. /\ Limit <= n
      /\ \A i \in 1..Limit : t[i] = past[n - Limit + i]
      /\ \A i, j \in 1..n : i <= j => past[i] >= past[j]
  BY <1>2 DEF EndOf
<1>4. t[1] < Window
  <2>1. t # <<>> BY <1>2, EmptySeq
  <2> QED BY <2>1, TrimmedIsLive DEF Times
<1>5. \A i \in 1..n : past[i] \in 0..Window BY TimesFacts
<1> HIDE DEF n, t
<1>6. past[n - Limit + 1] < Window /\ n - Limit + 1 \in 1..n
  BY <1>1, <1>3, <1>4
<1>7. ASSUME NEW i \in (n - Limit + 1)..n PROVE past[i] < Window
  <2>1. i \in 1..n /\ n - Limit + 1 <= i BY <1>1, <1>6
  <2>2. past[n - Limit + 1] >= past[i] BY <1>3, <1>6, <2>1
  <2> QED BY <1>5, <1>6, <2>1, <2>2
<1> QED BY <1>3, <1>7 DEF n

-----------------------------------------------------------------------------
(* Type correctness and the windows of all peers.                          *)

(* What the history of a peer keeps is enough for its window.              *)
History ==
  /\ admitted \in [Ips -> Times]
  /\ \A ip \in Ips : Len(admitted[ip]) <= Limit + 1
  /\ \A ip \in Ips : EndOf(hits[ip], admitted[ip])

Typed == TypeOK /\ History

LEMMA IdleType ==
  /\ Idle \in Request
  /\ \A code \in {"ok"} \cup Refusals \cup Codes, spent \in BOOLEAN :
       [Idle EXCEPT !.reply = code, !.spent = spent] \in Request
  /\ \A code \in Refusals : [Idle EXCEPT !.reply = code] \in Request
BY DEF Idle, Request

LEMMA TypeInit == Init => Typed
<1> SUFFICES ASSUME Init PROVE Typed OBVIOUS
<1> USE ConstantTypes
<1>1. hits = [ip \in Ips |-> <<>>] /\ admitted = [ip \in Ips |-> <<>>] BY DEF Init
<1>2. History
  <2>1. \A ip \in Ips : hits[ip] = <<>> /\ admitted[ip] = <<>> BY <1>1
  <2>2. admitted \in [Ips -> Times] BY <1>1, EmptyEnds
  <2>3. 0 <= Limit + 1 OBVIOUS
  <2> QED BY <2>1, <2>2, <2>3, EmptyEnds DEF History
<1>3. /\ hits \in [Ips -> Seq(0..Window)]
      /\ \A ip \in Ips : Len(hits[ip]) <= Limit
  BY <1>1, EmptyEnds DEF Times
<1>4. requests \in [Slots -> Request] BY IdleType DEF Init
<1>5. admitted \in [Ips -> Seq(0..Window)] BY <1>2 DEF History, Times
<1>6. /\ env_key \in Keys \cup {Empty} /\ ai_key \in Keys \cup {Empty}
      /\ status \in {"unknown", "candidate", "confirmed"}
      /\ digested \in BOOLEAN /\ restarts \in 0..MaxRestarts
  BY DEF Init
<1> QED BY <1>2, <1>3, <1>4, <1>5, <1>6 DEF Typed, TypeOK

(* The parts of Typed that a step leaves alone.                            *)
Windows ==
  /\ hits \in [Ips -> Times]
  /\ \A ip \in Ips : Len(hits[ip]) <= Limit
  /\ History

LEMMA TypedParts ==
  Typed <=> /\ Windows
            /\ requests \in [Slots -> Request]
            /\ env_key \in Keys \cup {Empty} /\ ai_key \in Keys \cup {Empty}
            /\ restarts \in 0..MaxRestarts
            /\ status \in {"unknown", "candidate", "confirmed"}
            /\ digested \in BOOLEAN
BY DEF Typed, TypeOK, Windows, History, Times

LEMMA WindowsKept == Windows /\ UNCHANGED <<hits, admitted>> => Windows'
BY DEF Windows, History

(* One request of a peer is let through, or turned away for its rate.      *)
LEMMA WindowsForward ==
  ASSUME Windows, NEW s \in Slots, NEW ip \in Ips, NEW key, NEW tool,
         Forward(s, ip, key, tool)
  PROVE  Windows'
<1> USE ConstantTypes
<1> DEFINE t == Trimmed(hits[ip], Window)
           h == Append(t, 0)
           p == Append(admitted[ip], 0)
<1>1. /\ hits[ip] \in Times /\ admitted[ip] \in Times
      /\ Len(hits[ip]) <= Limit /\ Len(admitted[ip]) <= Limit + 1
      /\ EndOf(hits[ip], admitted[ip])
  BY DEF Windows, History
<1>2. t \in Times /\ EndOf(t, admitted[ip]) BY <1>1, TrimmedEnds
<1>3. Len(t) < Limit
  <2>1. Len(t) \in Nat BY <1>2, TimesFacts
  <2> QED BY <2>1 DEF Forward, Full
<1>4. /\ h \in Times /\ Len(h) = Len(t) + 1
      /\ p \in Times /\ Len(p) = Len(admitted[ip]) + 1
  BY <1>1, <1>2, AppendProperties DEF Times
<1>5. Len(h) <= Limit /\ Len(p) <= Limit + 2
  <2>1. Len(t) \in Nat /\ Len(admitted[ip]) \in Nat BY <1>1, <1>2, TimesFacts
  <2> HIDE DEF t, h, p
  <2> QED BY <1>1, <1>3, <1>4, <2>1
<1>6. EndOf(h, p) BY <1>1, <1>2, AppendedEnds
<1>7. /\ Latest(p) \in Times /\ Len(Latest(p)) <= Limit + 1
      /\ EndOf(h, Latest(p))
  BY <1>4, <1>5, <1>6, LatestEnds
<1>8. /\ hits' = [hits EXCEPT ![ip] = h]
      /\ admitted' = [admitted EXCEPT ![ip] = Latest(p)]
  BY DEF Forward
<1> HIDE DEF t, h, p
<1> QED BY <1>4, <1>5, <1>7, <1>8 DEF Windows, History

LEMMA WindowsLimited ==
  ASSUME Windows, NEW s \in Slots, NEW ip \in Ips, NEW key, Limited(s, ip, key)
  PROVE  Windows'
<1> USE ConstantTypes
<1> DEFINE t == Trimmed(hits[ip], Window)
<1>1. /\ hits[ip] \in Times /\ admitted[ip] \in Times
      /\ Len(hits[ip]) <= Limit /\ EndOf(hits[ip], admitted[ip])
  BY DEF Windows, History
<1>2. t \in Times /\ Len(t) <= Len(hits[ip]) /\ EndOf(t, admitted[ip])
  BY <1>1, TrimmedEnds
<1>3. Len(t) <= Limit
  <2>1. Len(t) \in Nat /\ Len(hits[ip]) \in Nat BY <1>1, <1>2, TimesFacts
  <2> QED BY <1>1, <1>2, <2>1
<1>4. hits' = [hits EXCEPT ![ip] = t] /\ admitted' = admitted
  BY DEF Limited
<1> HIDE DEF t
<1> QED BY <1>2, <1>3, <1>4 DEF Windows, History

LEMMA WindowsTick == Windows /\ Tick => Windows'
<1> SUFFICES ASSUME Windows, Tick PROVE Windows' OBVIOUS
<1>1. /\ hits' = [ip \in Ips |-> Aged(hits[ip], Window)]
      /\ admitted' = [ip \in Ips |-> Aged(admitted[ip], Window)]
  BY DEF Tick
<1>2. ASSUME NEW ip \in Ips
      PROVE  /\ hits'[ip] \in Times /\ admitted'[ip] \in Times
             /\ Len(hits'[ip]) <= Limit /\ Len(admitted'[ip]) <= Limit + 1
             /\ EndOf(hits'[ip], admitted'[ip])
  BY <1>1, AgedEnds DEF Windows, History
<1> QED BY <1>1, <1>2 DEF Windows, History

LEMMA WindowsRestart == Windows /\ Restart => Windows'
<1> SUFFICES ASSUME Restart PROVE Windows' OBVIOUS
<1>1. /\ hits' = [ip \in Ips |-> <<>>] /\ admitted' = [ip \in Ips |-> <<>>]
      /\ 0 <= Limit /\ 0 <= Limit + 1
  BY ConstantTypes DEF Restart
<1> QED BY <1>1, EmptyEnds DEF Windows, History

LEMMA WindowsStep == Windows /\ [Next]_vars => Windows'
<1> SUFFICES ASSUME Windows, [Next]_vars PROVE Windows' OBVIOUS
<1>1. ASSUME NEW s \in Slots, NEW ip \in Ips, NEW key \in Keys \cup {Empty},
             NEW tool \in Tools, Call(s, ip, key, tool)
      PROVE  Windows'
  BY <1>1, WindowsForward, WindowsLimited, WindowsKept DEF Call, Unauthorized
<1>2. ASSUME NEW s \in Slots, Serve(s) PROVE Windows'
  BY <1>2, WindowsKept
  DEF Serve, list_low_confidence_candidates, get_device_digest, Validate, Read,
      Classify, Raise
<1>3. CASE Tick BY <1>3, WindowsTick
<1>4. CASE Restart BY <1>4, WindowsRestart
<1>5. CASE Registry \/ \E key \in Keys \cup {Empty} : Rotate(key)
  BY <1>5, WindowsKept DEF Registry, Rotate
<1>6. CASE UNCHANGED vars BY <1>6, WindowsKept DEF vars
<1> QED BY <1>1, <1>2, <1>3, <1>4, <1>5, <1>6 DEF Next

(* How a step changes a request: a tool is begun for an authorized caller,  *)
(* goes on for the same caller, or is answered.                            *)
Begun(ip, key, tool) ==
  [Idle EXCEPT !.pc = "tool", !.ip = ip, !.key = key, !.tool = tool]

Refused(code) == [Idle EXCEPT !.reply = code]

Answered(code, spent) == [Idle EXCEPT !.reply = code, !.spent = spent]

LEMMA RequestStep ==
  ASSUME requests \in [Slots -> Request], [Next]_vars, NEW s \in Slots
  PROVE  \/ requests'[s] = requests[s]
         \/ requests'[s] = Idle
         \/ \E key \in Keys, ip \in Ips, tool \in Tools :
              /\ Authorized(key)
              /\ requests'[s] = Begun(ip, key, tool)
         \/ \E pc \in {"read", "classify"} :
              /\ requests[s].pc # "idle"
              /\ requests'[s] = [requests[s] EXCEPT !.pc = pc]
         \/ \E code \in Refusals : requests'[s] = Refused(code)
         \/ \E code \in {"ok"} \cup Codes, spent \in BOOLEAN :
              /\ spent => code \in {"ok", "internal_error"}
              /\ requests'[s] = Answered(code, spent)
<1>1. ASSUME NEW t \in Slots, NEW ip \in Ips, NEW key \in Keys \cup {Empty},
             NEW tool \in Tools, Call(t, ip, key, tool)
      PROVE  \/ requests'[s] = requests[s]
             \/ /\ Authorized(key) /\ key \in Keys
                /\ requests'[s] = Begun(ip, key, tool)
             \/ \E code \in Refusals : requests'[s] = Refused(code)
  <2>1. \/ Unauthorized(t, key) \/ Limited(t, ip, key)
        \/ Forward(t, ip, key, tool)
    BY <1>1 DEF Call
  <2>2. CASE Unauthorized(t, key) \/ Limited(t, ip, key)
    <3>1. PICK code \in Refusals : Answer(t, code)
      BY <2>2 DEF Unauthorized, Limited, Refusals
    <3> QED BY <3>1 DEF Answer, Refused
  <2>3. CASE Forward(t, ip, key, tool)
    <3>1. Authorized(key) /\ key \in Keys BY <2>3 DEF Forward, Authorized
    <3>2. requests' = [requests EXCEPT ![t] =
            Begun(ip, key, tool)]
      BY <2>3 DEF Forward, Begun
    <3> QED BY <3>1, <3>2
  <2> QED BY <2>1, <2>2, <2>3
<1>2. ASSUME NEW t \in Slots, Serve(t)
      PROVE  \/ requests'[s] = requests[s]
             \/ \E pc \in {"read", "classify"} :
                  /\ requests[s].pc # "idle"
                  /\ requests'[s] = [requests[s] EXCEPT !.pc = pc]
             \/ \E code \in {"ok"} \cup Codes, spent \in BOOLEAN :
                  /\ spent => code \in {"ok", "internal_error"}
                  /\ requests'[s] = Answered(code, spent)
  <2>1. \/ \E pc \in {"read", "classify"} :
             /\ requests[t].pc # "idle"
             /\ requests' = [requests EXCEPT ![t].pc = pc]
        \/ \E code \in {"ok"} \cup Codes, spent \in BOOLEAN :
             /\ spent => code \in {"ok", "internal_error"}
             /\ Done(t, code, spent)
    <3>1. CASE list_low_confidence_candidates(t) \/ get_device_digest(t)
      BY <3>1 DEF list_low_confidence_candidates, get_device_digest, Codes
    <3>2. ASSUME NEW valid \in BOOLEAN, Validate(t, valid) PROVE <2>1!1 \/ <2>1!2
      BY <3>2 DEF Validate, Codes
    <3>3. ASSUME NEW sampled \in BOOLEAN, Read(t, sampled) PROVE <2>1!1 \/ <2>1!2
      BY <3>3 DEF Read, Codes
    <3>4. CASE Classify(t) BY <3>4 DEF Classify
    <3>5. CASE Raise(t) BY <3>5 DEF Raise, Codes
    <3> QED BY <1>2, <3>1, <3>2, <3>3, <3>4, <3>5 DEF Serve
  <2> QED BY <2>1 DEF Done, Answered
<1>3. CASE Restart BY <1>3 DEF Restart
<1>4. CASE Tick \/ Registry \/ \E key \in Keys \cup {Empty} : Rotate(key)
  BY <1>4 DEF Tick, Registry, Rotate
<1>5. CASE UNCHANGED vars BY <1>5 DEF vars
<1> QED BY <1>1, <1>2, <1>3, <1>4, <1>5 DEF Next

LEMMA RequestsStep ==
  requests \in [Slots -> Request] /\ [Next]_vars
    => requests' \in [Slots -> Request]
<1> SUFFICES ASSUME requests \in [Slots -> Request], [Next]_vars
             PROVE  requests' \in [Slots -> Request]
  OBVIOUS
<1>1. ASSUME NEW s \in Slots PROVE requests'[s] \in Request
  <2>1. requests[s] \in Request OBVIOUS
  <2>2. \A pc \in {"read", "classify"} :
          [requests[s] EXCEPT !.pc = pc] \in Request
    BY <2>1 DEF Request
  <2>3. \A key \in Keys, ip \in Ips, tool \in Tools :
          Begun(ip, key, tool) \in Request
    BY DEF Begun, Idle, Request
  <2>4. \A code \in Refusals : Refused(code) \in Request
    BY IdleType DEF Refused
  <2>5. \A code \in {"ok"} \cup Codes, spent \in BOOLEAN :
          Answered(code, spent) \in Request
    BY IdleType DEF Answered
  <2>6. Idle \in Request BY IdleType
  <2>7. \/ requests'[s] \in {requests[s], Idle}
        \/ \E key \in Keys, ip \in Ips, tool \in Tools :
             requests'[s] = Begun(ip, key, tool)
        \/ \E pc \in {"read", "classify"} :
             requests'[s] = [requests[s] EXCEPT !.pc = pc]
        \/ \E code \in Refusals : requests'[s] = Refused(code)
        \/ \E code \in {"ok"} \cup Codes, spent \in BOOLEAN :
             requests'[s] = Answered(code, spent)
    BY RequestStep
  <2> QED BY <2>1, <2>2, <2>3, <2>4, <2>5, <2>6, <2>7
<1>2. requests' = [s \in Slots |-> requests'[s]]
  BY DEF Next, vars, Call, Unauthorized, Limited, Forward, Answer, Done, Serve,
         list_low_confidence_candidates, get_device_digest, Validate, Read,
         Classify, Raise, Registry, Rotate, Restart, Tick
<1> QED BY <1>1, <1>2

LEMMA TypeStep == Typed /\ [Next]_vars => Typed'
<1> SUFFICES ASSUME Typed, [Next]_vars PROVE Typed' OBVIOUS
<1>1. Windows' /\ requests' \in [Slots -> Request]
  BY TypedParts, WindowsStep, RequestsStep
<1>2. /\ env_key \in Keys \cup {Empty} /\ ai_key \in Keys \cup {Empty}
      /\ restarts \in 0..MaxRestarts
      /\ status \in {"unknown", "candidate", "confirmed"} /\ digested \in BOOLEAN
  BY TypedParts
<1>3. /\ env_key' \in Keys \cup {Empty} /\ ai_key' \in Keys \cup {Empty}
      /\ restarts' \in 0..MaxRestarts
  <2>1. CASE Restart BY <1>2, <2>1, ConstantTypes DEF Restart
  <2>2. CASE \E key \in Keys \cup {Empty} : Rotate(key) BY <1>2, <2>2 DEF Rotate
  <2>3. CASE UNCHANGED config BY <1>2, <2>3 DEF config
  <2> QED
    BY <2>1, <2>2, <2>3
    DEF Next, vars, config, Call, Serve, list_low_confidence_candidates,
        get_device_digest, Validate, Read, Classify, Raise, Registry, Tick
<1>4. /\ status' \in {"unknown", "candidate", "confirmed"}
      /\ digested' \in BOOLEAN
  BY <1>2
  DEF Next, vars, device, Call, Serve, list_low_confidence_candidates,
      get_device_digest, Validate, Read, Classify, Raise, Registry, Rotate,
      Restart, Tick
<1> QED
  <2>1. Windows' /\ requests' \in [Slots -> Request]
        /\ env_key' \in Keys \cup {Empty} /\ ai_key' \in Keys \cup {Empty}
        /\ restarts' \in 0..MaxRestarts
        /\ status' \in {"unknown", "candidate", "confirmed"}
        /\ digested' \in BOOLEAN
    BY <1>1, <1>3, <1>4
  <2> QED BY <2>1 DEF Typed, TypeOK, Windows, History, Times

(* TypeOK, of McpServer.                                                   *)
THEOREM TypeCorrect == Spec => []TypeOK
<1>1. Typed => TypeOK BY DEF Typed
<1> QED BY <1>1, TypeInit, TypeStep, PTL DEF Spec

-----------------------------------------------------------------------------
(* The rate limit.                                                         *)

LEMMA OldestHasLeft == Windows => BurstBounded
<1> SUFFICES ASSUME Windows, NEW ip \in Ips, Len(admitted[ip]) > Limit
             PROVE  admitted[ip][1] >= Window
  BY DEF BurstBounded
<1>1. /\ hits[ip] \in Times /\ admitted[ip] \in Times
      /\ Len(hits[ip]) <= Limit /\ EndOf(hits[ip], admitted[ip])
  BY DEF Windows, History
<1>2. Len(hits[ip]) \in Nat /\ Len(admitted[ip]) \in Nat /\ Limit \in Nat
  BY <1>1, TimesFacts, ConstantTypes
<1>3. 1 \in 1..(Len(admitted[ip]) - Len(hits[ip])) BY <1>1, <1>2
<1> QED BY <1>1, <1>3 DEF EndOf

(* Of Limit + 1 consecutive requests that are let through, the first has    *)
(* left the window.                                                        *)
THEOREM BurstsAreBounded == Spec => []BurstBounded
<1>1. Typed => BurstBounded BY TypedParts, OldestHasLeft
<1> QED BY <1>1, TypeInit, TypeStep, PTL DEF Spec

(* A request that is refused for its rate belongs to a peer of which Limit  *)
(* requests were let through within the minute.                            *)
THEOREM OnlyTheBusyAreLimited == Spec => OnlyBusyLimited
<1>1. Typed /\ [Next]_vars =>
        [\A s \in Slots, ip \in Ips, key \in Keys :
           Limited(s, ip, key) => Busy(ip)]_vars
  <2> SUFFICES ASSUME Typed, NEW s \in Slots, NEW ip \in Ips, NEW key \in Keys,
                      Limited(s, ip, key)
               PROVE  Busy(ip)
    OBVIOUS
  <2>1. /\ hits[ip] \in Times /\ admitted[ip] \in Times
        /\ Len(hits[ip]) <= Limit /\ EndOf(hits[ip], admitted[ip])
    BY TypedParts DEF Windows, History
  <2>2. Len(Trimmed(hits[ip], Window)) >= Limit BY DEF Limited, Full
  <2> QED BY <2>1, <2>2, FullIsBusy DEF Busy
<1> QED BY <1>1, TypeInit, TypeStep, PTL DEF Spec, OnlyBusyLimited

-----------------------------------------------------------------------------
(* The callers.                                                            *)

LEMMA CallsStep ==
  Typed /\ KeyedCallsOnly /\ RefusedWithoutCost /\ [Next]_vars
    => KeyedCallsOnly' /\ RefusedWithoutCost'
<1> SUFFICES ASSUME Typed, KeyedCallsOnly, RefusedWithoutCost, [Next]_vars
             PROVE  KeyedCallsOnly' /\ RefusedWithoutCost'
  OBVIOUS
<1>1. requests \in [Slots -> Request] BY TypedParts
<1>2. ai_key' = ai_key \/ Restart
  BY DEF Next, vars, config, Call, Serve, list_low_confidence_candidates,
         get_device_digest, Validate, Read, Classify, Raise, Registry, Rotate,
         Tick
<1>3. ASSUME NEW s \in Slots
      PROVE  /\ requests'[s].pc # "idle" =>
                  requests'[s].key = ai_key' /\ ai_key' # Empty
             /\ requests'[s].reply \in Refusals \cup (Codes \ {"internal_error"})
                  => ~requests'[s].spent
  <2>1. CASE Restart
    <3>1. requests'[s] = Idle BY <2>1 DEF Restart
    <3> QED BY <3>1 DEF Idle
  <2>2. CASE ai_key' = ai_key
    <3>1. CASE requests'[s] = requests[s]
      BY <2>2, <3>1 DEF KeyedCallsOnly, RefusedWithoutCost
    <3>2. CASE requests'[s] = Idle BY <3>2 DEF Idle
    <3>3. ASSUME NEW key \in Keys, NEW ip \in Ips, NEW tool \in Tools,
                 Authorized(key),
                 requests'[s] = Begun(ip, key, tool)
          PROVE  <1>3!2
      BY <2>2, <3>3 DEF Begun, Idle, Authorized
    <3>4. ASSUME NEW pc \in {"read", "classify"}, requests[s].pc # "idle",
                 requests'[s] = [requests[s] EXCEPT !.pc = pc]
          PROVE  <1>3!2
      <4>1. requests[s] \in Request BY <1>1
      <4> QED BY <2>2, <3>4, <4>1 DEF Request, KeyedCallsOnly, RefusedWithoutCost
    <3>5. ASSUME NEW code \in Refusals,
                 requests'[s] = Refused(code)
          PROVE  <1>3!2
      BY <3>5 DEF Refused, Idle
    <3>6. ASSUME NEW code \in {"ok"} \cup Codes, NEW spent \in BOOLEAN,
                 spent => code \in {"ok", "internal_error"},
                 requests'[s] = Answered(code, spent)
          PROVE  <1>3!2
      BY <3>6 DEF Answered, Idle, Codes, Refusals
    <3> QED BY <1>1, <3>1, <3>2, <3>3, <3>4, <3>5, <3>6, RequestStep
  <2> QED BY <1>2, <2>1, <2>2
<1> QED BY <1>3 DEF KeyedCallsOnly, RefusedWithoutCost

LEMMA CallsInit == Init => KeyedCallsOnly /\ RefusedWithoutCost
BY DEF Init, Idle, KeyedCallsOnly, RefusedWithoutCost, Refusals, Codes, None

(* A tool runs only for the key the process was started with.              *)
THEOREM CallsAreKeyed == Spec => []KeyedCallsOnly
BY TypeInit, TypeStep, CallsInit, CallsStep, PTL DEF Spec

(* Who is told that nothing was done has cost no model call.               *)
THEOREM RefusalsAreFree == Spec => []RefusedWithoutCost
BY TypeInit, TypeStep, CallsInit, CallsStep, PTL DEF Spec

-----------------------------------------------------------------------------
(* The refinement of RateBound, one for each peer.                         *)

(* The Limit latest of what the history of a peer keeps.                   *)
Recent(times) == IF Len(times) > Limit THEN Tail(times) ELSE times

Promise(ip) == INSTANCE RateBound WITH
  Bound  <- Limit,
  ages   <- Recent(admitted[ip])

LEMMA TailFacts ==
  ASSUME NEW s \in Times, s # <<>>
  PROVE  /\ Tail(s) \in Times /\ Len(Tail(s)) = Len(s) - 1
         /\ \A i \in 1..(Len(s) - 1) : Tail(s)[i] = s[i + 1]
BY HeadTailProperties DEF Times

LEMMA TailOfAppend ==
  ASSUME NEW s \in Times, s # <<>>
  PROVE  Tail(Append(s, 0)) = Append(Tail(s), 0)
<1> DEFINE n == Len(s)
           q == Append(s, 0)
           r == Tail(s)
           t == Tail(q)
           u == Append(r, 0)
<1>1. n \in Nat /\ n # 0 BY TimesFacts, EmptySeq
<1>2. /\ q \in Times /\ Len(q) = n + 1
      /\ q[n + 1] = 0 /\ \A i \in 1..n : q[i] = s[i]
  BY ConstantTypes, AppendProperties DEF Times
<1>3. q # <<>> BY <1>1, <1>2, EmptySeq
<1>4. /\ r \in Times /\ Len(r) = n - 1 /\ \A i \in 1..(n - 1) : r[i] = s[i + 1]
  BY TailFacts
<1>5. /\ u \in Times /\ Len(u) = Len(r) + 1 /\ u[Len(r) + 1] = 0
      /\ \A i \in 1..Len(r) : u[i] = r[i]
  <2> HIDE DEF r
  <2> QED BY <1>4, ConstantTypes, AppendProperties DEF Times
<1> HIDE DEF n, q, r, u
<1>6. /\ t \in Times /\ Len(t) = Len(q) - 1
      /\ \A i \in 1..(Len(q) - 1) : t[i] = q[i + 1]
  BY <1>2, <1>3, TailFacts
<1> HIDE DEF t
<1>7. Len(t) = n /\ Len(u) = n BY <1>1, <1>2, <1>4, <1>5, <1>6
<1>8. \A i \in 1..n : t[i] = u[i]
  <2> SUFFICES ASSUME NEW i \in 1..n PROVE t[i] = u[i] OBVIOUS
  <2>1. t[i] = q[i + 1] BY <1>1, <1>2, <1>6
  <2>2. CASE i = n
    <3>1. Len(r) + 1 = n BY <1>1, <1>4
    <3> QED BY <1>2, <1>5, <2>1, <2>2, <3>1
  <2>3. CASE i \in 1..(n - 1)
    <3>1. i + 1 \in 1..n /\ i \in 1..Len(r) BY <1>1, <1>4, <2>3
    <3> QED BY <1>2, <1>4, <1>5, <2>1, <2>3, <3>1
  <2> QED BY <1>1, <2>2, <2>3
<1>9. t = u BY <1>5, <1>6, <1>7, <1>8, SeqEqual DEF Times
<1> QED BY <1>9 DEF t, u, q, r

(* Time passes for the latest requests as for all.                         *)
LEMMA TickPasses ==
  ASSUME Typed, Tick, NEW ip \in Ips
  PROVE  Promise(ip)!Pass
<1> USE ConstantTypes
<1> DEFINE a   == admitted[ip]
           b   == admitted'[ip]
           old == Recent(a)
           new == Recent(b)
           n   == Len(a)
           Grown(age) == IF age < Window THEN age + 1 ELSE Window
<1>1. a \in Times /\ b = Aged(a, Window)
  BY TypedParts DEF Windows, History, Tick
<1>2. /\ b \in Times /\ Len(b) = n
      /\ \A i \in 1..n : b[i] = Older(a[i], Window)
  BY <1>1, AgedTimes DEF Times
<1>3. n \in Nat /\ \A i \in 1..n : a[i] \in 0..Window BY <1>1, TimesFacts
<1>4. \A i \in 1..n : b[i] = Grown(a[i])
  <2> SUFFICES ASSUME NEW i \in 1..n PROVE b[i] = Grown(a[i]) OBVIOUS
  <2>1. a[i] \in 0..Window /\ b[i] = Older(a[i], Window) BY <1>2, <1>3
  <2> HIDE DEF a, b, n
  <2> QED BY <2>1 DEF Older
<1> HIDE DEF a, b, n, Grown
<1>5. new = [i \in DOMAIN old |-> Grown(old[i])]
  <2>1. CASE n > Limit
    <3>1. a # <<>> /\ b # <<>> BY <1>2, <1>3, <2>1, EmptySeq DEF n
    <3>2. /\ old = Tail(a) /\ new = Tail(b) BY <1>2, <2>1 DEF Recent, n
    <3>3. /\ old \in Times /\ Len(old) = n - 1
          /\ \A i \in 1..(n - 1) : old[i] = a[i + 1]
          /\ new \in Times /\ Len(new) = n - 1
          /\ \A i \in 1..(n - 1) : new[i] = b[i + 1]
      BY <1>1, <1>2, <3>1, <3>2, TailFacts DEF n
    <3>4. \A i \in 1..(n - 1) : new[i] = Grown(old[i])
      <4> SUFFICES ASSUME NEW i \in 1..(n - 1) PROVE new[i] = Grown(old[i])
        OBVIOUS
      <4>1. i + 1 \in 1..n BY <1>3
      <4> HIDE DEF old, new
      <4> QED BY <1>4, <3>3, <4>1
    <3>5. /\ DOMAIN old = 1..(n - 1) /\ DOMAIN new = 1..(n - 1)
          /\ new = [i \in DOMAIN new |-> new[i]]
      BY <3>3, LenProperties DEF Times
    <3> HIDE DEF old, new
    <3> QED BY <3>4, <3>5
  <2>2. CASE ~(n > Limit)
    <3>1. old = a /\ new = b BY <1>2, <2>2 DEF Recent, n
    <3>2. /\ DOMAIN a = 1..n /\ DOMAIN b = 1..n /\ b = [i \in DOMAIN b |-> b[i]]
      BY <1>1, <1>2, LenProperties DEF Times, n
    <3> QED BY <1>4, <3>1, <3>2
  <2> QED BY <2>1, <2>2
<1> QED BY <1>5 DEF Promise!Pass, a, b, Grown

(* What is let through is an event that RateBound allows.                  *)
LEMMA ForwardOccurs ==
  ASSUME Typed, NEW s \in Slots, NEW ip \in Ips, NEW key, NEW tool,
         Forward(s, ip, key, tool)
  PROVE  Promise(ip)!Occur
<1> USE ConstantTypes
<1> DEFINE a == admitted[ip]
           b == admitted'[ip]
           n == Len(a)
           p == Append(a, 0)
<1>1. /\ a \in Times /\ n <= Limit + 1 /\ n \in Nat
      /\ b = Latest(p)
  BY TypedParts, TimesFacts DEF Windows, History, Forward
<1>2. /\ p \in Times /\ Len(p) = n + 1
      /\ \A i \in 1..n : p[i] = a[i]
  BY <1>1, AppendProperties DEF Times
<1>3. Len(b) > Limit => b[1] >= Window
  <2>1. Windows' BY TypedParts, WindowsForward
  <2>2. BurstBounded' BY <2>1, OldestHasLeft, PTL
  <2> QED BY <2>2 DEF BurstBounded
<1> HIDE DEF a, b, n, p
<1>4. CASE n < Limit
  <2>1. b = p BY <1>1, <1>2, <1>4 DEF Latest
  <2>2. Recent(a) = a /\ Recent(b) = p BY <1>1, <1>2, <1>4, <2>1 DEF Recent, n
  <2> QED BY <1>4, <2>2 DEF Promise!Occur, a, b, n, p
<1>5. CASE n = Limit
  <2>1. b = p BY <1>1, <1>2, <1>5 DEF Latest
  <2>2. Recent(a) = a /\ Recent(b) = Tail(p) BY <1>1, <1>2, <1>5, <2>1 DEF Recent, n
  <2>3. a # <<>> BY <1>5, EmptySeq DEF n
  <2>4. Tail(p) = Append(Tail(a), 0) BY <1>1, <2>3, TailOfAppend DEF p
  <2>5. a[1] >= Window
    <3>1. 1 \in 1..n /\ Len(b) > Limit BY <1>1, <1>2, <1>5, <2>1
    <3> QED BY <1>2, <1>3, <2>1, <3>1
  <2> QED BY <1>5, <2>2, <2>4, <2>5 DEF Promise!Occur, a, b, n
<1>6. CASE n = Limit + 1
  <2>1. b = Tail(p) BY <1>1, <1>2, <1>6 DEF Latest
  <2>2. a # <<>> BY <1>6, EmptySeq DEF n
  <2>3. b = Append(Tail(a), 0) BY <1>1, <2>1, <2>2, TailOfAppend DEF p
  <2>4. /\ Tail(a) \in Times /\ Len(Tail(a)) = Limit /\ Tail(a) # <<>>
        /\ Tail(a)[1] = a[2]
    <3>1. /\ Tail(a) \in Times /\ Len(Tail(a)) = n - 1
          /\ \A i \in 1..(n - 1) : Tail(a)[i] = a[i + 1]
      BY <1>1, <2>2, TailFacts DEF n
    <3>2. 1 \in 1..(n - 1) /\ n - 1 = Limit /\ 1 + 1 = 2 BY <1>1, <1>6
    <3>3. Len(Tail(a)) # 0 BY <3>1, <3>2
    <3> QED BY <3>1, <3>2, <3>3, EmptySeq
  <2>5. /\ Len(b) = Limit + 1 /\ b[1] = Tail(a)[1]
    <3>1. 1 \in 1..Len(Tail(a)) BY <2>4
    <3> QED BY <2>3, <2>4, <3>1, AppendProperties DEF Times
  <2>6. Tail(b) = Append(Tail(Tail(a)), 0) BY <2>3, <2>4, TailOfAppend
  <2>7. Tail(a)[1] >= Window
    <3>1. Len(b) > Limit BY <2>5
    <3> QED BY <1>3, <2>5, <3>1
  <2>8. Recent(a) = Tail(a) /\ Recent(b) = Tail(b)
    BY <1>6, <2>5 DEF Recent, n
  <2> QED BY <2>4, <2>6, <2>7, <2>8 DEF Promise!Occur, a, b
<1> QED BY <1>1, <1>4, <1>5, <1>6

(* The middleware keeps the promise of RateBound to each peer: every step   *)
(* lets time pass, lets a request through that is allowed, forgets at a     *)
(* restart, or stutters.                                                   *)
THEOREM Implements == ASSUME NEW ip \in Ips PROVE Spec => Promise(ip)!Spec
<1>1. Init => Promise(ip)!Init
  <2> SUFFICES ASSUME Init PROVE Recent(admitted[ip]) = <<>>
    BY DEF Promise!Init
  <2>1. admitted[ip] = <<>> BY DEF Init
  <2> QED BY <2>1, EmptyEnds, ConstantTypes DEF Recent
<1>2. Typed /\ [Next]_vars => [Promise(ip)!Next]_(Recent(admitted[ip]))
  <2> SUFFICES ASSUME Typed, [Next]_vars
               PROVE  [Promise(ip)!Next]_(Recent(admitted[ip]))
    OBVIOUS
  <2>1. CASE Tick BY <2>1, TickPasses DEF Promise!Next
  <2>2. CASE Restart
    <3>1. admitted'[ip] = <<>> BY <2>2 DEF Restart
    <3>2. Recent(admitted'[ip]) = <<>>
      BY <3>1, EmptyEnds, ConstantTypes DEF Recent
    <3> QED BY <3>2 DEF Promise!Next, Promise!Forget
  <2>3. ASSUME NEW s \in Slots, NEW p \in Ips, NEW key \in Keys \cup {Empty},
               NEW tool \in Tools, Forward(s, p, key, tool)
        PROVE  [Promise(ip)!Next]_(Recent(admitted[ip]))
    <3>1. CASE p = ip BY <2>3, <3>1, ForwardOccurs DEF Promise!Next
    <3>2. CASE p # ip
      <4>1. admitted'[ip] = admitted[ip] BY <2>3, <3>2 DEF Forward
      <4> QED BY <4>1
    <3> QED BY <3>1, <3>2
  <2>4. CASE UNCHANGED admitted BY <2>4
  <2>5. \/ Tick \/ Restart \/ UNCHANGED admitted
        \/ \E s \in Slots, p \in Ips, key \in Keys \cup {Empty}, tool \in Tools :
             Forward(s, p, key, tool)
    BY DEF Next, vars, Call, Unauthorized, Limited, Serve,
           list_low_confidence_candidates, get_device_digest, Validate, Read,
           Classify, Raise, Registry, Rotate
  <2> QED BY <2>1, <2>2, <2>3, <2>4, <2>5
<1> QED BY <1>1, <1>2, TypeInit, TypeStep, PTL DEF Spec, Promise!Spec
=============================================================================
