--------------------------- MODULE SlidingWindow ---------------------------
(***************************************************************************)
(* The sliding windows device-service keeps in memory: a deque of times,   *)
(* oldest first.  A time is represented by its age, and an age stops       *)
(* growing at a horizon beyond which nothing can tell it apart.            *)
(***************************************************************************)
EXTENDS Naturals, Sequences, FiniteSetsExt

Older(age, horizon) == IF age < horizon THEN age + 1 ELSE age

Aged(times, horizon) ==
  [i \in DOMAIN times |-> Older(times[i], horizon)]

(* while times and now - times[0] >= window: popleft()                     *)
Trimmed(times, window) ==
  LET Live == {i \in DOMAIN times : times[i] < window}
  IN IF Live = {} THEN <<>> ELSE SubSeq(times, Min(Live), Len(times))
=============================================================================
