----------------------------- MODULE RateBound -----------------------------
(***************************************************************************)
(* What a rate limit promises, without the way it is counted: of any       *)
(* Bound + 1 consecutive events, the first and the last are at least       *)
(* Window apart.  Only the ages of the Bound latest events matter, and an  *)
(* age is of no interest once it has reached Window.                       *)
(***************************************************************************)
EXTENDS Naturals, Sequences

CONSTANTS
  Bound,    \* a positive number of events
  Window    \* a duration

VARIABLE ages    \* ages of the latest events, oldest first

Init == ages = <<>>

Pass ==
  ages' = [i \in DOMAIN ages |->
             IF ages[i] < Window THEN ages[i] + 1 ELSE Window]

Occur ==
  \/ Len(ages) < Bound /\ ages' = Append(ages, 0)
  \/ Len(ages) = Bound /\ ages[1] >= Window /\ ages' = Append(Tail(ages), 0)

(* The events of a process that has been restarted do not count.           *)
Forget == ages' = <<>>

Next == Pass \/ Occur \/ Forget

Spec == Init /\ [][Next]_ages
=============================================================================
