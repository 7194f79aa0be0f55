--------------------------- MODULE MCCorrections ---------------------------
(* Corrections of long ago for three devices by three keys, limits of one,  *)
(* thresholds of two and three, and requests that meet at every lock.       *)
EXTENDS Corrections

CONSTANTS d1, d2, d3, k1, k2, k3, s1, s2

Seed(d, k) == [device |-> d, key |-> k, created_at |-> 0, active |-> TRUE]
MCSeeds == <<Seed(d1, k1), Seed(d2, k2), Seed(d3, k3)>>

MCAlerts == {[count |-> 2, window |-> 1], [count |-> 3, window |-> 2]}

MCFeedbacks     == {<<d1, k1>>, <<d2, k1>>, <<d1, k2>>}
MCDeactivations == {<<1, k1>>, <<2, k1>>, <<3, k1>>, <<1, None>>}
MCOutcomes      == {<<d1, <<1, 2>>>>, <<d2, <<2, 1>>>>}
=============================================================================
