----------------------------- MODULE MCSignals -----------------------------
(* Two names, one of them active at first; bodies that share no name, that  *)
(* hold both, and that name one twice.                                     *)
EXTENDS Signals

CONSTANTS a, b

MCBodies == {<<a>>, <<b>>, <<b, a>>, <<a, a>>}
=============================================================================
