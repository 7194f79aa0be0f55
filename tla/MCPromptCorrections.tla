------------------------ MODULE MCPromptCorrections ------------------------
(* Two devices that share a gateway.  The prompt of "large" is so long     *)
(* already that some corrections do not fit even alone.                    *)
EXTENDS PromptCorrections, FiniteSetsExt

MCRelevant == [d \in Devices |-> IF d = "large" THEN Ids ELSE Ids \ {1}]

Size(c) == IF c = 2 THEN 3 ELSE 2

MCRendered ==
  [d \in Devices |-> [S \in SUBSET (Ids \cup {Hint}) |->
     (IF d = "small" THEN 1 ELSE 4) + MapThenSumSet(Size, S)]]
=============================================================================
