---------------------------- MODULE MCDiscovery ----------------------------
(* A small instance of Discovery: a meter, a sensor with two topics, one of *)
(* them in the legacy map, a second device behind a sensor topic, and       *)
(* messages the matrix refuses.                                             *)
EXTENDS Discovery, TLC

CONSTANTS meter, s001, temp_01, sensor_001, press, overlong

MCLegacy     == temp_01 :> sensor_001
MCNormalized == [s \in Names |-> IF s = s001 THEN sensor_001 ELSE overlong]

Plain(root, name, payload_id) ==
  [topic |-> [root |-> root, name |-> name], device_id |-> payload_id,
   oversized |-> FALSE, many_fields |-> FALSE]

MCMessages ==
  {Plain("ems", meter, None), Plain("sensor", s001, None),
   Plain("sensor", temp_01, press), Plain("sensor", s001, press),
   Plain("sensor", meter, overlong)}
=============================================================================
