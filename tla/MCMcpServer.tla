---------------------------- MODULE MCMcpServer ----------------------------
(* Two peers with a window of two ticks, one key and no key.             *)
EXTENDS McpServer, TLC

CONSTANTS ip1, ip2, s1, s2

(* Peers are alike, and so are the slots of requests.                    *)
Alike == Permutations({ip1, ip2}) \cup Permutations({s1, s2})
=============================================================================
