----------------------------- MODULE McpServer -----------------------------
(***************************************************************************)
(* The MCP server of device-service: AuthRateLimitMiddleware and _run_tool *)
(* of mcp_server.py and the three tools of mcp_tools.py.                   *)
(*                                                                         *)
(* The middleware decides about a request without an await, in one step; a *)
(* tool gives way to other requests at its awaits.  The classification of  *)
(* a device is one long step here.  Times are ages (SlidingWindow).        *)
(*                                                                         *)
(* admitted is a history variable: the program does not have it.  A        *)
(* definition marked "Faulty" is no part of the model: it is a plausible   *)
(* bug that the properties are shown to notice.                            *)
(***************************************************************************)
EXTENDS SlidingWindow, FiniteSets

CONSTANTS
  Ips,            \* the peers the server tells apart
  Keys,           \* API keys; Empty is none of them
  Slots,          \* bound: requests at a time
  Limit,          \* RATE_LIMIT_PER_MIN
  Window,         \* a minute
  MaxRestarts     \* bound: restarts

Empty == "empty"
None  == "none"

ASSUME McpAssumption ==
  /\ Empty \notin Keys
  /\ None \notin Ips \cup Keys \cup {Empty}
  /\ Limit \in Nat \ {0} /\ Window \in Nat \ {0}
  /\ MaxRestarts \in Nat

VARIABLES
  env_key,        \* AI_API_KEY in the environment
  ai_key,         \* what build_app read of it
  hits,           \* _hits: of each peer, the ages of what it was admitted
  requests,       \* one request per slot
  status,         \* devices.status of the device asked for, or "unknown"
  digested,       \* it has a row in device_review_digests
  restarts,       \* restarts so far
  admitted        \* history: ages of the latest requests of each peer that
                  \* this process let through

config == <<env_key, ai_key, restarts>>
device == <<status, digested>>
vars   == <<env_key, ai_key, hits, requests, status, digested, restarts,
            admitted>>

Tools == {"list", "digest", "classify"}

Refusals == {"unauthorized", "limited"}

(* The codes of ToolError.                                                 *)
Codes == {"not_found", "invalid_hint", "not_reclassifiable", "internal_error"}

Request == [pc : {"idle", "tool", "read", "classify"},
            ip : Ips \cup {None}, key : Keys \cup {Empty, None},
            tool : Tools \cup {None},
            reply : {"ok", None} \cup Refusals \cup Codes,
            spent : BOOLEAN]

Idle == [pc |-> "idle", ip |-> None, key |-> None, tool |-> None,
         reply |-> None, spent |-> FALSE]

Init ==
  /\ env_key \in Keys \cup {Empty}
  /\ ai_key = env_key
  /\ hits = [ip \in Ips |-> <<>>]
  /\ requests = [s \in Slots |-> Idle]
  /\ status \in {"unknown", "candidate", "confirmed"}
  /\ digested \in {b \in BOOLEAN : status = "unknown" => ~b}
  /\ restarts = 0
  /\ admitted = [ip \in Ips |-> <<>>]

-----------------------------------------------------------------------------
(* AuthRateLimitMiddleware                                                 *)

(* Faulty: an empty key is compared like any other.                        *)
Authorized_FailOpen(key) == key = ai_key

(* An empty configured key denies everybody.                               *)
Authorized(key) == ai_key # Empty /\ key = ai_key

(* Faulty: the limit is one too high.                                      *)
Full_OffByOne(ip) == Len(Trimmed(hits[ip], Window)) > Limit

Full(ip) == Len(Trimmed(hits[ip], Window)) >= Limit

Answer(s, code) == requests' = [requests EXCEPT ![s] = [Idle EXCEPT !.reply = code]]

Unauthorized(s, key) ==
  /\ ~Authorized(key)
  /\ Answer(s, "unauthorized")
  /\ UNCHANGED <<hits, admitted>>

(* Faulty: a refused request counts like an admitted one.                  *)
Limited_Counted(s, ip, key) ==
  /\ Authorized(key) /\ Full(ip)
  /\ hits' = [hits EXCEPT ![ip] = Append(Tail(Trimmed(@, Window)), 0)]
  /\ Answer(s, "limited")
  /\ UNCHANGED admitted

Limited(s, ip, key) ==
  /\ Authorized(key) /\ Full(ip)
  /\ hits' = [hits EXCEPT ![ip] = Trimmed(@, Window)]
  /\ Answer(s, "limited")
  /\ UNCHANGED admitted

(* What the history keeps: enough to notice one admission too many.        *)
Latest(times) ==
  IF Len(times) > Limit + 1 THEN Tail(times) ELSE times

Forward(s, ip, key, tool) ==
  /\ Authorized(key) /\ ~Full(ip)
  /\ hits' = [hits EXCEPT ![ip] = Append(Trimmed(@, Window), 0)]
  /\ admitted' = [admitted EXCEPT ![ip] = Latest(Append(@, 0))]
  /\ requests' = [requests EXCEPT ![s] =
       [Idle EXCEPT !.pc = "tool", !.ip = ip, !.key = key, !.tool = tool]]

(* /healthz and what is not HTTP pass by and change nothing.               *)
Call(s, ip, key, tool) ==
  /\ requests[s].pc = "idle"
  /\ \/ Unauthorized(s, key)
     \/ Limited(s, ip, key)
     \/ Forward(s, ip, key, tool)
  /\ UNCHANGED <<config, device>>

-----------------------------------------------------------------------------
(* _run_tool                                                               *)

(* A result, or a ToolError, is given to the client (and to the log).      *)
Done(s, code, spent) ==
  requests' = [requests EXCEPT ![s] =
    [Idle EXCEPT !.reply = code, !.spent = spent]]

(* Any other exception, of a read or of a classification that had or had   *)
(* not got as far as the model.                                            *)
Raise(s) ==
  /\ requests[s].pc # "idle"
  /\ \E spent \in {b \in BOOLEAN : b => requests[s].pc = "classify"} :
       Done(s, "internal_error", spent)
  /\ UNCHANGED <<hits, admitted, config, device>>

list_low_confidence_candidates(s) ==
  /\ requests[s].pc = "tool" /\ requests[s].tool = "list"
  /\ Done(s, "ok", FALSE)
  /\ UNCHANGED <<hits, admitted, config, device>>

get_device_digest(s) ==
  /\ requests[s].pc = "tool" /\ requests[s].tool = "digest"
  /\ Done(s, IF digested THEN "ok" ELSE "not_found", FALSE)
  /\ UNCHANGED <<hits, admitted, config, device>>

(* classify_with_context: the hint is validated first.                     *)
Validate(s, valid) ==
  /\ requests[s].pc = "tool" /\ requests[s].tool = "classify"
  /\ IF valid
     THEN requests' = [requests EXCEPT ![s].pc = "read"]
     ELSE Done(s, "invalid_hint", FALSE)
  /\ UNCHANGED <<hits, admitted, config, device>>

(* reclassify_device: a candidate with samples is classified, no other.    *)
Read(s, sampled) ==
  /\ requests[s].pc = "read"
  /\ IF status = "candidate" /\ sampled
     THEN requests' = [requests EXCEPT ![s].pc = "classify"]
     ELSE Done(s, "not_reclassifiable", FALSE)
  /\ UNCHANGED <<hits, admitted, config, device>>

(* Faulty: what became of the device is looked up after the model call.    *)
Classify_CheckLate(s) ==
  /\ requests[s].pc = "classify"
  /\ \E spent \in BOOLEAN :
       Done(s, IF status = "candidate" THEN "ok" ELSE "not_reclassifiable",
            spent)
  /\ IF status = "candidate"
     THEN /\ digested' = TRUE
          /\ status' \in {"candidate", "confirmed"}
     ELSE UNCHANGED device
  /\ UNCHANGED <<hits, admitted, config>>

(* classify_under_budget may fall back without a model call.  The row and  *)
(* its digest are written if it still is a candidate; the client gets the  *)
(* digest of this outcome all the same.                                    *)
Classify(s) ==
  /\ requests[s].pc = "classify"
  /\ \E spent \in BOOLEAN : Done(s, "ok", spent)
  /\ IF status = "candidate"
     THEN /\ digested' = TRUE
          /\ status' \in {"candidate", "confirmed"}
     ELSE UNCHANGED device
  /\ UNCHANGED <<hits, admitted, config>>

Serve(s) ==
  \/ list_low_confidence_candidates(s)
  \/ get_device_digest(s)
  \/ \E valid \in BOOLEAN : Validate(s, valid)
  \/ \E sampled \in BOOLEAN : Read(s, sampled)
  \/ Classify(s)
  \/ Raise(s)

-----------------------------------------------------------------------------
(* The REST service and its operators create, confirm and demote devices.  *)
Registry ==
  /\ \/ status = "unknown" /\ status' = "candidate"
     \/ status = "candidate" /\ status' = "confirmed"
     \/ status = "confirmed" /\ status' = "candidate"
  /\ UNCHANGED <<digested, hits, admitted, config, requests>>

Rotate(key) ==
  /\ env_key' = key
  /\ UNCHANGED <<ai_key, restarts, hits, admitted, device, requests>>

(* docker compose restart device-service-mcp                               *)
Restart ==
  /\ restarts < MaxRestarts
  /\ restarts' = restarts + 1
  /\ ai_key' = env_key
  /\ hits' = [ip \in Ips |-> <<>>]
  /\ admitted' = [ip \in Ips |-> <<>>]
  /\ requests' = [s \in Slots |-> Idle]
  /\ UNCHANGED <<env_key, device>>

Tick ==
  /\ hits' = [ip \in Ips |-> Aged(hits[ip], Window)]
  /\ admitted' = [ip \in Ips |-> Aged(admitted[ip], Window)]
  /\ UNCHANGED <<config, device, requests>>

Next ==
  \/ \E s \in Slots, ip \in Ips, key \in Keys \cup {Empty}, tool \in Tools :
       Call(s, ip, key, tool)
  \/ \E s \in Slots : Serve(s)
  \/ Registry
  \/ \E key \in Keys \cup {Empty} : Rotate(key)
  \/ Restart
  \/ Tick

Spec == Init /\ [][Next]_vars

-----------------------------------------------------------------------------
(* Properties                                                              *)

(* Keys, windows, requests and the device have their types.                *)
TypeOK ==
  /\ env_key \in Keys \cup {Empty} /\ ai_key \in Keys \cup {Empty}
  /\ hits \in [Ips -> Seq(0..Window)]
  /\ \A ip \in Ips : Len(hits[ip]) <= Limit
  /\ requests \in [Slots -> Request]
  /\ status \in {"unknown", "candidate", "confirmed"}
  /\ digested \in BOOLEAN
  /\ restarts \in 0..MaxRestarts
  /\ admitted \in [Ips -> Seq(0..Window)]

(* Within any minute a process lets at most Limit requests of a peer       *)
(* through, however they are spread over the ends of the window: of        *)
(* Limit + 1 consecutive ones the first is at least a minute older.        *)
BurstBounded ==
  \A ip \in Ips : Len(admitted[ip]) > Limit => admitted[ip][1] >= Window

(* The Limit latest requests of a peer were let through within the minute. *)
Busy(ip) ==
  LET n == Len(admitted[ip])
  IN n >= Limit /\ \A i \in n - Limit + 1 .. n : admitted[ip][i] < Window

(* A request is refused for its rate only when Limit requests of the same  *)
(* peer were admitted within the minute: neither other peers nor requests  *)
(* that were turned away use up its share.                                 *)
OnlyBusyLimited ==
  [][\A s \in Slots, ip \in Ips, key \in Keys :
       Limited(s, ip, key) => Busy(ip)]_vars

(* A tool runs only for a caller who presented the key the process was     *)
(* started with, and for nobody when that key is empty, through rotations  *)
(* and restarts.                                                           *)
KeyedCallsOnly ==
  \A s \in Slots : requests[s].pc # "idle" =>
    requests[s].key = ai_key /\ ai_key # Empty

(* A caller who is told that nothing was done has cost no model call.      *)
RefusedWithoutCost ==
  \A s \in Slots :
    requests[s].reply \in Refusals \cup (Codes \ {"internal_error"})
      => ~requests[s].spent
=============================================================================
