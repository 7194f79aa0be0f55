------------------------- MODULE PromptCorrections -------------------------
(***************************************************************************)
(* How human corrections get into a prompt: load_correction_context of     *)
(* discovery_pipeline.py with retrieve_relevant and mark_applied of        *)
(* correction_repo.py, and the 32 KB cap of correction_context.py, whose   *)
(* binary search is modelled probe by probe.  Two processes classify (the  *)
(* REST service with its MQTT loop, the MCP server) and the endpoints      *)
(* create and deactivate corrections meanwhile.                            *)
(*                                                                         *)
(* A correction is its id; created_at grows with it.  The rendered JSON    *)
(* is represented by its length, which depends on the set of contexts.     *)
(*                                                                         *)
(* shown and discarded are history variables: the program does not have    *)
(* them.  shown is counted where the model answers, long before persist_   *)
(* outcome marks anything.  A definition marked "Faulty" is no part of the *)
(* model: it is a plausible bug that the properties are shown to notice.   *)
(***************************************************************************)
EXTENDS Integers, Sequences, FiniteSets, Functions

CONSTANTS
  Devices,
  Relevant,     \* the corrections related to a device, in one of four ways
  Rendered,     \* bytes of a device's prompt with a set of contexts
  Cap,          \* PROMPT_SIZE_CAP_BYTES
  Workers,
  MaxId,        \* bound: corrections created
  MaxRuns       \* bound: classifications started

Ids == 1..MaxId
Hint == 0       \* the context of an MCP hint, which no row holds
None == "none"

ASSUME PromptAssumption ==
  /\ MaxId \in Nat /\ MaxRuns \in Nat /\ Cap \in Nat
  /\ None \notin Devices
  /\ IsFiniteSet(Workers)
  /\ Relevant \in [Devices -> SUBSET Ids]
  /\ Rendered \in [Devices -> [SUBSET (Ids \cup {Hint}) -> Nat]]

(* Another element never shortens a JSON list.                             *)
ASSUME RenderedGrows ==
  \A d \in Devices, S, T \in SUBSET (Ids \cup {Hint}) :
    S \subseteq T => Rendered[d][S] <= Rendered[d][T]

VARIABLES
  corrections,  \* rows of device_corrections
  last_id,      \* the last id given out
  clock,        \* now() of the latest transaction that marks corrections
  runs,         \* classifications started
  run,          \* what each worker is busy with
  shown,        \* history: how often a correction was in an answered prompt
  discarded     \* history: how often that answer was thrown away

table   == <<corrections, last_id>>
history == <<shown, discarded>>
vars    == <<corrections, last_id, clock, runs, run, shown, discarded>>

-----------------------------------------------------------------------------
NoRow == [is_active |-> FALSE, applied_count |-> 0, last_applied_at |-> 0]

Idle == [pc |-> "idle", device |-> None, hint |-> FALSE, rows |-> <<>>,
         best |-> 0, lo |-> 0, hi |-> 0, source |-> "none", stamp |-> 0]

Init ==
  /\ corrections = [k \in Ids |-> NoRow]
  /\ last_id = 0
  /\ clock = 0
  /\ runs = 0
  /\ run = [w \in Workers |-> Idle]
  /\ shown = [k \in Ids |-> 0]
  /\ discarded = [k \in Ids |-> 0]

-----------------------------------------------------------------------------
(* The endpoints.                                                          *)

create ==
  /\ last_id < MaxId
  /\ last_id' = last_id + 1
  /\ corrections' = [corrections EXCEPT ![last_id + 1].is_active = TRUE]
  /\ UNCHANGED <<clock, runs, run, history>>

deactivate(k) ==
  /\ corrections[k].is_active
  /\ corrections' = [corrections EXCEPT ![k].is_active = FALSE]
  /\ UNCHANGED <<last_id, clock, runs, run, history>>

-----------------------------------------------------------------------------
(* retrieve_relevant                                                       *)

(* ORDER BY last_applied_at DESC NULLS LAST, created_at DESC, id DESC; no  *)
(* last_applied_at is 0, which is smaller than every time.                 *)
Before(a, b) ==
  LET s == corrections[a].last_applied_at
      t == corrections[b].last_applied_at
  IN s > t \/ (s = t /\ a > b)

Candidates(d) == {k \in Relevant[d] : corrections[k].is_active}

Retrieved(d) ==
  {rows \in [1..Cardinality(Candidates(d)) -> Candidates(d)] :
     \A i, j \in DOMAIN rows : i < j => Before(rows[i], rows[j])}

-----------------------------------------------------------------------------
(* load_correction_context                                                 *)

(* Faulty: the hint comes last.                                            *)
Contexts_HintLast(r) == IF r.hint THEN Append(r.rows, Hint) ELSE r.rows

(* The hint comes first, so that it is the last to be dropped.             *)
Contexts(r) == IF r.hint THEN <<Hint>> \o r.rows ELSE r.rows

Prefix(r, k) == Range(SubSeq(Contexts(r), 1, k))

Fits(r, k) == Rendered[r.device][Prefix(r, k)] <= Cap

Kept(r) == Prefix(r, r.best)

(* Faulty: the hint is not left out of the count.                          *)
applied_ids_NoOffset(r) ==
  {r.rows[i] : i \in {j \in DOMAIN r.rows : j <= r.best}}

(* corr_rows[i]["id"] for i in range(max(0, len(kept) - offset))           *)
applied_ids(r) ==
  {r.rows[i] : i \in {j \in DOMAIN r.rows :
                        j <= r.best - (IF r.hint THEN 1 ELSE 0)}}

(* All of them, or a search for the longest prefix that fits.              *)
Capped(r) ==
  LET n == Len(Contexts(r))
  IN IF n = 0 \/ Fits(r, n)
     THEN [r EXCEPT !.pc = "loaded", !.best = n]
     ELSE [r EXCEPT !.pc = "search", !.best = 0, !.lo = 0, !.hi = n]

Load(w, d, hint) ==
  /\ run[w].pc = "idle"
  /\ runs < MaxRuns
  /\ \E rows \in Retrieved(d) :
       run' = [run EXCEPT ![w] =
         Capped([Idle EXCEPT !.device = d, !.hint = hint, !.rows = rows])]
  /\ runs' = runs + 1
  /\ UNCHANGED <<table, clock, history>>

(* Faulty: the probe that failed stays in the interval.                    *)
Halve_KeepsMid(r) ==
  LET mid == (r.lo + r.hi) \div 2
  IN IF Fits(r, mid)
     THEN [r EXCEPT !.best = mid, !.lo = mid + 1]
     ELSE [r EXCEPT !.hi = mid]

(* Faulty: best is one short of the probe that fitted.                     *)
Halve_Short(r) ==
  LET mid == (r.lo + r.hi) \div 2
  IN IF Fits(r, mid)
     THEN [r EXCEPT !.best = mid - 1, !.lo = mid + 1]
     ELSE [r EXCEPT !.hi = mid - 1]

(* One round of cap_to_prompt_size's loop.                                 *)
Halve(r) ==
  LET mid == (r.lo + r.hi) \div 2
  IN IF Fits(r, mid)
     THEN [r EXCEPT !.best = mid, !.lo = mid + 1]
     ELSE [r EXCEPT !.hi = mid - 1]

(* Faulty: an interval of one element is not probed.                       *)
cap_to_prompt_size_Strict(w) ==
  /\ run[w].pc = "search"
  /\ run' = [run EXCEPT ![w] =
       IF @.lo < @.hi THEN Halve(@) ELSE [@ EXCEPT !.pc = "loaded"]]
  /\ UNCHANGED <<table, clock, runs, history>>

cap_to_prompt_size(w) ==
  /\ run[w].pc = "search"
  /\ run' = [run EXCEPT ![w] =
       IF @.lo <= @.hi THEN Halve(@) ELSE [@ EXCEPT !.pc = "loaded"]]
  /\ UNCHANGED <<table, clock, runs, history>>

-----------------------------------------------------------------------------
(* Classifier.classify, as far as it decides what becomes of the prompt.   *)

CountKept(counter, w) ==
  [k \in Ids |-> IF k \in Kept(run[w]) THEN counter[k] + 1 ELSE counter[k]]

(* The model has answered, and the outcome is not a fallback so far.       *)
Unmarked(r) == r.pc = "answered" \/ (r.pc = "persist" /\ r.source = "llm")

(* The worker will not mark the corrections of an answer it has.           *)
Discard(w) ==
  discarded' = IF Unmarked(run[w]) THEN CountKept(discarded, w) ELSE discarded

(* L1 answers; attempts that fail are not counted.                         *)
L1Answers(w) ==
  /\ run[w].pc = "loaded"
  /\ run' = [run EXCEPT ![w].pc = "answered"]
  /\ shown' = CountKept(shown, w)
  /\ UNCHANGED <<table, clock, runs, discarded>>

(* The guardrail and the validator accept the answer, and persist_outcome  *)
(* begins a transaction, which may have to wait.  A cache hit, which needs *)
(* a prompt without contexts, has the same effect on corrections.          *)
Accept(w) ==
  /\ run[w].pc = "answered"
  /\ clock' = clock + 1
  /\ run' = [run EXCEPT ![w].pc = "persist", ![w].source = "llm",
                        ![w].stamp = clock + 1]
  /\ UNCHANGED <<table, runs, history>>

(* Without an answer: a budget is exhausted, the guardrail blocks the      *)
(* input, L1 fails.  With one: the guardrail blocks the output, or the     *)
(* validator rejects it.  A fallback is persisted as well.                 *)
Fallback(w) ==
  /\ run[w].pc \in {"loaded", "answered"}
  /\ run' = [run EXCEPT ![w].pc = "persist", ![w].source = "system_fallback"]
  /\ Discard(w)
  /\ UNCHANGED <<table, clock, runs, shown>>

-----------------------------------------------------------------------------
(* persist_outcome                                                         *)

(* Whatever may have become of the corrections in the meantime.            *)
mark_applied(w) ==
  corrections' = [k \in Ids |->
    IF k \in applied_ids(run[w])
    THEN [corrections[k] EXCEPT !.applied_count = @ + 1,
                                !.last_applied_at = run[w].stamp]
    ELSE corrections[k]]

Persist(w) ==
  /\ run[w].pc = "persist"
  /\ IF run[w].source = "llm" THEN mark_applied(w) ELSE UNCHANGED corrections
  /\ run' = [run EXCEPT ![w] = Idle]
  /\ UNCHANGED <<last_id, clock, runs, history>>

(* An exception ends the classification, or rolls its transaction back.    *)
Raise(w) ==
  /\ run[w].pc \in {"loaded", "answered", "persist"}
  /\ run' = [run EXCEPT ![w] = Idle]
  /\ Discard(w)
  /\ UNCHANGED <<table, clock, runs, shown>>

Classification(w) ==
  \/ \E d \in Devices, hint \in BOOLEAN : Load(w, d, hint)
  \/ cap_to_prompt_size(w)
  \/ L1Answers(w) \/ Accept(w) \/ Fallback(w)
  \/ Persist(w) \/ Raise(w)

Next ==
  \/ create
  \/ \E k \in Ids : deactivate(k)
  \/ \E w \in Workers : Classification(w)

Spec == Init /\ [][Next]_vars

(* The loop holds no await: once in it, a worker goes on.                  *)
FairSpec == Spec /\ \A w \in Workers : WF_vars(cap_to_prompt_size(w))

-----------------------------------------------------------------------------
(* Properties                                                              *)

Row == [is_active : BOOLEAN, applied_count : Nat, last_applied_at : Nat]

Stages  == {"idle", "search", "loaded", "answered", "persist"}
Sources == {"none", "llm", "system_fallback"}

Run == [pc : Stages, device : Devices \cup {None}, hint : BOOLEAN,
        rows : Seq(Ids), best : Nat, lo : Nat, hi : Int,
        source : Sources, stamp : Nat]

(* Tables, counters and the workers' locals have their types.              *)
TypeOK ==
  /\ corrections \in [Ids -> Row]
  /\ last_id \in 0..MaxId
  /\ clock \in Nat
  /\ runs \in 0..MaxRuns
  /\ run \in [Workers -> Run]
  /\ shown \in [Ids -> Nat]
  /\ discarded \in [Ids -> Nat]

Loaded(w) == run[w].pc \notin {"idle", "search"}

(* What the binary search keeps fits, if anything does, and no longer      *)
(* prefix of what was retrieved would have fitted.                         *)
LongestPrefix ==
  \A w \in Workers : Loaded(w) =>
    LET r == run[w]
        n == Len(Contexts(r))
    IN /\ r.best <= n
       /\ r.best > 0 => Fits(r, r.best)
       /\ \A k \in r.best + 1 .. n : ~Fits(r, k)

(* A hint that fits by itself is in the prompt, however many corrections   *)
(* the device and its relatives have gathered.                             *)
HintKept ==
  \A w \in Workers :
    Loaded(w) /\ run[w].hint /\ Rendered[run[w].device][{Hint}] <= Cap
      => Hint \in Kept(run[w])

(* The workers who have an answer to a prompt with correction k in hand.   *)
InHand(k) == {w \in Workers : Unmarked(run[w]) /\ k \in Kept(run[w])}

(* Every answered prompt is marked once at each correction that was in it, *)
(* unless its answer is still in hand or was thrown away; what no model    *)
(* answered is never marked.  The hint shifts the positions, the cap drops *)
(* some rows, rows are deactivated and other workers mark them between the *)
(* load and the mark.                                                      *)
AppliedCount ==
  \A k \in Ids :
    shown[k] =
      corrections[k].applied_count + discarded[k] + Cardinality(InHand(k))

(* "The cumulative number of times this correction was injected into an    *)
(* LLM prompt" (PRD-0003, 7.3a): once no answer is in hand, applied_count  *)
(* is the number of answered prompts.  The code does not keep this: an     *)
(* answer that the guardrail or the validator refuses is a fallback, which *)
(* persist_outcome takes for one that "never reached the prompt".          *)
InjectedCount ==
  \A k \in Ids : InHand(k) = {} => corrections[k].applied_count = shown[k]

(* The binary search ends, with or without a prefix that fits.             *)
SearchEnds ==
  \A w \in Workers : run[w].pc = "search" ~> run[w].pc = "loaded"

(* "the dropped tail is the oldest corrections": no correction is left out *)
(* of a prompt for the sake of an older one.                               *)
OldestDropped ==
  \A w \in Workers : Loaded(w) =>
    \A kept \in Kept(run[w]) \ {Hint}, dropped \in Range(run[w].rows) :
      dropped \notin Kept(run[w]) => dropped < kept
=============================================================================
