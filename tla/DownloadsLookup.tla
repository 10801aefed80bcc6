--------------------------- MODULE DownloadsLookup ---------------------------
(***************************************************************************)
(* The weekly-downloads lookups of one process: cachedFetchWeeklyDownloads *)
(* in scan.ts over fetchWeeklyDownloads in online/registry-client.ts and   *)
(* the retry loop of fetchJson in online/http.ts.  OnlineScan takes each   *)
(* of them for one call; here it is a series of requests: batches of       *)
(* unscoped names, then one request per scoped name, and the sentinel that *)
(* decides what a 404 for a single name means.                             *)
(*                                                                         *)
(* The downloads API is the environment.  It is "fine" or "dead" for the   *)
(* whole behaviour; a dead one answers 404 to everything.  A count is      *)
(* either zero or positive, which is all the cache tells apart; the one    *)
(* day an entry lives does not run out within a process.                   *)
(***************************************************************************)
EXTENDS Integers, Sequences, FiniteSets, SequencesExt

CONSTANTS
  Plain,       \* unscoped names
  Scoped,      \* scoped names
  Processes,   \* what a process asks: each a sequence of lists of names
  BatchSize,   \* DOWNLOADS_BATCH_SIZE
  Attempts,    \* SCAN_ATTEMPTS
  Timeout,     \* SCAN_TIMEOUT_MS
  BackoffCap,  \* SCAN_BACKOFF_CAP_MS
  Budget       \* the run's online budget

Names == Plain \cup Scoped

ASSUME NamesApart == Plain \cap Scoped = {}
ASSUME AsksNames == Processes \subseteq Seq(Seq(Names))
ASSUME Limits == {BatchSize, Attempts, Timeout, BackoffCap} \subseteq Nat \ {0}
                 /\ Budget \in Nat

VARIABLES
  api,      \* "fine" or "dead", fixed
  lists,    \* the lookups this process has still to make
  stage,    \* where the current lookup is
  wanted,   \* the names it asks for, those the cache had left out
  plan,     \* its requests not answered yet, in order
  probing,  \* the request at hand is the sentinel, not Head(plan)
  healthy,  \* the memoized probe resolved
  try,      \* attempts of the request at hand
  counts,   \* names with a positive count in this lookup's result
  noRecord, \* names it reports a confirmed zero for
  omitted,  \* names an answered body said nothing usable about
  cache,    \* the shared cache, by name
  served,   \* names an earlier lookup returned an answer for
  outcome,  \* how the last lookup ended
  hits,     \* requests this lookup has put on the wire
  now, started, age  \* the clock; when the lookup began; the current wait

lookup == <<wanted, plan, probing, healthy, try, counts, noRecord, omitted>>
vars == <<api, lists, stage, lookup, cache, served, outcome, hits, now, started, age>>

Init ==
  /\ api \in {"fine", "dead"}
  /\ lists \in Processes
  /\ stage = "idle" /\ wanted = <<>> /\ plan = <<>>
  /\ probing = FALSE /\ healthy = FALSE /\ try = 0
  /\ counts = {} /\ noRecord = {} /\ omitted = {}
  /\ cache = [n \in Names |-> "absent"]
  /\ served = {} /\ outcome = "none" /\ hits = 0
  /\ now = 0 /\ started = 0 /\ age = 0
-----------------------------------------------------------------------------
(* The entries of a list that are in S, in order: the k-th is the one at   *)
(* the position with k such positions up to it.                            *)
Among(s, S) ==
  LET at == {i \in DOMAIN s : s[i] \in S}
  IN  [k \in 1 .. Cardinality(at) |->
        s[CHOOSE i \in at : Cardinality({j \in at : j <= i}) = k]]

(* What a list of misses costs: a repeated name is sent as often as it is  *)
(* listed.                                                                 *)
Unscoped(s) == Among(s, Plain)
Singles(s)  == LET t == Among(s, Scoped) IN [i \in DOMAIN t |-> <<t[i]>>]
(* Mutant: the last, partial batch forgotten.                              *)
FullBatches(s) == LET t == Unscoped(s)
  IN [i \in 1 .. Len(t) \div BatchSize |->
        SubSeq(t, (i - 1) * BatchSize + 1, i * BatchSize)]
Batches(s) == LET t == Unscoped(s)
  IN [i \in 1 .. (Len(t) + BatchSize - 1) \div BatchSize |->
        SubSeq(t, (i - 1) * BatchSize + 1,
               IF i * BatchSize < Len(t) THEN i * BatchSize ELSE Len(t))]
Plan(s) == Batches(s) \o Singles(s)

Hit(n) == cache[n] # "absent"

(* The caller asks the deadline once, before the whole lookup.             *)
Skip ==
  /\ stage = "idle" /\ lists # <<>> /\ now >= Budget
  /\ lists' = Tail(lists)
  /\ UNCHANGED <<api, stage, lookup, cache, served, outcome, hits, now, started, age>>

Start ==
  /\ stage = "idle" /\ lists # <<>> /\ now < Budget
  /\ lists' = Tail(lists)
  /\ wanted' = Among(Head(lists), {n \in Names : ~Hit(n)})
  /\ plan' = Plan(wanted') /\ probing' = FALSE /\ healthy' = FALSE /\ try' = 0
  /\ counts' = {n \in ToSet(Head(lists)) : Hit(n)}
  /\ noRecord' = {} /\ omitted' = {}
  /\ stage' = IF wanted' = <<>> THEN "save" ELSE "ready"
  /\ outcome' = "none" /\ hits' = 0 /\ started' = now /\ age' = 0
  /\ UNCHANGED <<api, cache, served, now>>
-----------------------------------------------------------------------------
(* fetchJson: one attempt, then a pause, then the next.                    *)

Fetch ==
  /\ stage = "ready"
  /\ stage' = "out" /\ try' = try + 1 /\ hits' = hits + 1 /\ age' = 0
  /\ UNCHANGED <<api, lists, wanted, plan, probing, healthy, counts, noRecord,
                 omitted, cache, served, outcome, now, started>>

Throw ==
  /\ stage' = "idle" /\ outcome' = "threw"
  /\ UNCHANGED <<api, lists, lookup, cache, served, hits, now, started, age>>

AnotherTry == try < Attempts

(* A transport error, a timeout, a 429, 408 or 5xx.                        *)
Retryable ==
  /\ stage = "out"
  /\ IF AnotherTry
     THEN /\ stage' = "backoff" /\ age' = 0
          /\ UNCHANGED <<api, lists, lookup, cache, served, outcome, hits, now, started>>
     ELSE Throw

Wake ==
  /\ stage = "backoff" /\ stage' = "ready"
  /\ UNCHANGED <<api, lists, lookup, cache, served, outcome, hits, now, started, age>>

(* Any other status but 404, or a body that is not JSON.                   *)
Refused == stage = "out" /\ api = "fine" /\ Throw

NextRequest ==
  /\ plan' = Tail(plan) /\ try' = 0 /\ probing' = FALSE
  /\ stage' = IF Len(plan) = 1 THEN "save" ELSE "ready"
-----------------------------------------------------------------------------
(* fetchDownloadCounts and readDownloadCounts.                             *)

Body == stage = "out" /\ ~probing /\ api = "fine" /\
  \E none, unusable \in SUBSET ToSet(Head(plan)) :
  /\ none \cap unusable = {}
  /\ NextRequest
  /\ noRecord' = noRecord \cup none
  /\ omitted' = omitted \cup unusable
  /\ counts' = counts \cup (ToSet(Head(plan)) \ (none \cup unusable))
  /\ UNCHANGED <<api, lists, wanted, healthy, cache, served, outcome, hits, now,
                 started, age>>

(* Mutant: a 404 for one name taken at its word.                           *)
TrustedAtOnce == TRUE
Trusted == healthy

NotFound ==
  /\ stage = "out" /\ ~probing
  /\ IF Len(Head(plan)) # 1 THEN Throw
     ELSE /\ IF Trusted
             THEN NextRequest /\ noRecord' = noRecord \cup ToSet(Head(plan))
             ELSE /\ probing' = TRUE /\ try' = 0 /\ stage' = "ready"
                  /\ UNCHANGED <<plan, noRecord>>
          /\ UNCHANGED <<api, lists, wanted, healthy, counts, omitted, cache,
                         served, outcome, hits, now, started, age>>

(* The sentinel's count arrived: the 404 that asked for it stands.         *)
ProbeAnswered ==
  /\ stage = "out" /\ probing /\ api = "fine"
  /\ NextRequest /\ healthy' = TRUE
  /\ noRecord' = noRecord \cup ToSet(Head(plan))
  /\ UNCHANGED <<api, lists, wanted, counts, omitted, cache, served, outcome,
                 hits, now, started, age>>

(* The sentinel itself is not found, or answers in another shape.          *)
ProbeFailed == stage = "out" /\ probing /\ Throw

(* The answers are stored, a confirmed zero as zero, and the file is       *)
(* written; a write that fails throws the answers away but not the store.  *)
Save == \E ok \in BOOLEAN :
  /\ stage = "save" /\ stage' = "idle"
  /\ cache' = [n \in Names |->
       IF Hit(n) THEN cache[n]
       ELSE IF n \in counts THEN "positive"
       ELSE IF n \in noRecord THEN "zero" ELSE "absent"]
  /\ outcome' = IF ok THEN "returned" ELSE "threw"
  /\ served' = IF ok THEN served \cup counts \cup noRecord ELSE served
  /\ UNCHANGED <<api, lists, lookup, hits, now, started, age>>

(* Mutant: the server's retry-after honoured in full.                      *)
WaitUncapped == [out |-> Timeout, backoff |-> BackoffCap + 1]
Wait == [out |-> Timeout, backoff |-> BackoffCap]
Tick ==
  /\ stage \in {"out", "backoff"} /\ age < Wait[stage]
  /\ now' = now + 1 /\ age' = age + 1
  /\ UNCHANGED <<api, lists, stage, lookup, cache, served, outcome, hits, started>>

Answered == Retryable \/ Refused \/ Body \/ NotFound \/ ProbeAnswered \/ ProbeFailed
Step == Skip \/ Start \/ Fetch \/ Wake \/ Save \/ Answered
Finished == stage = "idle" /\ lists = <<>> /\ UNCHANGED vars
Next == Step \/ Tick \/ Finished

Spec == Init /\ [][Next]_vars
-----------------------------------------------------------------------------
(* A downloads API that answers 404 to everything never produces a zero,   *)
(* in a result or in the cache: the sentinel stops it.                     *)
DeadApiNeverZero ==
  api = "dead" => noRecord = {} /\ \A n \in Names : cache[n] # "zero"

(* However the API behaves, a lookup costs at most Attempts requests per   *)
(* batch and scoped name, and one sentinel, and asks for no name that an   *)
(* earlier lookup of the process answered, a confirmed zero included; so   *)
(* its duration is bounded by what it asks, not by the run's budget.       *)
LongestRequest == Attempts * Timeout + (Attempts - 1) * BackoffCap
CostBounded == LET requests == Len(Plan(wanted)) + 1 IN
  /\ hits <= Attempts * requests
  /\ stage # "idle" => now - started <= LongestRequest * requests
  /\ stage = "out" /\ ~probing => ToSet(Head(plan)) \cap served = {}

(* A lookup that gets through its requests accounts for every name: a      *)
(* count, a confirmed zero, or an answer that left it out.                 *)
EveryNameAccounted ==
  stage = "save" => ToSet(wanted) \subseteq counts \cup noRecord \cup omitted

(* No name's request begins once the budget is spent; a retry and the      *)
(* sentinel belong to the request they serve.                              *)
BudgetAskedBeforeEveryRequest ==
  [][stage = "ready" /\ stage' = "out" /\ try = 0 /\ ~probing
      => now < Budget]_vars

=============================================================================
