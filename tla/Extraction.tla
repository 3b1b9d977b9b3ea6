------------------------------ MODULE Extraction ------------------------------
(***************************************************************************)
(* Content extraction of many URLs in one request: the top results of a    *)
(* search (EnrichEnvelopeWithExtraction of core/server_extract.go) and     *)
(* /extract/batch (handleBatchExtract), over Extractor.Extract of          *)
(* extract/extractor.go.                                                   *)
(*                                                                         *)
(* A URL is fetched raw and, when that is not good enough, rendered; its   *)
(* site's llms.txt files may be tried first. Each of these passes has      *)
(* req.Timeout of its own, the batch has Config.BatchTimeout, or what the  *)
(* search has left of the request's deadline, if that is less. Time is in  *)
(* ticks: a pass takes up to Timeout ticks and a tick does not happen      *)
(* while a pass that has used up its time still runs. What a pass extracts *)
(* is measured by its length only:                                         *)
(*   0 none of use (ExtractedContentLooksUseful), 1 useful but too short   *)
(*   for goodEnough, 2 good enough.                                        *)
(***************************************************************************)
EXTENDS Integers, FiniteSets, FiniteSetsExt

CONSTANTS
  N,              \* the results of the search, or the URLs of the batch
  Blank,          \* those without a URL
  ExtractTops,    \* values of extract=N
  MaxConcurrents, \* values of Config.MaxConcurrent, after Normalized
  Timeout         \* Config.Timeout in ticks

ASSUME ExtractionAssumption ==
  /\ N \in Nat /\ Blank \subseteq 1 .. N /\ Timeout \in Nat \ {0}
  /\ ExtractTops \subseteq Int /\ MaxConcurrents \subseteq Nat \ {0}

Results == 1 .. N
maxExtractTop == 10
Failed == -1
Lengths == 0 .. 2
Handlers == {"enrich", "batch"}
ModeValues == {"auto", "fast", "rendered"}

VARIABLES
  handler, \* which of the two handlers
  mode,    \* ExtractRequest.Mode
  llms,    \* ExtractRequest.UseLLMSTxt, which only a batch can set
  limit,   \* the results that are to be extracted
  slots,   \* Config.MaxConcurrent, the capacity of sem
  given,   \* ticks from the start of the batch to its deadline
  next,    \* the loop variable i
  stage,   \* "spawning", "filling" or "done"
  left,    \* ticks left of the batch's deadline
  fetch,   \* of each result: its pass, the ticks that took, what raw extracted
  got,     \* of each result: what it was given
  cut      \* the results the batch's deadline has cut short

config == <<handler, mode, llms, limit, slots, given>>
extractVars == <<config, next, stage, left, fetch, got, cut>>

Passes == {"none", "llms-full", "llms", "raw", "rendered", "over"}
Idle == [pass |-> "none", age |-> 0, raw |-> Failed]
Unanswered == -2

Running == {i \in Results : fetch[i].pass \notin {"none", "over"}}
Over(i) == fetch[i].pass = "over"

\* The slots of sem bound what runs, and one fill-in runs at a time.
ExtractTypeOK ==
  /\ handler \in Handlers /\ mode \in ModeValues /\ llms \in BOOLEAN
  /\ limit \in 0 .. N /\ slots \in MaxConcurrents /\ given \in Nat
  /\ next \in 1 .. N + 1 /\ stage \in {"spawning", "filling", "done"} /\ left \in Nat
  /\ fetch \in [Results -> [pass : Passes, age : 0 .. Timeout, raw : Lengths \cup {Failed}]]
  /\ got \in [Results -> Lengths \cup {Failed, Unanswered}] /\ cut \subseteq Results
  /\ Cardinality(Running) <= IF stage = "filling" THEN 1 ELSE slots

-----------------------------------------------------------------------------
(* Limits. *)

clampExtractTop(n) == Max({1, Min({n, maxExtractTop})})

\* Broken: a wave is one pass.
BatchTimeoutMutant(count) == IF count <= 0 THEN Timeout ELSE ((count + slots - 1) \div slots) * Timeout
\* Config.BatchTimeout: waves of a raw and a rendered pass each.
BatchTimeout(count) ==
  IF count <= 0 THEN Timeout ELSE ((count + slots - 1) \div slots) * 2 * Timeout

\* Up to three results below the top stand in for those of the top that fail.
CandidateLimit == IF handler = "enrich" THEN Min({limit + 3, N}) ELSE limit

\* context.WithTimeout: the deadline of the batch is the request's when that one
\* comes first. RequestTimeoutMiddleware gives the dedicated endpoints one, which
\* the search before has partly used up, or wholly; /mega/* and /extract/batch
\* have none (the deadline of a mega search is not the one extraction is given).
Deadlines ==
  {BatchTimeout(CandidateLimit)} \cup
    (IF handler = "enrich" THEN 0 .. BatchTimeout(CandidateLimit) ELSE {})

Expired == left = 0

ExtractInit ==
  /\ handler \in Handlers /\ mode \in ModeValues /\ slots \in MaxConcurrents
  /\ llms \in IF handler = "batch" THEN BOOLEAN ELSE {FALSE}
  /\ limit \in IF handler = "enrich" THEN {Min({clampExtractTop(n), N}) : n \in ExtractTops} ELSE {N}
  /\ next = 1 /\ stage = "spawning"
  /\ given \in Deadlines /\ left = given
  /\ fetch = [i \in Results |-> Idle]
  /\ got = [i \in Results |-> Unanswered]
  /\ cut = {}

-----------------------------------------------------------------------------
(* Extractor.Extract. *)

\* defaultMinRunes, or the headings shortcut.
goodEnough(length) == length = 2

PagePass == IF mode = "rendered" THEN "rendered" ELSE "raw"
FirstPass == IF llms THEN "llms-full" ELSE PagePass

\* Broken: a fetch that is skipped leaves no error.
EnterMutant(i) ==
  /\ fetch' = [fetch EXCEPT ![i].pass = IF Expired THEN "over" ELSE FirstPass]
  /\ UNCHANGED <<got, cut>>
\* extractOne and batchExtractOne skip a fetch when the batch has no time left.
Enter(i) ==
  IF Expired
  THEN /\ fetch' = [fetch EXCEPT ![i].pass = "over"]
       /\ got' = [got EXCEPT ![i] = Failed]
       /\ cut' = cut \cup {i}
  ELSE /\ fetch' = [fetch EXCEPT ![i].pass = FirstPass]
       /\ UNCHANGED <<got, cut>>

\* How a pass may end: with a length, or failed; out of time it has failed.
Outcomes(i) == IF Expired THEN {Failed} ELSE Lengths \cup {Failed}

\* The deadline cuts a pass that has some of its own time left.
CutShort(i) == cut' = IF Expired /\ fetch[i].age < Timeout THEN cut \cup {i} ELSE cut

Escalate(i, pass, raw) ==
  /\ fetch' = [fetch EXCEPT ![i] = [pass |-> pass, age |-> 0, raw |-> raw]]
  /\ UNCHANGED got

\* The answer of a result. A search result needs useful content.
Answer(i, length) ==
  /\ fetch' = [fetch EXCEPT ![i].pass = "over", ![i].age = 0]
  /\ got' = [got EXCEPT ![i] = IF handler = "enrich" /\ length = 0 THEN Failed ELSE length]

\* tryLLMSTxt: the first usable file is the answer, however its fetch ended the
\* next one is tried, and then the page.
LLMSTxt(i) ==
  /\ fetch[i].pass \in {"llms-full", "llms"}
  /\ CutShort(i)
  /\ \/ ~Expired /\ Answer(i, 2)
     \/ Escalate(i, IF fetch[i].pass = "llms-full" THEN "llms" ELSE PagePass, Failed)
  /\ UNCHANGED <<config, next, stage, left>>

\* extractFast, and whether its result is kept.
ExtractFast(i) ==
  /\ fetch[i].pass = "raw"
  /\ CutShort(i)
  /\ \E raw \in Outcomes(i) :
       IF mode = "fast" \/ goodEnough(raw)
       THEN Answer(i, raw)
       ELSE Escalate(i, "rendered", raw)
  /\ UNCHANGED <<config, next, stage, left>>

\* Of a raw and a rendered result: the longer one, the one there is, or neither.
Longer(raw, rendered) == IF rendered # Failed /\ raw <= rendered THEN rendered ELSE raw

\* extractRendered, after a raw pass or without one.
ExtractRendered(i) ==
  /\ fetch[i].pass = "rendered"
  /\ CutShort(i)
  /\ \E rendered \in Outcomes(i) : Answer(i, Longer(fetch[i].raw, rendered))
  /\ UNCHANGED <<config, next, stage, left>>

-----------------------------------------------------------------------------
(* The handlers. *)

Successes == Cardinality({i \in Results : got[i] > 0})
\* dedupeBatchURLs has dropped the empty URLs of a batch.
HasURL(i) == handler = "enrich" => i \notin Blank

\* The loop over the top results: a goroutine for each, when sem has a slot.
Spawn ==
  /\ stage = "spawning" /\ next <= limit
  /\ IF HasURL(next)
     THEN Cardinality(Running) < slots /\ Enter(next)
     ELSE UNCHANGED <<fetch, got, cut>>
  /\ next' = next + 1
  /\ UNCHANGED <<config, stage, left>>

\* wg.Wait returns.
Join ==
  /\ stage = "spawning" /\ next > limit /\ Running = {}
  /\ stage' = "filling"
  /\ UNCHANGED <<config, next, left, fetch, got, cut>>

\* Broken: every candidate is extracted.
FillInMutant ==
  /\ stage = "filling" /\ Running = {} /\ next <= CandidateLimit
  /\ IF HasURL(next) THEN Enter(next) ELSE UNCHANGED <<fetch, got, cut>>
  /\ next' = next + 1
  /\ UNCHANGED <<config, stage, left>>
\* The candidates, one after the other, while successes are missing.
FillIn ==
  /\ stage = "filling" /\ Running = {} /\ next <= CandidateLimit /\ Successes < limit
  /\ IF HasURL(next) THEN Enter(next) ELSE UNCHANGED <<fetch, got, cut>>
  /\ next' = next + 1
  /\ UNCHANGED <<config, stage, left>>

Respond ==
  /\ stage = "filling" /\ Running = {}
  /\ next > CandidateLimit \/ Successes >= limit
  /\ stage' = "done"
  /\ UNCHANGED <<config, next, left, fetch, got, cut>>

\* Time passes while something runs: code between the passes takes none.
Tick ==
  /\ Running # {} /\ ~Expired
  /\ \A i \in Running : fetch[i].age < Timeout
  /\ stage = "spawning" /\ next <= limit => Cardinality(Running) = slots
  /\ left' = left - 1
  /\ fetch' = [i \in Results |-> IF i \in Running THEN [fetch[i] EXCEPT !.age = @ + 1] ELSE fetch[i]]
  /\ UNCHANGED <<config, next, stage, got, cut>>

Fetching == \E i \in Results : LLMSTxt(i) \/ ExtractFast(i) \/ ExtractRendered(i)
Responded == stage = "done" /\ UNCHANGED extractVars

ExtractNext == Fetching \/ Spawn \/ Join \/ FillIn \/ Respond \/ Tick \/ Responded

\* Passes end, by their own timeouts or the batch's; the handler goes on.
ExtractFairness == WF_extractVars(Fetching) /\ WF_extractVars(Spawn \/ Join \/ FillIn \/ Respond)

ExtractSpec == ExtractInit /\ [][ExtractNext]_extractVars /\ ExtractFairness

-----------------------------------------------------------------------------
(* Properties. *)

\* Results below the top are only touched to replace one of the top: when the
\* top is over and not all of it succeeded. No response has more content than
\* was asked for.
FillInOnlyReplaces ==
  /\ Successes <= limit
  /\ \A i \in Results : i > limit /\ fetch[i].pass # "none" =>
       /\ \A j \in 1 .. limit : HasURL(j) => Over(j)
       /\ \E j \in 1 .. limit : got[j] <= 0

\* The request leaves the top the time that BatchTimeout derives for it.
Ample == given >= BatchTimeout(limit)

\* Then, as long as its own timeouts hold, no pass of a top result is cut short by
\* the deadline of the batch: no fetch of the top is skipped, and none is broken
\* off, however the waves of passes fall. (llms.txt files, which BatchTimeout
\* leaves out of account, are not tried.)
DeadlineSparesTop == ~llms /\ Ample => \A i \in cut : i > limit

\* The render of a page, or its failure, never costs the content that the raw
\* pass had already extracted.
RenderNeverRegresses ==
  \A i \in Results : Over(i) /\ got[i] # Unanswered =>
    got[i] >= IF handler = "enrich" /\ fetch[i].raw = 0 THEN Failed ELSE fetch[i].raw

\* Every request is answered, and then every top result that has a URL has
\* content or an error.
EveryResultAnswered ==
  <>(stage = "done" /\ \A i \in 1 .. limit : HasURL(i) => got[i] # Unanswered)

\* The deadline of the batch does not cut the candidates short either.
DeadlineSparesFillIns == handler = "enrich" => cut = {}

=============================================================================
