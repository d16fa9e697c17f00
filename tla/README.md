# ai-validation: specifications, model checking and proofs

TLA+ modules for the validation service in `src/` (a FastAPI application that
judges professionals' NR-10 and NR-35 certificates and companies' CNPJs with
language models). Paths below are relative to `src/` unless they start with
`src/src`, which holds the Python package.

    tlc -config MCDebugRuns.cfg MCDebugRuns       # one of the runs in PROJECT.json
    tlapm CertificatePipelineProofs.tla           # the proofs of one module

## 1. The system

| part | state it keeps | operations | talks to |
|---|---|---|---|
| LLM call (`core/llm/llm_retry.py`) | locals of one call | ask Gemini, then the other providers of `LLM_PROVIDER_ORDER` | the providers, through `ai_lib` |
| certificate pipeline (`workflow/graph`, `workflow/nodes`, `api/routes/certificate_routes.py`) | one `CertificateGraphState` per request | download, screen, judge NR-10, judge NR-35, consolidate, respond | image URLs, LLM call |
| consolidation (`workflow/nodes/consolidation_node.py`) | none | ten rules in order | rapidfuzz |
| debug run store (`workflow/debug_runs.py`) | dict of the runs of all admins | `add`, `exists`, `purge`, `_drop` | the checkpointer of `debug_graph` |
| replay (`workflow/debug_replay.py`) | locals, a copy of a thread | read history, copy, run one node, delete the copy | checkpointer, graph, `PromptOverride` |
| debug routes (`api/routes/debug_routes.py`) | singletons `debug_graph`, `debug_runs` | authorise, validate, replay, debug CNPJ | all of the above |
| company validation (`api/routes/cnpj_routes.py`, `services/brasil_api.py`, `agents/specialist/cnpj_agent`) | locals of one coroutine | sanitise, ask BrasilAPI with retries, analyse | BrasilAPI, LLM call |
| callbacks (`workflow/observability`) | records of open nodes and calls | start/end/error of chains, models and tools; override prompts | LangChain's callback order |
| access control (`api/auth.py`, `core/security/jwt.py`, `_authorize` of the debug routes) | dict of JWKS clients | check token, check admin | api-auth, worker threads |
| HTTP errors (`api/errors.py`) | none | turn an exception into a status and an error code | every route |
| the rest | none worth a model | health, version, telemetry, logging, rate limits | |

Concurrency: FastAPI runs the `async` handlers on one event loop; a coroutine
lets go of it only at an `await`. Graph nodes are plain functions, which
LangGraph runs in worker threads, one graph state per request. What requests
share is therefore small: the debug store and its checkpointer, the JWKS client
cache, the event loop itself, and slowapi's counters.

Hard behaviours, and where they are listed line by line: `hazards` of
`PROJECT.json`. In short: failures of any of three model calls and four
downloads of a request, each with its own handler; a second download that
serves something else; `dict.get` defaults that do not apply to a stored `None`;
`await`s in the middle of the store's loops; deletions that raise half-way; a
wall clock used for ordering; a call that blocks the event loop.

What makes each part correct:

* LLM call: text-only providers never see an image; a provider is asked only
  after the earlier ones were refused for a rate limit; giving up means all were.
* pipeline: ACCEPT only on three models' answers about the screened images,
  every failure a handler is there for ends in a rejection and no failure in an
  approval, one answer per request.
* consolidation: the first failing rule decides; ageing never helps.
* store: nothing in memory without an owner, nothing registered without its
  history, limits hold when `add` is over and are never held by giving up the run
  that was added last, a replay is not admitted to a run that had expired, no loop
  runs for ever.
* replay: the node asked for runs once, on the state the run's own node began
  with; the run is not changed by it; a node that ran is not refused.
* access: nobody in who should not be, nobody out who should be in, although
  the threads that check tokens race for the first JWKS client.
* callbacks: the record of a run holds every model call once, under its node;
  a tool call is in the nodes it was made in and in no other; an edited prompt is
  what the model gets, at the fallback providers too.
* company: VALID only on an ATIVA record and a model's answer; an outage of
  the registry is an error and never a verdict.

## 2. Modules

Composition:

    LlmFallback  <- CertificatePipeline, CompanyValidation   (INSTANCE, shared variables)
    AccessControl <- CompanyValidation                       (INSTANCE, shared variables)
    Consolidation <- ConsolidationNode, CertificatePipeline  (EXTENDS)
    CertificateVerdict <- CertificatePipeline                (refinement mapping)
    Lists <- LlmFallback, DebugRuns, ModelCallbacks          (EXTENDS)
    DebugReplay

A module `XProofs` holds the theorems about `X`; `DataInduction` holds lemmas
that several of them need.

### Lists
Python's list comprehension with a condition (`Sublist`, by the indices that are
kept) and `sum` (`SumOf`), written as recursive functions: the provers know
nothing of `SelectSeq` and of folds, and what they compute is part of the theorems.

### LlmFallback
State: the locals of `invoke_llm_with_retry` (`stage` is the program counter,
`queue` the rest of the `for` loop), the configured `order` and `trail`, the
history of who was asked and what came of it. Actions are the call's steps. What
`str(error)` tells apart is three kinds: a rate limit, a *lookalike* (an other
error with "429" in its text), and the rest. The docstring says that only rate limits
move a call on; the code goes by the text, a lookalike does so too, and
`LastAttemptDecides` states it as it is. `Lookup` is `_fallback_providers`,
evaluated once, outside any `try`; `LookupFails` is its raising. `Providers` is
the order with its default; `ProviderNames` are the names orders may hold. Callers
instantiate the module with their own variables of the same names, start a call
with `Invoke`, wait until `stage` is in `Settled`, and may forget its locals
with `Return`.

### Consolidation, ConsolidationNode
The node as pure operators on a record of the fields it reads: day numbers for
dates (`Malformed` for a string `fromisoformat` refuses), members of `Names` for
stripped lower-case names (`Blank` for an empty one), a constant function
`Similarity` for rapidfuzz, one `"text"` for every message. `Absent` is a key
the state does not have, `None` a key that holds Python's `None`: `Get` keeps the
two apart, as `dict.get` does. `Verdict` is the node. `ConsolidationNode` runs
it alone and states the docstring's rules a second time as a list of nine
(`DocstringRules`), each with its condition and its code, to compare with.

### CertificatePipeline and CertificateVerdict
One request; requests share nothing here. `node`/`step` say where it is, `state`
is the graph state, `image` the running node's local base64 values. The actions
are the steps between two things that can fail: each download, the construction
of the model, each step of the LLM call, the node's return. A URL serves any
image each time it is asked. `Raise` is an exception outside a node's handlers
(`get_llm`, or a structured output that is `None`): `ainvoke` propagates it and
the route answers 500; `raised` remembers at which step. `Respond` models that the response model wants a string
as `reason`; `UnsafeWithoutReason` is when it does not get one. The history variables (`screened`, `judged`, `answer`, `raised`)
record what the models saw and said; they guard nothing.

`CertificateVerdict` is the promise to a client: facts are learnt one after the
other, nothing before the images are screened, and one reply, ACCEPT only on all
facts. Its `evidence` is mapped to what follows from the models' own answers
(`Evidence`), not from what the nodes stored, so that the refinement checks the
plumbing of the graph state as well.

### DebugRuns
The event loop is `loop`, the coroutine that has it, or `None` while all are
waiting. `pc` is the place of each request; `limit`, `expired` and `dropping`
are the locals of `purge` and `_drop` that live across an `await`. `registered`,
`created`, `size` and `place` (dict order) are the store, `threads` the
checkpointer. `adelete_thread` and the graph's calls are the awaits; each of
them may be overtaken by every other request. This is slightly more than
`InMemorySaver` does, whose `adelete_thread` does not suspend: the properties
then do not depend on that saver. Replay is `run_single_node` as far as the life
of threads goes; what it does inside a thread is `DebugReplay`. Requests whose
deletion raised end in `"failed"`; `leaked` remembers their threads. A request
that was answered makes no second one.

### DebugReplay
What a replay does with the history of a run. A thread is the sequence of its
snapshots as LangGraph keeps them, oldest first (`aget_state_history` gives the
newest first and `_turns` turns it round): `next`, and `values` by the node that
wrote them, so that two states differ exactly when some node wrote something
else. A validation appends a snapshot per node; a node that raises appends none,
and the last snapshot goes on naming it. `ReadHistory` is `_turns` with
the refusals 404 and 409 (`Candidates` are the indices of the snapshots with the
node next, `Target` the one of the occurrence asked for); `CopyState` is `aupdate_state` on the
copy as the node *before* the target, which runs that node's outgoing edge again
(`Restored`, `Successor`), and the test that this leads to the target; `NodeRuns`
is `ainvoke` with `interrupt_after`; `CleanUp` is the `finally`. The run may
leave the store, and its thread vanish, between any two of these. What makes it
leave (limits, age, sizes) is `DebugRuns`; here it may happen at any time,
which is more than the store does. `began` remembers what the run's own nodes
began with, `ran` what the replay ran: the properties compare the two.

### AccessControl
The way of a request to its route: `Arrive` is `require_access_token` or
`_authorize` up to its `asyncio.to_thread`; `Look`, `Build` and `Verify` are
`is_valid_access_token` in the thread, where other threads may come between the
read of `_clients` and the write; `Decide` is the rest, on the loop again. The
two kinds of routes check in different orders (a debug route that is off is a
404 even without a token; a public one without a JWKS URL is a 503 even without
a token). Cryptography is a library's: a credential is what PyJWT makes of it, its
kind, and whose it is, an admin's or not (`Credentials`); fetching a key set fails or
does not. `decode_user_id` of `ai_lib` is external, and may take a token of another
`token_type` or not: the debug route then decides by the `sub` alone, so that an
admin's refresh token may be let in. `Verify` does not look at which client it uses,
since any client finds the same keys: what the race for the first one may do is told
by `LateRequestsShareAClient` only. The module has no specification of its own.

### CompanyValidation
Requests by the public or the debug route; both end in `run_cnpj_validation`.
Each begins with the steps of `AccessControl` (`Admission` on the loop,
`TokenCheck` off it, so that tokens are checked also while a model call blocks
the loop) and ends with a status and an outcome or error code, as
`api/errors.py` makes it (`HttpError`, `GENERIC_BY_STATUS`). Requests as
coroutines of one event loop. They hold it from `Analyse` to the end, since
`analyze_company` is a plain function: hence one set of `LlmFallback` variables.
`sleeping` counts a sleep down in seconds; `Tick` is time passing. `asked` is
the history of BrasilAPI's answers. As in the code, the third 429 is slept on
for 8 s before it is raised.

### ModelCallbacks
`PromptOverride` and `DebugTracker`, each with its `DuplicateRuns`. A record's
place in `nodes` stands for the reference Python's dicts hold (`byRun`,
`openByName`, `recordOf`), a message list is one system prompt (`content`, by
creation), and the key of `DuplicateRuns` is the list's number. The run that
calls the handlers is the environment: `stack` is what is running, nodes come
one after the other as in `graph.py`, chains may nest in a node and carry its
name, a node asks one provider after another with fresh messages (the nodes pass
dicts), and a leased model may announce a call again with the same message
objects. Since the run waits for its handlers, a callback of both of them is one
step, with `PromptOverride` first (`run_inline`). Either a whole run goes by
unedited or a replay runs the edited node alone, which is a node of the path: the
routes refuse any other (`EditedAssumption`). Tools run beside the innermost
run and end in any order; a node may run a graph whose node is `Inner`, so that
a tool or a model's tools belong to two records. Neither tools nor inner graphs are
run by a node of this repository: `DebugTracker` has the code and its tests the
callbacks (`tests/workflow/test_debug_tracker.py`), and this part of the environment
is theirs. `parentOf` and `recordOf` are
the dicts that `_owners` follows from a run to the records around it,
`RecordsFrom`; `Fallback` is its guess by name when that finds nothing.
`answered`, `used` and `asking` are histories: what the models were sent and by
the run of which node, in which nodes tools ran and models were called.

## 3. Runs

| run | shows | bounds |
|---|---|---|
| llm_fallback | who is asked and how a call ends | six orders: unset, deployed ones, Gemini last, only text, one with an unknown name. A call is at most four steps long, so this is all of it for these orders |
| consolidation | the verdict against the docstring's rules | graph states at each rule's edge: ages of 730 and 731 days and a future date, 7, 8, 19, 20 and no hours, missing results, blank and missing names, scores 84, 85 and 100 |
| certificate_pipeline | one request with every failure, refinement of `CertificateVerdict`, every request answered | two orders, an ordinary image, another one and the empty one, three guardrail answers, seven agent answers, one day: each property depends on equality of images and on which rule an answer fails, and both occur |
| debug_runs | the store under concurrency | three validations of two admins, one replay, `MAX_RUNS` 2, sizes 1 and 2 (and 0 when unmeasured) with `MAX_BYTES` 1, so that one run is at the byte limit, two are above it together and one is above it alone, `MAX_AGE_SECONDS` 1, clock to 2. Three runs are what it takes to go over either limit while two adds evict; the code's 5 / 64 MiB / 1800 only make the way there longer |
| company_validation | two companies at once, from their tokens to their answers | two requests, both routes, no credential or one of five kinds, an admin's or not; four configurations (as deployed, no issuer, no keys, authentication off); the deployed order; all `MAX_RETRIES` = 3 attempts and sleeps of 2, 4, 8. Two are what a race for the first client takes, and a request that comes after a client is registered |
| model_callbacks | what is recorded and which prompt is sent | the three nodes with models or one replayed node, an inner node, texts for calls 0 and 1 (the original one among them), six started runs, two tools: enough for a node with a nested chain or graph, two providers, a call announced three times, two tools side by side |
| debug_replay | a replay against the run it repeats | one run that takes either branch or raises at any node, two replays, each of any node, of `__start__` or of one the graph does not have, at occurrence 0 or 1. A replay reads one run and writes its copy only: two of them meet, or meet an eviction, in every way here; another run would only be read by others |

Five further runs find a disagreement between the code and its own words, each
listed with the quotation under `findings`:

* `pipeline_no_reason`: an unsafe answer without a reason ends in HTTP 500.
* `pipeline_unhandled`: `get_llm()` and the use of a `None` result are outside the
  nodes' handlers, and a failure there is an HTTP 500, not the rejection that
  `docs/ARCHITECTURE.md` promises of any unhandled failure. `FailuresAreRejections`
  is what does hold: a 500 has one of these causes or an unsafe answer without a
  reason, and everything a handler is there for is a verdict.
* `pipeline_no_code`: a rejection may have no `error_code`.
* `pipeline_empty_image`: an empty image is downloaded again by the agent, which
  then judges what the guardrail did not see. `ScreenedImageIsJudged` is what does hold.
* `debug_runs_clock_back`: with the wall clock set back, `add` finds its own run
  the oldest and stops, several runs above the limit. With a clock that only
  goes forward the limit is held (`LimitHeldByNewest`).

Deadlock is not checked where requests end and nothing follows.

One test reads as if it disagreed and does not: `tests/test_brasil_api.py:122`
expects `None` after three 429s, under a mock whose `raise_for_status` does nothing.
httpx's raises, as in the test after it and in `flows/COMPANY_VALIDATION.md`, and
so does the model's (`GiveUp`, `OutageIsNoVerdict`).

Fairness: a request in progress takes its next step. Downloads (30 s), BrasilAPI
(15 s), key sets (PyJWKClient's timeout) and models (`timeout=60` in every
factory) have timeouts, worker threads are scheduled and the event loop resumes
what is ready; nobody has to make a request and the debug store's clock may
stand still. httpx's timeouts bound each wait (to connect, to read, to write) and
not their sum: that no server sends its answer a byte at a time for ever is an
assumption, which the code does not enforce. `CompanyValidation` needs the sharper form, weak fairness of each
request, because one waits while another holds the loop: asyncio resumes ready
coroutines in turn.

Every property of the passing runs has a mutant in `PROJECT.json`: the code with
a plausible slip (a dropped guard, a swapped check, a cache not written), on
which TLC finds that property violated.

## 4. Proofs

Assumptions are those named in the modules: sentinels are not data, the sets of
answers are within the schemas, a score is between 0 and 100, `None` is no
request, answer or output, the edited node is one of the run's. Every theorem is about the specification itself, for
all values of the constants; each inductive invariant was checked by TLC on the
module's run before it was proved. There is one lemma per action, one step per
conjunct, and a last lemma that puts them together.

`DataInduction`: induction over data without the library's induction theorems,
which take a predicate as a parameter. A set of naturals is turned into a set of
intervals, on which the strict subset ordering is well founded; so the set has a
least element (`LeastNatural`), and a set that holds 0 and is closed under
successors up to `n` holds all of `0 .. n` (`InductionUpTo`). From this: the
recursive functions of `Lists` are defined, a `Sublist` lists the kept elements
once and in order (`SublistEnumerates`), sums are monotone (`SumIsMonotonic`).

`LlmFallbackProofs`: for orders of any length with any names, types and the three
safety properties of a call. `Asking` says how far `trail` is by `stage` and that
all but its last entry were refusals; `Split`, that what was asked and what is
queued make up the list of fallbacks, which is what makes giving up mean that
all were asked (with `SublistEnumerates`); `NoTextOnly` is the property for the
queue as well as for the trail.

`ConsolidationProofs`: for all graph states, scores and days, the type of the
verdict, `FirstFailingRuleDecides`, and that accepted documents would have been
accepted on any earlier day (`WaitingNeverHelpsHolds`) and a lost date never
rejects (`UnreadableDateIsNoRejectionHolds`). The rules of one certificate
amount to `Fit` and `CertificateCode` (`CertificateRulesAre`), those on the names
to the two tests (`NameRulesAre`); then the cases of `Verdict` are gone through.
For the other two, `Expired` is monotone in the day (`ExpiryIsMonotonic`) and every
other rule ignores it; `NodeInvariant` carries "the verdict is `Verdict` of the
input".

`CertificatePipelineProofs`: type correctness and the four safety properties of
the pipeline, for any set of images, answers, orders and days. None of them is
inductive by itself, so `IInv` adds:

* `Control`: which `step` goes with which `node`, and when an answer exists;
* `NotYet`: what has not been filled in when a node starts;
* `Screening`, `Judging`: what `screened` and the cache hold while a node runs,
  which carries the image from the guardrail to each agent;
* `Provenance`: everything in `state` is an answer of a model in this request,
  or a failure record;
* `Answering`: how the response follows from the verdict, and an HTTP error from
  one of its three causes.

`PromiseSafety` is the safety part of the refinement: from `NotYet` an answer is
always its node's first, from `Judging` and `Provenance` an agent's answer comes
after `ScreenedSafe`, so that each step is a `Learn`, an `Answer` or a stutter.

`DebugRunsProofs`: for any number of requests, admins, sizes and limits, every
safety property of the store. The invariant follows a thread by the place of its
request: a validation has its thread until it registers it (`OnItsWay`); only
what was inserted can be listed or dropped, and what is being dropped has left
the store (`Known`), hence no deletion hits a registered run; a copy exists only
between `CopyThread` and `CleanUp` (`CopyIsHeld`). `Young` says that what is
registered during a purge is younger than its limit. `LimitHeldByNewest` adds
`InOrder`, that dict order and age agree: then the newest run is neither the
oldest nor the first of a purge while there are others, so that neither loop
drops it nor lets its request go, and dropping another one takes nothing over the
limits (`DropKeepsLimit`, with `SumIsMonotonic`). `Young` and `InOrder` are where
`ClockSteps \subseteq Nat`, a clock that does not go back, is needed: it is a
hypothesis of `ExpiredIsNeverReplayedHolds`, `LimitHeldByNewestHolds` and
`NewestRunIsKeptHolds` alone. The last adds `Newest`: a run's place is never above the
number of runs added, and no purge under way goes beyond the age limit. By `InOrder` an
older run is evicted first, and the loop stops at a single one.

`DebugReplayProofs`: types and the three safety properties, for any runs, replays
and outputs. `RunInv` says of a run's thread that it is a `History` (its `next`s come
in the order of the graph, each the successor of the one before) and that every
node began with the values of the snapshot that has it next (`Begun`). `ReplayInv`
says what a replay has read, copied and run: a history of a run that is over, so
that evictions take away the thread but never what `turn` says. An order of the
nodes (`Rank`) makes "no node runs twice" inductive, without which the occurrence
asked for would not be determined.

`CompanyValidationProofs`: for any number of requests and any configurations, types
and the six safety properties. `AccessInv` says by place what admission has found
out about a request, `ClientInv` that a registered client is no late request's;
`AskedInv` says what BrasilAPI has answered by where the request is, and
`AnswerInv` what the answer rests on. The steps of other requests, and those of the
model call that holds the loop, disturb none of it (`AccessKept`, `AskedKept`).

`ModelCallbacksProofs`: for any path, texts and number of runs, types and the four
safety properties. `StackOK` says what may be inside what, and in which order runs
were started. All that the handlers hold is then a function of the stack:
`RecordsOK`, that the open records are those of the nodes on it, each found by its
own name; `DedupesOK`, that the keys and the duplicates of each `DuplicateRuns`
are those of its calls and of its wrapped calls. With an empty stack this is
`NothingIsLeftOpen`. The rest says what was written down: `AnsweredOK`, that a
record lists the `Sublist` of the ended calls its run made; `PromptsOK`, that the
edited calls that ended and the open one are those `calls` counts; `ToolsOK`, what
a record has of the tools. They rest on three facts about a stack of any height:
the node of the innermost run is its last node (`InnermostNode`), the records above
a run are those of the nodes it is in (`RecordsOfStack`), and the number that
`parentOf` leads to falls, so that `RecordsFrom` is defined (`RecordsFromIs`); and on
what one more call does to a `Sublist` (`SublistOfAppend`).

Only model-checked: every liveness property, and the fairness part of the
refinement `KeepsPromise` (the prover has neither fairness nor `ENABLED`).

## 5. Not modelled

* Masking, clipping and wording of debug output; model calls with several
  messages to edit (the nodes send one system message and one human one).
* FastAPI's parsing and validation of requests, and the bodies of errors beyond
  status and code.
* Libraries: JWT signatures and PyJWKClient's cache of key sets, slowapi's
  counters (the repository only sets the limits), rapidfuzz.
* `require_caller` and its service keys, which guard no route.
* Telemetry, logging, health, version, prompts: output and constants.
* The callbacks inside the debug routes: `ModelCallbacks` takes any run that
  LangGraph may make, and is not composed with the pipeline's own steps, which
  never look at them.

Sizes of images are not bounded by the code and have no property here.

## 6. Plan

What is left is proof: the model call inside `CertificatePipeline` and
`CompanyValidation`, whose steps are those of `LlmFallback`. That no image reaches a
text-only provider in any request, and that a node's fallback record means every
provider was asked, from the invariant of `LlmFallbackProofs` carried through
`Invoke` and `Return`.
