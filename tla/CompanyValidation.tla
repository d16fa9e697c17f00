-------------------------- MODULE CompanyValidation --------------------------
(***************************************************************************)
(* POST /api/v1/companies/validate-cnpj: run_cnpj_validation               *)
(* (api/routes/cnpj_routes.py), fetch_cnpj_data (services/brasil_api.py)   *)
(* and analyze_company (agents/specialist/cnpj_agent/cnpj_agent.py).  The  *)
(* debug route (api/routes/debug_routes.py) runs the same function and     *)
(* answers its exceptions with the same statuses; AccessControl decides    *)
(* who comes in by either.                                                 *)
(*                                                                         *)
(* The requests are coroutines of one event loop.  They let go of it while *)
(* BrasilAPI answers and while they sleep, but analyze_company is not      *)
(* awaited: its request holds the loop through all its model calls, so     *)
(* that there is only one call of LlmFallback at a time, while the worker  *)
(* threads that check tokens go on.                                        *)
(***************************************************************************)
EXTENDS Naturals, Sequences

CONSTANTS None, Requests, Orders, Configurations

ASSUME ConfigurationsAssumption ==
    Configurations \subseteq
        [AUTH_REQUIRED : BOOLEAN, JWT_JWKS_URL : BOOLEAN, JWT_ISSUER : BOOLEAN, debug : BOOLEAN]

VARIABLES
    loop,      \* the request that holds the event loop in analyze_company, or None
    pc,        \* where each request is
    attempt,   \* local of fetch_cnpj_data
    sleeping,  \* seconds asyncio.sleep has left
    response,  \* status and outcome, or error code, of the answer, None before it
    asked,     \* history: what BrasilAPI answered, in order
    audited,   \* history: what the model said of the company
    order, allowTextOnly, stage, queue, trail,  \* the model call in progress
    settings, place, call, client, using, verdict, status, late  \* admission

Llm == INSTANCE LlmFallback
Access == INSTANCE AccessControl

llmVars == <<order, allowTextOnly, stage, queue, trail>>
accessVars == <<settings, place, call, client, using, verdict, status, late>>
localVars == <<attempt, sleeping, asked, audited, llmVars>>
routeVars == <<loop, pc, attempt, sleeping, response, asked, audited, llmVars>>
vars == <<routeVars, accessVars>>

MAX_RETRIES == 3

\* 400 or 404; 429; an error of the transport, another status or no JSON; a record
\* that is ATIVA, one that is not, and JSON the route cannot read.
RegistryAnswers == {"missing", "limited", "failed", "active", "inactive", "unreadable"}

\* CNPJValidationResponse, and the body that register_error_handlers give an exception
\* (that of the debug route has no code).
Result(outcome) == [status |-> 200, code |-> outcome]
Problem(status_code, errorCode) == [status |-> status_code, code |-> errorCode]

DependencyUnavailable == Problem(502, "DEPENDENCY_UNAVAILABLE")
InternalError == Problem(500, "INTERNAL_ERROR")

GENERIC_BY_STATUS(status_code) ==
    CASE status_code = 401 -> "UNAUTHENTICATED"
      [] status_code = 403 -> "FORBIDDEN"
      [] status_code = 404 -> "NOT_FOUND"
      [] status_code = 503 -> "DEPENDENCY_UNAVAILABLE"

HttpError(status_code) == Problem(status_code, GENERIC_BY_STATUS(status_code))

Answers ==
    { Result(outcome) : outcome \in {"VALID", "INVALID_CNPJ_FORMAT", "CNPJ_NOT_FOUND",
                                     "CNPJ_INACTIVE", "INVALID_COMPANY_CATEGORY"} }
        \cup { DependencyUnavailable, InternalError }
        \cup { HttpError(status_code) : status_code \in Access!Refusals }

ASSUME NoneAssumption ==
    None \notin Requests /\ None \notin BOOLEAN /\ None \notin Answers /\ None \notin Access!Credentials

Init ==
    /\ loop = None
    /\ pc = [r \in Requests |-> "idle"]
    /\ attempt = [r \in Requests |-> 0]
    /\ sleeping = [r \in Requests |-> 0]
    /\ response = [r \in Requests |-> None]
    /\ asked = [r \in Requests |-> <<>>]
    /\ audited = [r \in Requests |-> None]
    /\ Llm!Init
    /\ Access!Init

Goto(r, where) == pc' = [pc EXCEPT ![r] = where]

Answer(r, what) ==
    /\ Goto(r, "done")
    /\ response' = [response EXCEPT ![r] = what]

\* What the dependencies of both routes do on the loop, and their threads off it.
Admission(r) == loop = None /\ Access!LoopStep(r) /\ UNCHANGED routeVars
TokenCheck(r) == Access!ThreadStep(r) /\ UNCHANGED routeVars

\* The HTTPException becomes the answer.
Refused(r) ==
    /\ loop = None /\ Access!TurnAway(r)
    /\ Answer(r, HttpError(status[r]))
    /\ UNCHANGED <<loop, localVars>>

\* _sanitize_cnpj and the test of its length.
Receive(r) ==
    /\ loop = None /\ Access!Enter(r)
    /\ \/ Answer(r, Result("INVALID_CNPJ_FORMAT"))
       \/ Goto(r, "asking") /\ UNCHANGED response
    /\ UNCHANGED <<loop, localVars>>

----------------------------------------------------------------------------
(* fetch_cnpj_data *)

\* Mutant: counts the attempts from one.
BackoffMutant(n) == 2 ^ (n + 2)

Backoff(n) == 2 ^ (n + 1)

\* What a response other than an ATIVA record or a 429 leads to.
AnswerTo(outcome) ==
    CASE outcome = "missing"    -> Result("CNPJ_NOT_FOUND")
      [] outcome = "inactive"   -> Result("CNPJ_INACTIVE")
      [] outcome = "failed"     -> DependencyUnavailable
      [] outcome = "unreadable" -> InternalError

Heard(r, outcome) ==
    /\ pc[r] = "asking" /\ loop = None
    /\ asked' = [asked EXCEPT ![r] = Append(@, outcome)]

RegistrySettles(r, outcome) ==
    /\ outcome \notin {"limited", "active"}
    /\ Heard(r, outcome)
    /\ Answer(r, AnswerTo(outcome))
    /\ UNCHANGED <<loop, attempt, sleeping, audited, llmVars, accessVars>>

RegistryLimits(r) ==
    /\ Heard(r, "limited")
    /\ sleeping' = [sleeping EXCEPT ![r] = Backoff(attempt[r])]
    /\ Goto(r, "sleeping")
    /\ UNCHANGED <<loop, attempt, response, audited, llmVars, accessVars>>

Tick ==
    /\ \E r \in Requests : sleeping[r] > 0
    /\ sleeping' = [r \in Requests |-> IF sleeping[r] > 0 THEN sleeping[r] - 1 ELSE 0]
    /\ UNCHANGED <<loop, pc, attempt, response, asked, audited, llmVars, accessVars>>

Awake(r) == pc[r] = "sleeping" /\ sleeping[r] = 0 /\ loop = None

Retry(r) ==
    /\ Awake(r)
    /\ attempt[r] + 1 < MAX_RETRIES
    /\ attempt' = [attempt EXCEPT ![r] = @ + 1]
    /\ Goto(r, "asking")
    /\ UNCHANGED <<loop, sleeping, response, asked, audited, llmVars, accessVars>>

\* Mutant: without raise_for_status, fetch_cnpj_data ends in its `return None`.
GiveUpNoneMutant(r) ==
    /\ Awake(r)
    /\ attempt[r] + 1 = MAX_RETRIES
    /\ Answer(r, Result("CNPJ_NOT_FOUND"))
    /\ UNCHANGED <<loop, attempt, sleeping, asked, audited, llmVars, accessVars>>

\* Mutant: one attempt less.
GiveUpEarlyMutant(r) ==
    /\ Awake(r)
    /\ attempt[r] + 2 >= MAX_RETRIES
    /\ Answer(r, DependencyUnavailable)
    /\ UNCHANGED <<loop, attempt, sleeping, asked, audited, llmVars, accessVars>>

\* The loop is over, after a last sleep: the 429 is raised and becomes a 502.
GiveUp(r) ==
    /\ Awake(r)
    /\ attempt[r] + 1 = MAX_RETRIES
    /\ Answer(r, DependencyUnavailable)
    /\ UNCHANGED <<loop, attempt, sleeping, asked, audited, llmVars, accessVars>>

----------------------------------------------------------------------------
(* analyze_company, and the end of run_cnpj_validation *)

Analyse(r) ==
    /\ Heard(r, "active")
    /\ loop' = r
    /\ Goto(r, "preparing")
    /\ UNCHANGED <<attempt, sleeping, response, audited, llmVars, accessVars>>

\* The prompt is built and get_llm has returned.
AskModel(r) ==
    /\ loop = r /\ pc[r] = "preparing"
    /\ Goto(r, "analysing")
    /\ Llm!Invoke(TRUE)
    /\ UNCHANGED <<loop, attempt, sleeping, response, asked, audited, accessVars>>

ModelStep ==
    /\ loop # None /\ pc[loop] = "analysing"
    /\ Llm!CallStep
    /\ UNCHANGED <<loop, pc, attempt, sleeping, response, asked, audited, accessVars>>

Analysed(r) ==
    /\ loop = r /\ pc[r] = "analysing" /\ stage = "answered"
    /\ Llm!Return
    /\ loop' = None
    /\ \E compatible \in BOOLEAN :
         /\ audited' = [audited EXCEPT ![r] = compatible]
         /\ Answer(r, Result(IF compatible THEN "VALID" ELSE "INVALID_COMPANY_CATEGORY"))
    /\ UNCHANGED <<attempt, sleeping, asked, accessVars>>

\* Mutant: a company the model could not be asked about passes.
AnalysisFailsMutant(r) ==
    /\ loop = r
    /\ \/ pc[r] = "preparing" /\ UNCHANGED llmVars
       \/ pc[r] = "analysing" /\ Llm!Return
    /\ loop' = None
    /\ Answer(r, IF stage = "rate_limited" THEN Result("VALID") ELSE InternalError)
    /\ UNCHANGED <<attempt, sleeping, asked, audited, accessVars>>

\* The prompt, get_llm or the call raises, or the structured output is None.
AnalysisFails(r) ==
    /\ loop = r
    /\ \/ pc[r] = "preparing" /\ UNCHANGED llmVars
       \/ pc[r] = "analysing" /\ Llm!Return
    /\ loop' = None
    /\ Answer(r, InternalError)
    /\ UNCHANGED <<attempt, sleeping, asked, audited, accessVars>>

----------------------------------------------------------------------------

Step(r) ==
    \/ Admission(r) \/ TokenCheck(r) \/ Refused(r)
    \/ Receive(r) \/ RegistryLimits(r) \/ Retry(r) \/ GiveUp(r)
    \/ Analyse(r) \/ AskModel(r) \/ Analysed(r) \/ AnalysisFails(r)
    \/ \E outcome \in RegistryAnswers : RegistrySettles(r, outcome)

Next == Tick \/ ModelStep \/ \E r \in Requests : Step(r)

\* Each wait for BrasilAPI has its timeout and the models have theirs, sleep returns,
\* worker threads run, and the event loop resumes its ready coroutines in turn.  That an
\* answer does not trickle in for ever is assumed.  Nobody has to make a request.
Spec ==
    /\ Init /\ [][Next]_vars
    /\ WF_vars(Tick) /\ WF_vars(ModelStep)
    /\ \A r \in Requests : WF_vars(place[r] # "new" /\ Step(r))

----------------------------------------------------------------------------

Last(r) == asked[r][Len(asked[r])]

\* Types of the requests' state.
TypeOK ==
    /\ loop \in Requests \cup {None}
    /\ pc \in [Requests -> {"idle", "asking", "sleeping", "preparing", "analysing", "done"}]
    /\ attempt \in [Requests -> 0 .. MAX_RETRIES - 1]
    /\ sleeping \in [Requests -> 0 .. 2 ^ MAX_RETRIES]
    /\ response \in [Requests -> Answers \cup {None}]
    /\ asked \in [Requests -> Seq(RegistryAnswers)]
    /\ audited \in [Requests -> BOOLEAN \cup {None}]
    /\ Access!AccessTypeOK

\* A verdict on a company rests on what BrasilAPI and the model said in the same
\* request: VALID takes an ATIVA record and a model that found it compatible, and no
\* failure of the model in any provider is taken for either answer.
VerdictIsEarned ==
    \A r \in Requests :
        /\ response[r] = Result("VALID") => Last(r) = "active" /\ audited[r] = TRUE
        /\ response[r] = Result("INVALID_COMPANY_CATEGORY") => Last(r) = "active" /\ audited[r] = FALSE

\* While BrasilAPI gave nothing but 429s and errors the company is not called
\* INVALID: an outage of the registry is an HTTP error.
OutageIsNoVerdict ==
    \A r \in Requests :
        asked[r] # <<>> /\ (\A i \in DOMAIN asked[r] : asked[r][i] \in {"limited", "failed"})
            => response[r] \in {None, DependencyUnavailable}

\* The 502 of a rate limit comes after MAX_RETRIES requests, and BrasilAPI is not
\* asked again after an answer other than 429.
RetriesAreUsedUp ==
    \A r \in Requests :
        /\ response[r] = DependencyUnavailable /\ Last(r) = "limited"
               => Len(asked[r]) = MAX_RETRIES
        /\ \A i \in DOMAIN asked[r] : i < Len(asked[r]) => asked[r][i] = "limited"

\* Every request that arrives is answered, although others hold the event loop
\* through their model calls, its token is checked in another thread and it may be
\* sent to sleep three times.
EveryCompanyIsAnswered ==
    \A r \in Requests : place[r] # "new" ~> response[r] # None

\* Nobody is let in who should not be, by either route and in any configuration: with
\* authentication on, only on an access token of the trusted issuer; to the debug
\* route only an admin, on a token of that issuer (of any kind that the library takes),
\* and never where it could not have been checked; and no route is entered without
\* having been let in.
AdmissionIsEarned ==
    \A r \in Requests :
        /\ place[r] = "admitted" => Access!Earned(call[r])
        /\ place[r] # "gone" => asked[r] = <<>> /\ response[r] = None

\* Nobody is kept out who should not be: where the settings allow a check at all, a
\* genuine access token is refused only when the key set could not be fetched for it.
\* A token of an old kind, without token_type, is one.
ValidTokenIsAdmitted ==
    \A r \in Requests :
        place[r] = "refused" /\ Access!Admissible(call[r]) => verdict[r] = "unreachable"

\* The race for the first client ends with the requests that took part in it: one
\* that comes once a client is registered uses a registered one and
\* builds none.
LateRequestsShareAClient ==
    \A r \in late : place[r] # "building" /\ using[r] # r

==============================================================================
