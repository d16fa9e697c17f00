------------------------- MODULE CertificatePipeline -------------------------
(***************************************************************************)
(* One request to POST /api/v1/certificates/validate: the route, the graph *)
(* of src/workflow/graph/graph.py and its four nodes, step by step.        *)
(*                                                                         *)
(*   security_guardrail --safe--> nr10_agent -> nr35_agent -> consolidation*)
(*                    \--unsafe----------------------------------^         *)
(*                                                                         *)
(* A node is run in a worker thread on a graph state of its own request,   *)
(* so that requests share nothing and one of them is enough.  What the     *)
(* environment decides is chosen by \E: what a URL serves each time it is  *)
(* asked, what a model answers, and everything that may raise.             *)
(***************************************************************************)
EXTENDS Consolidation, Sequences

CONSTANTS
    Orders,          \* values of LLM_PROVIDER_ORDER (LlmFallback)
    Empty,           \* the image of a 200 response without a body: base64 ""
    Images,          \* the other images a URL may serve
    GuardAnswers,    \* what the guardrail's model may answer
    AgentAnswers,    \* what an NR agent's model may answer
    Days             \* the days a request may arrive on

GuardOutputs ==
    [is_safe : BOOLEAN, security_error_code : Codes, security_reason : {None, "text"}]

ASSUME OutputsAssumption ==
    /\ GuardAnswers \subseteq GuardOutputs
    /\ AgentAnswers \subseteq Results
    /\ None \notin GuardAnswers \cup AgentAnswers
    /\ None \notin {Absent, "text"}

Responses ==
    [http : {500}] \cup
    [http : {200}, status : {"ACCEPT", "REJECTED"}, error_code : Codes, reason : {"text"},
     extracted_data : {None, "names", "details"}]

ASSUME NoneIsNoVerdict == None \notin Verdicts \cup Responses

ASSUME ImagesAssumption == Empty \notin Images /\ None \notin Images \cup {Empty}

ASSUME DaysAssumption == Days \subseteq Int

VARIABLES
    node,      \* the node that runs, or "route" once the graph has ended
    step,      \* where in that node
    image,     \* local b64 variables of the running node, by certificate
    state,     \* the graph state, CertificateGraphState
    verdict,   \* what consolidation merged into the graph state
    response,  \* the HTTP response, None until it is sent
    order, allowTextOnly, stage, queue, trail,   \* the LLM call in progress
    screened,  \* history: the images the guardrail's model was shown
    judged,    \* history: the image each NR agent's model was shown
    answer,    \* history: what the model of each node answered
    raised     \* history: the step at which a node raised instead of returning, or None

Llm == INSTANCE LlmFallback

llmVars == <<order, allowTextOnly, stage, queue, trail>>
historyVars == <<screened, judged, answer, raised>>
vars == <<node, step, image, state, verdict, response, llmVars, historyVars>>

AgentOf == [c \in Certs |-> IF c = "nr10" THEN "nr10_agent" ELSE "nr35_agent"]
ModelNodes == {"security_guardrail", "nr10_agent", "nr35_agent"}
Nodes == ModelNodes \cup {"consolidation", "route"}

NoImages == [c \in Certs |-> None]
AnyImage == Images \cup {Empty}

----------------------------------------------------------------------------

Init ==
    /\ node = "security_guardrail"
    /\ step = "image"
    /\ image = NoImages
    /\ state \in [b64 : {NoImages}, is_safe : {FALSE}, security_error_code : {Absent},
                  security_reason : {Absent}, result : {NoImages}, current_date : Days]
    /\ verdict = None
    /\ response = None
    /\ Llm!Init
    /\ screened = NoImages
    /\ judged = NoImages
    /\ answer = [n \in ModelNodes |-> None]
    /\ raised = None

\* The next node of the graph starts with fresh locals.
Enter(next) ==
    /\ node' = next
    /\ step' = IF next \in ModelNodes THEN "image" ELSE "run"
    /\ image' = NoImages

\* A node raises: ainvoke propagates, the route answers 500 INTERNAL_ERROR.
Raise ==
    /\ node' = "route"
    /\ step' = "sent"
    /\ response' = [http |-> 500]
    /\ raised' = step
    /\ UNCHANGED <<image, state, verdict, llmVars, screened, judged, answer>>

(***************************************************************************)
(* security_guardrail                                                      *)
(***************************************************************************)

\* The certificate whose image the guardrail downloads now: NR-10 first.
GuardFetches(c) ==
    /\ node = "security_guardrail" /\ step = "image"
    /\ image[c] = None
    /\ c = "nr35" => image["nr10"] # None

GuardDownload(c) ==
    /\ GuardFetches(c)
    /\ \E served \in AnyImage : image' = [image EXCEPT ![c] = served]
    /\ step' = IF c = "nr35" THEN "model" ELSE "image"
    /\ UNCHANGED <<node, state, verdict, response, llmVars, historyVars>>

\* Mutant: a plain edge to the agents where the conditional one was.
RouteMutant == Enter("nr10_agent")

\* The router of the conditional edge, _check_security, runs on the new state.
Route == Enter(IF state'.is_safe THEN "nr10_agent" ELSE "consolidation")

GuardDownloadFails(c) ==
    /\ GuardFetches(c)
    /\ state' = [state EXCEPT !.is_safe = FALSE, !.b64 = NoImages,
                              !.security_error_code = "ILLEGIBLE_DOCUMENT",
                              !.security_reason = "text"]
    /\ Route
    /\ UNCHANGED <<verdict, response, llmVars, historyVars>>

\* get_llm() succeeded; the message with both images goes to the model.
GuardAsks ==
    /\ node = "security_guardrail" /\ step = "model"
    /\ step' = "waiting"
    /\ Llm!Invoke(FALSE)
    /\ screened' = image
    /\ UNCHANGED <<node, image, state, verdict, response, judged, answer, raised>>

GuardReturns(output, images) ==
    /\ state' = [state EXCEPT !.is_safe = output.is_safe, !.b64 = images,
                              !.security_error_code = output.security_error_code,
                              !.security_reason = output.security_reason]
    /\ Route

\* Mutant: the images are not cached for the agents.
GuardAnswersMutant ==
    /\ node = "security_guardrail" /\ step = "waiting" /\ stage = "answered"
    /\ \E output \in GuardAnswers :
         /\ GuardReturns(output, NoImages)
         /\ answer' = [answer EXCEPT !["security_guardrail"] = output]
    /\ UNCHANGED <<verdict, response, llmVars, screened, judged, raised>>

GuardAnswered ==
    /\ node = "security_guardrail" /\ step = "waiting" /\ stage = "answered"
    /\ \E output \in GuardAnswers :
         /\ GuardReturns(output, image)
         /\ answer' = [answer EXCEPT !["security_guardrail"] = output]
    /\ UNCHANGED <<verdict, response, llmVars, screened, judged, raised>>

\* Mutant: an error of the model lets the documents through.
GuardModelFailsMutant ==
    /\ node = "security_guardrail" /\ step = "waiting"
    /\ stage \in {"raised", "rate_limited"}
    /\ GuardReturns([is_safe |-> TRUE, security_error_code |-> None,
                     security_reason |-> None], image)
    /\ UNCHANGED <<verdict, response, llmVars, historyVars>>

\* The call raised: fail-safe, and the returned dict has no image keys.
GuardModelFails ==
    /\ node = "security_guardrail" /\ step = "waiting"
    /\ stage \in {"raised", "rate_limited"}
    /\ GuardReturns([is_safe |-> FALSE, security_error_code |-> "SECURITY_RISK",
                     security_reason |-> "text"], state.b64)
    /\ UNCHANGED <<verdict, response, llmVars, historyVars>>

(***************************************************************************)
(* nr10_agent and nr35_agent: the same code for the two certificates       *)
(***************************************************************************)

AfterAgent(c) == IF c = "nr10" THEN "nr35_agent" ELSE "consolidation"

AgentReturns(c, result) ==
    /\ state' = [state EXCEPT !.result[c] = result]
    /\ Enter(AfterAgent(c))

\* Mutant: the failure result leaves the verdict open.
AgentFailureMutant ==
    [valid |-> None, error_code |-> "ILLEGIBLE_DOCUMENT", workload_hours |-> None,
     issue_date |-> None, student_name |-> None]

AgentFailure ==
    [valid |-> FALSE, error_code |-> "ILLEGIBLE_DOCUMENT", workload_hours |-> None,
     issue_date |-> None, student_name |-> None]

\* `if not b64_data`: None and the empty string are both no cached image.
Cached(c) == state.b64[c] \notin {None, Empty}

CachedImage(c) ==
    /\ node = AgentOf[c] /\ step = "image"
    /\ Cached(c)
    /\ image' = [image EXCEPT ![c] = state.b64[c]]
    /\ step' = "model"
    /\ UNCHANGED <<node, state, verdict, response, llmVars, historyVars>>

AgentDownload(c) ==
    /\ node = AgentOf[c] /\ step = "image"
    /\ ~Cached(c)
    /\ \E served \in AnyImage : image' = [image EXCEPT ![c] = served]
    /\ step' = "model"
    /\ UNCHANGED <<node, state, verdict, response, llmVars, historyVars>>

AgentDownloadFails(c) ==
    /\ node = AgentOf[c] /\ step = "image"
    /\ ~Cached(c)
    /\ AgentReturns(c, AgentFailure)
    /\ UNCHANGED <<verdict, response, llmVars, historyVars>>

AgentAsks(c) ==
    /\ node = AgentOf[c] /\ step = "model"
    /\ step' = "waiting"
    /\ Llm!Invoke(FALSE)
    /\ judged' = [judged EXCEPT ![c] = image[c]]
    /\ UNCHANGED <<node, image, state, verdict, response, screened, answer, raised>>

\* Mutant: the NR-35 agent stores its result under the other certificate's key.
AgentAnsweredMutant(c) ==
    /\ node = AgentOf[c] /\ step = "waiting" /\ stage = "answered"
    /\ \E output \in AgentAnswers :
         /\ state' = [state EXCEPT !.result = [d \in Certs |-> output]]
         /\ Enter(AfterAgent(c))
         /\ answer' = [answer EXCEPT ![AgentOf[c]] = output]
    /\ UNCHANGED <<verdict, response, llmVars, screened, judged, raised>>

AgentAnswered(c) ==
    /\ node = AgentOf[c] /\ step = "waiting" /\ stage = "answered"
    /\ \E output \in AgentAnswers :
         /\ AgentReturns(c, output)
         /\ answer' = [answer EXCEPT ![AgentOf[c]] = output]
    /\ UNCHANGED <<verdict, response, llmVars, screened, judged, raised>>

\* Mutant: the handler expects no other error than ProvidersRateLimitedError.
AgentModelFailsMutant(c) ==
    /\ node = AgentOf[c] /\ step = "waiting"
    /\ \/ /\ stage = "rate_limited"
          /\ AgentReturns(c, AgentFailure)
          /\ UNCHANGED <<verdict, response, llmVars, historyVars>>
       \/ stage = "raised" /\ Raise

AgentModelFails(c) ==
    /\ node = AgentOf[c] /\ step = "waiting"
    /\ stage \in {"raised", "rate_limited"}
    /\ AgentReturns(c, AgentFailure)
    /\ UNCHANGED <<verdict, response, llmVars, historyVars>>

(***************************************************************************)
(* All three model nodes                                                   *)
(***************************************************************************)

\* get_llm() is called outside the try of its node.
GetLlmRaises == node \in ModelNodes /\ step = "model" /\ Raise

\* with_structured_output may give None; result is used outside the try.
NoStructuredOutput ==
    node \in ModelNodes /\ step = "waiting" /\ stage = "answered" /\ Raise

LlmStep ==
    /\ step = "waiting"
    /\ Llm!CallStep
    /\ UNCHANGED <<node, step, image, state, verdict, response, historyVars>>

(***************************************************************************)
(* consolidation and the rest of the route                                 *)
(***************************************************************************)

Consolidate ==
    /\ node = "consolidation"
    /\ verdict' = Verdict(state)
    /\ Enter("route")
    /\ UNCHANGED <<state, response, llmVars, historyVars>>

\* The response model wants a string as reason: None fails its validation, outside
\* the route's try, and is answered with 500 by the handler of last resort.
Respond ==
    /\ node = "route" /\ step = "run"
    /\ response' = IF verdict.reason = None THEN [http |-> 500]
                   ELSE [http |-> 200, status |-> verdict.status, reason |-> verdict.reason,
                         error_code |-> verdict.error_code,
                         extracted_data |-> verdict.extracted_data]
    /\ step' = "sent"
    /\ UNCHANGED <<node, image, state, verdict, llmVars, historyVars>>

----------------------------------------------------------------------------

GuardStep ==
    \/ GuardAsks \/ GuardAnswered \/ GuardModelFails
    \/ \E c \in Certs : GuardDownload(c) \/ GuardDownloadFails(c)

AgentStep(c) ==
    \/ CachedImage(c) \/ AgentDownload(c) \/ AgentDownloadFails(c)
    \/ AgentAsks(c) \/ AgentAnswered(c) \/ AgentModelFails(c)

Next ==
    \/ GuardStep
    \/ \E c \in Certs : AgentStep(c)
    \/ GetLlmRaises \/ NoStructuredOutput \/ LlmStep
    \/ Consolidate \/ Respond

\* A request in progress always takes its next step: worker threads are scheduled, and
\* no wait for the network lasts for ever.  The timeouts (30 s in a download, 60 s at
\* a model) bound each wait for the next bytes and not their sum; a server that sends
\* them one by one without end is assumed away.
Spec == Init /\ [][Next]_vars /\ WF_vars(Next)

----------------------------------------------------------------------------
(* What is known of the documents from the models' own answers, not from what  *)
(* the nodes stored.                                                           *)

Answered(n) == answer[n] # None

ScreenedSafe ==
    Answered("security_guardrail") /\ answer["security_guardrail"].is_safe

KnownFit(c) == Answered(AgentOf[c]) /\ Fit(c, answer[AgentOf[c]], state.current_date)

KnownSameStudent ==
    /\ \A c \in Certs : Answered(AgentOf[c]) /\ HasName(answer[AgentOf[c]])
    /\ SameStudent(answer["nr10_agent"], answer["nr35_agent"])

Evidence ==
    (IF ScreenedSafe THEN {"screened"} ELSE {})
      \cup {c \in Certs : KnownFit(c)}
      \cup (IF KnownSameStudent THEN {"same_student"} ELSE {})

Reply == CASE response = None -> "none"
           [] response # None /\ response.http = 500 -> "ERROR"
           [] OTHER -> response.status

----------------------------------------------------------------------------

\* Types of the request's state.
TypeOK ==
    /\ node \in Nodes
    /\ step \in {"image", "model", "waiting", "run", "sent"}
    /\ image \in [Certs -> AnyImage \cup {None}]
    /\ state \in [b64 : [Certs -> AnyImage \cup {None}], is_safe : BOOLEAN,
                  security_error_code : Codes \cup {Absent},
                  security_reason : {Absent, None, "text"},
                  result : [Certs -> Results \cup {None}], current_date : Days]
    /\ verdict \in Verdicts \cup {None}
    /\ response \in Responses \cup {None}
    /\ screened \in [Certs -> AnyImage \cup {None}]
    /\ judged \in [Certs -> AnyImage \cup {None}]
    /\ answer \in [ModelNodes -> GuardAnswers \cup AgentAnswers \cup {None}]
    /\ answer["security_guardrail"] \in GuardAnswers \cup {None}
    /\ \A c \in Certs : answer[AgentOf[c]] \in AgentAnswers \cup {None}
    /\ raised \in {None, "image", "model", "waiting"}

\* ARCHITECTURE.md:106: a failure never ends in a silent approval.  An ACCEPT rests
\* on the answers of three models, each of them given in this request: the images
\* are safe, both certificates are fit and the names agree.  A download or a model
\* that failed in any node, or an exception, excludes it.
AcceptanceIsEarned ==
    Reply = "ACCEPT" =>
        ScreenedSafe /\ (\A c \in Certs : KnownFit(c)) /\ KnownSameStudent /\ raised = None

\* What an agent judges is what the guardrail screened, although a URL may serve
\* something else each time: the cache between the nodes closes that window
\* whenever the screened image has any content.
ScreenedImageIsJudged ==
    \A c \in Certs :
        judged[c] # None /\ screened[c] # Empty => judged[c] = screened[c]

\* No NR agent shows an image to its model unless the guardrail's model has called
\* both images safe.
UnsafeIsNeverJudged == (\E c \in Certs : judged[c] # None) => ScreenedSafe

\* The guardrail called the images unsafe and did not say why.
UnsafeWithoutReason ==
    /\ Answered("security_guardrail")
    /\ ~answer["security_guardrail"].is_safe
    /\ answer["security_guardrail"].security_reason = None

\* Failing downloads and failing or rate-limited models are turned into rejections
\* (STATUS.md:16), in all three nodes: an answer of 500 has one of three causes.
\* get_llm raised, before a model was asked; a model did answer, but nothing that fits
\* the schema; or the reason of an unsafe answer is missing.
FailuresAreRejections ==
    Reply = "ERROR" =>
        \/ raised = "model"
        \/ raised = "waiting" /\ stage = "answered"
        \/ UnsafeWithoutReason

\* The pipeline keeps the promise of CertificateVerdict: one answer, ACCEPT only
\* on complete evidence, and an answer in the end.
Promise == INSTANCE CertificateVerdict WITH evidence <- Evidence, reply <- Reply

KeepsPromise == Promise!Spec

\* Every request is answered, whatever fails.
EveryRequestIsAnswered == <>(response # None)

----------------------------------------------------------------------------
(* What the documentation says and the code does not do.                       *)

\* ARCHITECTURE.md:106: any failure that is not handled results in a rejection too.
UnhandledFailureIsRejection == raised # None => Reply # "ERROR"

\* certificate_routes.py:41: a rejected certificate is a result, not an HTTP error.
RejectionIsNoHttpError ==
    Answered("security_guardrail") /\ ~answer["security_guardrail"].is_safe
        => Reply # "ERROR"

\* certificate_routes.py:41: status REJECTED comes with an error_code.
RejectionHasErrorCode ==
    Reply = "REJECTED" => response.error_code # None

\* security_guardrail_node.py:86: with is_safe=True the cached images are reused by
\* the agents.
SafeImagesAreReused ==
    \A c \in Certs : judged[c] # None => judged[c] = screened[c]

==============================================================================
