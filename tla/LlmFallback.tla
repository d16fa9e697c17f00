----------------------------- MODULE LlmFallback -----------------------------
(***************************************************************************)
(* One call of invoke_llm_with_retry (src/core/llm/llm_retry.py): the      *)
(* Gemini model the caller built is asked first; after an error whose text *)
(* looks like a rate limit the remaining providers of LLM_PROVIDER_ORDER   *)
(* are asked in turn; any other error propagates.                          *)
(*                                                                         *)
(* The state is the call's locals.  `trail` records every provider asked   *)
(* and what came of it.  A caller starts a call with Invoke, waits until   *)
(* `stage` is one of Settled and reads it; Return lets go of the locals.   *)
(***************************************************************************)
EXTENDS Naturals, Sequences, Lists

CONSTANT Orders   \* the values provider_order() may return: sequences of names

ASSUME OrdersAreSequences == Orders \subseteq Seq(STRING)

VARIABLES
    order,          \* the configured order, fixed while the process lives
    allowTextOnly,  \* argument allow_groq_fallback: FALSE when images are sent
    stage,          \* where the call is
    queue,          \* providers of the for loop still to be asked
    trail           \* history: <<[provider, result], ...>>

llmVars == <<order, allowTextOnly, stage, queue, trail>>
callVars == <<allowTextOnly, stage, queue, trail>>

----------------------------------------------------------------------------

TEXT_ONLY_PROVIDERS == {"groq"}

\* The keys of the dict in _build_llm; any other name is a KeyError.
Buildable == {"groq", "openai"}

\* What str(error) tells apart: a genuine 429, some other error whose text
\* happens to contain "429" or "RESOURCE_EXHAUSTED", and the rest.
ErrorKinds == {"rate_limit", "lookalike", "other"}

\* Mutant: every exception moves on to the next provider.
IsRateLimitErrorMutant(error) == error \in ErrorKinds

_is_rate_limit_error(error) == error \in {"rate_limit", "lookalike"}

\* provider_order() or ["groq"]
Providers == IF order = <<>> THEN <<"groq">> ELSE order

\* Mutant: allow_groq_fallback is not consulted.
FallbackProvidersMutant(textOnlyAllowed) ==
    Sublist(Providers, {i \in DOMAIN Providers : Providers[i] # "gemini"})

_fallback_providers(textOnlyAllowed) ==
    Sublist(Providers, {i \in DOMAIN Providers :
                          /\ Providers[i] # "gemini"
                          /\ textOnlyAllowed \/ Providers[i] \notin TEXT_ONLY_PROVIDERS})

Running == {"primary", "lookup", "fallback"}
Settled == {"answered", "raised", "rate_limited"}

Asked(provider, result) == Append(trail, [provider |-> provider, result |-> result])

----------------------------------------------------------------------------

\* The call is entered; images are sent exactly when textOnly is FALSE.
Invoke(textOnly) ==
    /\ stage \notin Running
    /\ stage' = "primary"
    /\ allowTextOnly' = textOnly
    /\ queue' = <<>>
    /\ trail' = <<>>
    /\ UNCHANGED order

\* The caller has the answer or the error, and the call's locals are gone.
Return ==
    /\ stage \in Settled
    /\ stage' = "idle" /\ allowTextOnly' = FALSE /\ queue' = <<>> /\ trail' = <<>>
    /\ UNCHANGED order

\* structured_llm.invoke returns.
PrimaryAnswers ==
    /\ stage = "primary"
    /\ stage' = "answered"
    /\ trail' = Asked("gemini", "answer")
    /\ UNCHANGED <<order, allowTextOnly, queue>>

\* structured_llm.invoke raises: only what looks like a rate limit goes on.
PrimaryFails(error) ==
    /\ stage = "primary"
    /\ stage' = IF _is_rate_limit_error(error) THEN "lookup" ELSE "raised"
    /\ trail' = Asked("gemini", error)
    /\ UNCHANGED <<order, allowTextOnly, queue>>

\* _fallback_providers, evaluated once before the loop.  key_client() and
\* provider_order() run outside any try.
Lookup ==
    /\ stage = "lookup"
    /\ stage' = "fallback"
    /\ queue' = _fallback_providers(allowTextOnly)
    /\ UNCHANGED <<order, allowTextOnly, trail>>

LookupFails ==
    /\ stage = "lookup"
    /\ stage' = "raised"
    /\ UNCHANGED <<order, allowTextOnly, queue, trail>>

FallbackAnswers ==
    /\ stage = "fallback"
    /\ queue # <<>>
    /\ Head(queue) \in Buildable
    /\ stage' = "answered"
    /\ trail' = Asked(Head(queue), "answer")
    /\ UNCHANGED <<order, allowTextOnly, queue>>

\* An unknown provider raises KeyError, which never looks like a rate limit.
FallbackFails(error) ==
    /\ stage = "fallback"
    /\ queue # <<>>
    /\ Head(queue) \notin Buildable => error = "other"
    /\ trail' = Asked(Head(queue), error)
    /\ IF _is_rate_limit_error(error)
       THEN stage' = stage /\ queue' = Tail(queue)
       ELSE stage' = "raised" /\ UNCHANGED queue
    /\ UNCHANGED <<order, allowTextOnly>>

\* Mutant: the function falls off its end instead of raising.
ExhaustedReturnsNoneMutant ==
    /\ stage = "fallback"
    /\ queue = <<>>
    /\ stage' = "returned None"
    /\ UNCHANGED <<order, allowTextOnly, queue, trail>>

\* Mutant: gives up after the first fallback that was refused.
ExhaustedMutant ==
    /\ stage = "fallback"
    /\ queue = <<>> \/ Len(trail) > 1
    /\ stage' = "rate_limited"
    /\ UNCHANGED <<order, allowTextOnly, queue, trail>>

\* The loop ran out of providers: ProvidersRateLimitedError.
Exhausted ==
    /\ stage = "fallback"
    /\ queue = <<>>
    /\ stage' = "rate_limited"
    /\ UNCHANGED <<order, allowTextOnly, queue, trail>>

\* Mutant: when every provider has been refused the call hangs and never returns.
CallStepMutant ==
    \/ PrimaryAnswers \/ Lookup \/ LookupFails \/ FallbackAnswers
    \/ \E error \in ErrorKinds : PrimaryFails(error) \/ FallbackFails(error)

CallStep ==
    \/ PrimaryAnswers \/ Lookup \/ LookupFails \/ FallbackAnswers \/ Exhausted
    \/ \E error \in ErrorKinds : PrimaryFails(error) \/ FallbackFails(error)

Init ==
    /\ order \in Orders
    /\ allowTextOnly = FALSE
    /\ stage = "idle"
    /\ queue = <<>>
    /\ trail = <<>>

Next == CallStep \/ Return \/ \E textOnly \in BOOLEAN : Invoke(textOnly)

\* A provider answers or times out (timeout=60 in every factory, for each wait for
\* its next bytes), so a running call always gets on; nothing obliges anyone to make
\* another call.
Spec == Init /\ [][Next]_llmVars /\ WF_llmVars(CallStep)

----------------------------------------------------------------------------

Results == ErrorKinds \cup {"answer"}
ProviderNames == {"gemini", "groq"} \cup UNION {{o[i] : i \in DOMAIN o} : o \in Orders}

\* Types of the call's locals.
TypeOK ==
    /\ order \in Orders
    /\ allowTextOnly \in BOOLEAN
    /\ stage \in Running \cup Settled \cup {"idle"}
    /\ queue \in Seq(ProviderNames)
    /\ trail \in Seq([provider : ProviderNames, result : Results])

\* A call that carries images (allow_groq_fallback=False in the guardrail and in
\* both NR agents) reaches no text-only provider, whatever order is configured
\* and whichever providers are refused on the way.
VisionAvoidsTextOnly ==
    ~allowTextOnly =>
        \A i \in 1 .. Len(trail) : trail[i].provider \notin TEXT_ONLY_PROVIDERS

\* A provider is asked only when all those before it were refused for something
\* that looked like a rate limit, and what a call raises is the error of the
\* provider asked last: "raised" never hides a later success, nor a rate limit.
LastAttemptDecides ==
    /\ \A i \in 1 .. Len(trail) :
         i < Len(trail) => trail[i].result \in {"rate_limit", "lookalike"}
    /\ stage = "answered" => trail[Len(trail)].result = "answer"
    /\ stage = "raised" =>
         \/ trail[Len(trail)].result = "other"
         \/ Len(trail) = 1     \* key_client or provider_order failed

\* ProvidersRateLimitedError means what its docstring says ("todos os provedores
\* atingiram rate limit"): Gemini was asked first, and after it every provider of the
\* order that this call may use, in its order and as often as the order names it.
ExhaustedAskedEveryone ==
    stage = "rate_limited" =>
        LET usable == {k \in DOMAIN Providers :
                         Providers[k] # "gemini" /\ (allowTextOnly \/ Providers[k] # "groq")}
            later == 2 .. Len(trail)
        IN /\ Len(trail) > 0 /\ trail[1].provider = "gemini"
           /\ \E position \in [later -> usable] :
                /\ \A i, j \in later : i < j => position[i] < position[j]
                /\ \A k \in usable : \E i \in later : position[i] = k
                /\ \A i \in later : trail[i].provider = Providers[position[i]]

\* The loop over the providers ends: every call answers or raises.
EveryCallSettles == stage = "primary" ~> stage \in Settled

==============================================================================
