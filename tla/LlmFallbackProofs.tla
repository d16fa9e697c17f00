-------------------------- MODULE LlmFallbackProofs --------------------------
(***************************************************************************)
(* Proofs about the calls of invoke_llm_with_retry, for any provider       *)
(* orders, with any names in them and as often as one likes.               *)
(***************************************************************************)
EXTENDS LlmFallback, DataInduction

\* The indices of the providers this call may fall back on.
Usable == {i \in DOMAIN Providers : /\ Providers[i] # "gemini"
                                    /\ allowTextOnly \/ Providers[i] \notin TEXT_ONLY_PROVIDERS}

\* What has been asked says where the call is: nobody, or Gemini alone, or Gemini and
\* then fallbacks; all but the last of them were refused for what looked like a rate
\* limit, and the last one too as long as the loop goes on.
Asking ==
    /\ stage \in {"idle", "primary"} => trail = <<>>
    /\ stage \notin {"idle", "primary"} => Len(trail) > 0 /\ trail[1].provider = "gemini"
    /\ stage = "lookup" => Len(trail) = 1
    /\ \A i \in 1 .. Len(trail) :
         i < Len(trail) \/ stage \in {"lookup", "fallback", "rate_limited"}
             => _is_rate_limit_error(trail[i].result)
    /\ stage = "answered" => trail[Len(trail)].result = "answer"
    /\ stage = "raised" => trail[Len(trail)].result = "other" \/ Len(trail) = 1

\* The fallbacks asked and the queue make up the list of the fallbacks.
Split ==
    stage \in {"fallback", "rate_limited"} =>
        LET all == _fallback_providers(allowTextOnly)
        IN /\ Len(all) = Len(trail) - 1 + Len(queue)
           /\ \A i \in 2 .. Len(trail) : trail[i].provider = all[i - 1]
           /\ \A i \in 1 .. Len(queue) : queue[i] = all[Len(trail) - 1 + i]
           /\ stage = "rate_limited" => queue = <<>>

\* With images neither the trail nor the queue has a text-only provider.
NoTextOnly ==
    ~allowTextOnly =>
        /\ \A i \in 1 .. Len(trail) : trail[i].provider \notin TEXT_ONLY_PROVIDERS
        /\ \A i \in 1 .. Len(queue) : queue[i] \notin TEXT_ONLY_PROVIDERS

IInv == TypeOK /\ Asking /\ Split /\ NoTextOnly

----------------------------------------------------------------------------
(* The list of the fallbacks *)

\* It is a list of names, those of the order that this call may use, in its order.
LEMMA FallbacksEnumerate ==
    ASSUME TypeOK
    PROVE  LET all == _fallback_providers(allowTextOnly)
           IN  all \in Seq(ProviderNames) /\ \E f : Enumerates(f, all, Providers, Usable)
<1>1. Providers \in Seq(ProviderNames)
  <2>1. order \in Seq(ProviderNames)
    <3>1. Len(order) \in Nat /\ order \in [1 .. Len(order) -> STRING]
      BY OrdersAreSequences DEF TypeOK
    <3>2. \A i \in 1 .. Len(order) : order[i] \in ProviderNames
      BY <3>1 DEF TypeOK, ProviderNames
    <3> QED
      BY <3>1, <3>2
  <2>2. "groq" \in ProviderNames /\ <<"groq">> \in Seq(ProviderNames)
    BY DEF ProviderNames
  <2> QED
    BY <2>1, <2>2 DEF Providers
<1>2. Usable \subseteq 1 .. Len(Providers)
  BY <1>1 DEF Usable
<1>3. _fallback_providers(allowTextOnly) = Sublist(Providers, Usable)
  BY DEF _fallback_providers, Usable
<1> QED
  BY <1>1, <1>2, <1>3, SublistEnumerates

\* Without images it may be any of them, with images none that is text-only.
LEMMA FallbacksAreAllowed ==
    ASSUME TypeOK, ~allowTextOnly
    PROVE  LET all == _fallback_providers(allowTextOnly)
           IN  \A i \in 1 .. Len(all) : all[i] \notin TEXT_ONLY_PROVIDERS
<1>1. PICK f : Enumerates(f, _fallback_providers(allowTextOnly), Providers, Usable)
  BY FallbacksEnumerate
<1> QED
  BY <1>1 DEF Enumerates, Usable

----------------------------------------------------------------------------
(* The steps of a call *)

LEMMA InitInv == Init => IInv
<1> SUFFICES ASSUME Init PROVE IInv
  OBVIOUS
<1> USE DEF Init
<1>1. TypeOK
  <2>1. <<>> \in Seq(ProviderNames) /\ <<>> \in Seq([provider : ProviderNames, result : Results])
    OBVIOUS
  <2> QED
    BY <2>1 DEF TypeOK
<1>2. Asking
  BY DEF Asking
<1>3. Split
  BY DEF Split
<1>4. NoTextOnly
  BY DEF NoTextOnly
<1> QED
  BY <1>1, <1>2, <1>3, <1>4 DEF IInv

LEMMA InvokeInv ==
    ASSUME IInv, NEW textOnly \in BOOLEAN, Invoke(textOnly)
    PROVE  IInv'
<1> USE DEF Invoke
<1>1. TypeOK'
  <2>1. <<>> \in Seq(ProviderNames) /\ <<>> \in Seq([provider : ProviderNames, result : Results])
    OBVIOUS
  <2> QED
    BY <2>1 DEF IInv, TypeOK, Running
<1>2. Asking'
  BY DEF Asking
<1>3. Split'
  BY DEF Split
<1>4. NoTextOnly'
  BY DEF NoTextOnly
<1> QED
  BY <1>1, <1>2, <1>3, <1>4 DEF IInv

LEMMA ReturnInv ==
    ASSUME IInv, Return
    PROVE  IInv'
<1> USE DEF Return
<1>1. TypeOK'
  <2>1. <<>> \in Seq(ProviderNames) /\ <<>> \in Seq([provider : ProviderNames, result : Results])
    OBVIOUS
  <2> QED
    BY <2>1 DEF IInv, TypeOK, Running
<1>2. Asking'
  BY DEF Asking
<1>3. Split'
  BY DEF Split
<1>4. NoTextOnly'
  BY DEF NoTextOnly
<1> QED
  BY <1>1, <1>2, <1>3, <1>4 DEF IInv

LEMMA PrimaryInv ==
    ASSUME IInv, NEW error \in ErrorKinds, PrimaryAnswers \/ PrimaryFails(error)
    PROVE  IInv'
<1> USE DEF PrimaryAnswers, PrimaryFails, Asked, IInv, ErrorKinds, Results, Running, Settled
<1>1. trail = <<>> /\ stage = "primary"
  BY DEF Asking
<1>2. PICK result \in Results : trail' = <<[provider |-> "gemini", result |-> result]>>
  BY <1>1
<1>3. TypeOK'
  <2>1. stage' \in Running \cup Settled \cup {"idle"}
    BY <1>1
  <2>2. trail' \in Seq([provider : ProviderNames, result : Results])
    <3> HIDE DEF Results
    <3>1. \A asked \in [provider : ProviderNames, result : Results] :
             <<asked>> \in Seq([provider : ProviderNames, result : Results])
      OBVIOUS
    <3>2. [provider |-> "gemini", result |-> result]
            \in [provider : ProviderNames, result : Results]
      BY DEF ProviderNames
    <3> QED
      BY <1>2, <3>1, <3>2
  <2> QED
    BY <2>1, <2>2 DEF TypeOK
<1>4. Asking'
  BY <1>1 DEF Asking, _is_rate_limit_error
<1>5. Split' /\ NoTextOnly'
  BY <1>1, <1>2 DEF Split, NoTextOnly, TEXT_ONLY_PROVIDERS, _is_rate_limit_error
<1> QED
  BY <1>3, <1>4, <1>5

LEMMA LookupInv ==
    ASSUME IInv, Lookup \/ LookupFails
    PROVE  IInv'
<1> USE DEF Lookup, LookupFails, IInv, Running, Settled
<1>1. Len(trail) = 1 /\ stage = "lookup"
  BY DEF Asking
<1>2. _fallback_providers(allowTextOnly) \in Seq(ProviderNames)
  BY FallbacksEnumerate
<1>3. TypeOK'
  BY <1>2 DEF TypeOK
<1>4. Asking'
  BY <1>1 DEF Asking
<1>5. Split'
  <2>1. CASE Lookup
    <3>1. (_fallback_providers(allowTextOnly))' = queue'
      BY <2>1 DEF _fallback_providers, Providers
    <3>2. Len(trail') = 1 /\ Len(queue') \in Nat /\ stage' = "fallback"
      BY <1>1, <1>2, <2>1
    <3>3. \A i \in 1 .. Len(queue') : queue'[i] = queue'[Len(trail') - 1 + i]
      BY <3>2
    <3> QED
      BY <3>1, <3>2, <3>3 DEF Split
  <2>2. CASE LookupFails
    BY <2>2 DEF Split
  <2> QED
    BY <2>1, <2>2
<1>6. NoTextOnly'
  BY FallbacksAreAllowed DEF NoTextOnly
<1> QED
  BY <1>3, <1>4, <1>5, <1>6

LEMMA FallbackInv ==
    ASSUME IInv, NEW error \in ErrorKinds, FallbackAnswers \/ FallbackFails(error)
    PROVE  IInv'
<1> USE DEF FallbackAnswers, FallbackFails, Asked, IInv
<1>1. /\ stage = "fallback" /\ queue # <<>>
      /\ trail \in Seq([provider : ProviderNames, result : Results])
  BY DEF TypeOK
<1>2. PICK result \in Results :
        /\ trail' = Append(trail, [provider |-> Head(queue), result |-> result])
        /\ allowTextOnly' = allowTextOnly /\ order' = order
        /\ \/ stage' = "fallback" /\ queue' = Tail(queue) /\ _is_rate_limit_error(result)
           \/ stage' = "answered" /\ queue' = queue /\ result = "answer"
           \/ stage' = "raised" /\ queue' = queue /\ result = "other"
  <2>1. CASE FallbackAnswers
    BY <2>1 DEF Results
  <2>2. CASE FallbackFails(error)
    BY <1>1, <2>2 DEF Results, ErrorKinds, _is_rate_limit_error
  <2> QED
    BY <2>1, <2>2
<1>3. /\ Len(trail') = Len(trail) + 1 /\ Len(trail) > 0
      /\ \A i \in 1 .. Len(trail) : trail'[i] = trail[i]
      /\ trail'[Len(trail) + 1] = [provider |-> Head(queue), result |-> result]
  BY <1>1, <1>2 DEF Asking
<1>4. PICK first, rest :
        /\ first = Head(queue) /\ rest = Tail(queue)
        /\ first = queue[1] /\ first \in ProviderNames /\ 1 \in 1 .. Len(queue)
        /\ rest \in Seq(ProviderNames) /\ Len(rest) = Len(queue) - 1
        /\ \A i \in 1 .. Len(rest) : i + 1 \in 1 .. Len(queue) /\ rest[i] = queue[i + 1]
  <2>1. /\ Head(queue) = queue[1] /\ Head(queue) \in ProviderNames /\ 1 \in 1 .. Len(queue)
        /\ Tail(queue) \in Seq(ProviderNames) /\ Len(Tail(queue)) = Len(queue) - 1
        /\ \A i \in 1 .. Len(queue) - 1 : Tail(queue)[i] = queue[i + 1]
    BY <1>1 DEF TypeOK
  <2>2. PICK first, rest : first = Head(queue) /\ rest = Tail(queue)
    OBVIOUS
  <2>3. \A i \in 1 .. Len(queue) - 1 : i + 1 \in 1 .. Len(queue)
    BY <1>1 DEF TypeOK
  <2> QED
    BY <2>1, <2>2, <2>3
<1>5. /\ allowTextOnly' = allowTextOnly /\ order' = order
      /\ \/ stage' = "fallback" /\ queue' = rest /\ _is_rate_limit_error(result)
         \/ stage' = "answered" /\ queue' = queue /\ result = "answer"
         \/ stage' = "raised" /\ queue' = queue /\ result = "other"
      /\ trail'[Len(trail) + 1] = [provider |-> first, result |-> result]
  BY <1>1, <1>2, <1>3, <1>4
<1> HIDE DEF FallbackAnswers, FallbackFails, Asked
<1>6. TypeOK'
  <2>1. stage' \in Running \cup Settled \cup {"idle"}
    BY <1>5 DEF Running, Settled
  <2>2. queue' \in Seq(ProviderNames) /\ order' \in Orders /\ allowTextOnly' \in BOOLEAN
    BY <1>4, <1>5 DEF TypeOK
  <2>3. trail' \in Seq([provider : ProviderNames, result : Results])
    BY <1>1, <1>2, <1>4
  <2> QED
    BY <2>1, <2>2, <2>3 DEF TypeOK
<1>7. Asking'
  <2>1. /\ Len(trail) \in Nat /\ Len(trail') > 1 /\ trail[1].provider = "gemini"
        /\ \A i \in 1 .. Len(trail) : _is_rate_limit_error(trail[i].result)
    BY <1>1, <1>3 DEF Asking
  <2>2. \A i \in 1 .. Len(trail) : _is_rate_limit_error(trail'[i].result)
    BY <1>3, <2>1
  <2>3. trail'[1].provider = "gemini" /\ trail'[Len(trail')].result = result
    BY <1>3, <1>5, <2>1
  <2>4. ASSUME NEW i \in 1 .. Len(trail'), i < Len(trail') \/ stage' = "fallback"
        PROVE  _is_rate_limit_error(trail'[i].result)
    <3>1. CASE i = Len(trail) + 1
      BY <1>3, <1>5, <2>1, <2>4, <3>1
    <3>2. CASE i \in 1 .. Len(trail)
      BY <2>2, <3>2
    <3> QED
      BY <1>3, <2>1, <3>1, <3>2
  <2> QED
    BY <1>5, <2>1, <2>3, <2>4 DEF Asking
<1>8. Split'
  <2>1. ASSUME stage' = "fallback" PROVE Split'
    <3> DEFINE all == _fallback_providers(allowTextOnly)
    <3>1. queue' = rest
      BY <1>5, <2>1
    <3>2. (_fallback_providers(allowTextOnly))' = all
      BY <1>5 DEF _fallback_providers, Providers
    <3>3. /\ Len(all) = Len(trail) - 1 + Len(queue)
          /\ \A i \in 2 .. Len(trail) : trail[i].provider = all[i - 1]
          /\ \A i \in 1 .. Len(queue) : queue[i] = all[Len(trail) - 1 + i]
      BY <1>1 DEF Split
    <3>4. Len(queue) \in Nat /\ Len(trail) \in Nat
      BY <1>1 DEF TypeOK
    <3>5. Len(all) = Len(trail') - 1 + Len(queue')
      BY <1>3, <1>4, <3>1, <3>3, <3>4
    <3> HIDE DEF all
    <3>6. ASSUME NEW i \in 2 .. Len(trail') PROVE trail'[i].provider = all[i - 1]
      <4>1. CASE i = Len(trail) + 1
        <5>1. queue[1] = all[Len(trail) - 1 + 1]
          BY <1>4, <3>3
        <5>2. Len(trail) - 1 + 1 = i - 1
          BY <3>4, <4>1
        <5> QED
          BY <1>4, <1>5, <4>1, <5>1, <5>2
      <4>2. CASE i \in 2 .. Len(trail)
        BY <1>3, <3>3, <3>4, <4>2
      <4> QED
        BY <1>3, <3>4, <4>1, <4>2
    <3>7. ASSUME NEW i \in 1 .. Len(queue') PROVE queue'[i] = all[Len(trail') - 1 + i]
      <4>1. i + 1 \in 1 .. Len(queue) /\ queue'[i] = queue[i + 1]
        BY <1>4, <3>1
      <4>2. Len(trail) - 1 + (i + 1) = Len(trail') - 1 + i
        BY <1>3, <3>4
      <4> QED
        BY <3>3, <4>1, <4>2
    <3> QED
      BY <2>1, <3>2, <3>5, <3>6, <3>7 DEF Split, all
  <2> QED
    BY <1>5, <2>1 DEF Split
<1>9. NoTextOnly'
  <2>1. ASSUME ~allowTextOnly
        PROVE  /\ \A i \in 1 .. Len(trail') : trail'[i].provider \notin TEXT_ONLY_PROVIDERS
               /\ \A i \in 1 .. Len(queue') : queue'[i] \notin TEXT_ONLY_PROVIDERS
    <3>1. /\ \A i \in 1 .. Len(trail) : trail[i].provider \notin TEXT_ONLY_PROVIDERS
          /\ \A i \in 1 .. Len(queue) : queue[i] \notin TEXT_ONLY_PROVIDERS
      BY <2>1 DEF NoTextOnly
    <3>2. \A i \in 1 .. Len(trail') : i \in 1 .. Len(trail) \/ i = Len(trail) + 1
      BY <1>1, <1>3
    <3>3. \A i \in 1 .. Len(trail') : trail'[i].provider \notin TEXT_ONLY_PROVIDERS
      BY <1>3, <1>4, <1>5, <3>1, <3>2
    <3>4. queue' = queue \/ queue' = rest
      BY <1>5
    <3> QED
      BY <1>4, <3>1, <3>3, <3>4
  <2> QED
    BY <1>5, <2>1 DEF NoTextOnly
<1> QED
  BY <1>6, <1>7, <1>8, <1>9

LEMMA ExhaustedInv ==
    ASSUME IInv, Exhausted
    PROVE  IInv'
BY DEF Exhausted, IInv, TypeOK, Asking, Split, NoTextOnly, Running, Settled,
       _fallback_providers, Providers

LEMMA StepInv == IInv /\ [Next]_llmVars => IInv'
<1> SUFFICES ASSUME IInv, [Next]_llmVars PROVE IInv'
  OBVIOUS
<1>1. CASE UNCHANGED llmVars
  BY <1>1 DEF llmVars, IInv, TypeOK, Asking, Split, NoTextOnly, _fallback_providers, Providers
<1>2. CASE CallStep
  BY <1>2, PrimaryInv, LookupInv, FallbackInv, ExhaustedInv DEF CallStep, ErrorKinds
<1> QED
  BY <1>1, <1>2, InvokeInv, ReturnInv DEF Next

LEMMA Invariance == Spec => []IInv
BY InitInv, StepInv, PTL DEF Spec

----------------------------------------------------------------------------

\* The locals of a call are well typed, whatever names the order holds.
THEOREM TypeCorrect == Spec => []TypeOK
<1>1. IInv => TypeOK
  BY DEF IInv
<1> QED
  BY <1>1, Invariance, PTL

\* A call with images reaches no text-only provider, for any LLM_PROVIDER_ORDER.
THEOREM VisionAvoidsTextOnlyHolds == Spec => []VisionAvoidsTextOnly
<1>1. IInv => VisionAvoidsTextOnly
  BY DEF IInv, NoTextOnly, VisionAvoidsTextOnly
<1> QED
  BY <1>1, Invariance, PTL

\* Only what looks like a rate limit moves on, and the last provider decides.
THEOREM LastAttemptDecidesHolds == Spec => []LastAttemptDecides
<1>1. IInv => LastAttemptDecides
  BY DEF IInv, Asking, LastAttemptDecides, _is_rate_limit_error
<1> QED
  BY <1>1, Invariance, PTL

\* A call that gives up has asked Gemini and every provider it may use, in order.
THEOREM ExhaustedAskedEveryoneHolds == Spec => []ExhaustedAskedEveryone
<1>1. ASSUME IInv, stage = "rate_limited" PROVE ExhaustedAskedEveryone
  <2> DEFINE all == _fallback_providers(allowTextOnly)
             later == 2 .. Len(trail)
  <2>1. PICK f : Enumerates(f, all, Providers, Usable)
    BY <1>1, FallbacksEnumerate DEF IInv
  <2>2. Len(trail) > 0 /\ trail[1].provider = "gemini"
    BY <1>1 DEF IInv, Asking
  <2>3. /\ Len(trail) \in Nat /\ Len(all) = Len(trail) - 1
        /\ \A i \in later : trail[i].provider = all[i - 1]
    BY <1>1 DEF IInv, TypeOK, Split
  <2> DEFINE position == [i \in later |-> f[i - 1]]
  <2>4. \A i \in later : i - 1 \in 1 .. Len(all) /\ position[i] = f[i - 1]
    BY <2>3
  <2>5. \A i \in 1 .. Len(all) : i + 1 \in later /\ position[i + 1] = f[i]
    BY <2>3
  <2>6. position \in [later -> Usable]
    BY <2>1, <2>4 DEF Enumerates
  <2> HIDE DEF position
  <2>7. \A i, j \in later : i < j => position[i] < position[j]
    BY <2>1, <2>3, <2>4 DEF Enumerates
  <2>8. \A k \in Usable : \E i \in later : position[i] = k
    BY <2>1, <2>5 DEF Enumerates
  <2>9. \A i \in later : trail[i].provider = Providers[position[i]]
    BY <2>1, <2>3, <2>4 DEF Enumerates
  <2> QED
    BY <2>2, <2>6, <2>7, <2>8, <2>9 DEF ExhaustedAskedEveryone, Usable, TEXT_ONLY_PROVIDERS
<1>2. IInv => ExhaustedAskedEveryone
  BY <1>1 DEF ExhaustedAskedEveryone
<1> QED
  BY <1>2, Invariance, PTL

==============================================================================
