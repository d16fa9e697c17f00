---------------------------- MODULE MCLlmFallback ----------------------------
(* LLM_PROVIDER_ORDER unset, the deployed orders, Gemini last, a text-only     *)
(* order and one naming a provider _build_llm does not know.                   *)
EXTENDS LlmFallback

MCOrders ==
    { <<>>, <<"gemini", "groq", "openai">>, <<"gemini", "openai", "groq">>,
      <<"openai", "groq", "gemini">>, <<"gemini", "groq">>,
      <<"gemini", "mistral", "openai">> }

==============================================================================
