------------------------- MODULE MCCompanyValidation -------------------------
EXTENDS CompanyValidation

\* The order the service is deployed with; MCLlmFallback varies it.
MCOrders == { <<"gemini", "groq", "openai">> }

Configuration(auth, jwks, issuer, debug) ==
    [AUTH_REQUIRED |-> auth, JWT_JWKS_URL |-> jwks, JWT_ISSUER |-> issuer, debug |-> debug]

\* As deployed, without an issuer, without keys, and open for development.
MCConfigurations ==
    { Configuration(TRUE, TRUE, TRUE, TRUE), Configuration(TRUE, TRUE, FALSE, TRUE),
      Configuration(TRUE, FALSE, FALSE, TRUE), Configuration(FALSE, FALSE, FALSE, FALSE) }

==============================================================================
