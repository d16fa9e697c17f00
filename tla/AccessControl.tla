---------------------------- MODULE AccessControl ----------------------------
(***************************************************************************)
(* Who gets in: require_access_token of the public routes (api/auth.py),   *)
(* _authorize of the debug routes (api/routes/debug_routes.py) and the     *)
(* token checks of core/security/jwt.py, which run in worker threads and   *)
(* share _clients.  There is one JWKS URL, so that _clients holds one      *)
(* client or none; a client is named by the request that built it.         *)
(*                                                                         *)
(* Signatures, claims and PyJWKClient's cache of key sets are a library's: *)
(* a credential is what they make of it.  decode_user_id (ai_lib) keeps a  *)
(* client of its own.                                                      *)
(***************************************************************************)
EXTENDS Naturals

CONSTANTS
    None, Requests,
    Configurations   \* which of the settings are there; debug is debug_enabled()

VARIABLES
    settings,  \* get_settings(), read once
    place,     \* where each request is
    call,      \* its route and credential, None outside admission
    client,    \* _clients[jwks_url], or None
    using,     \* local of is_valid_access_token: its client
    verdict,   \* what the worker thread returns
    status,    \* the refusal
    late       \* history: requests that came when a client was registered

accessVars == <<settings, place, call, client, using, verdict, status, late>>

\* A token signed with a key nobody published; one of another token_type; an access token
\* of another issuer; one without token_type; one with.  Whose it is, an admin's or not,
\* is another matter.
Kinds == {"forged", "refresh", "foreign", "untyped", "access"}
Tokens(kinds) == [kind : kinds, admin : BOOLEAN]
Credentials == Tokens(Kinds)
Routes == {"public", "debug"}

Init ==
    /\ settings \in Configurations
    /\ place = [r \in Requests |-> "new"]
    /\ call = [r \in Requests |-> None]
    /\ client = None
    /\ using = [r \in Requests |-> None]
    /\ verdict = [r \in Requests |-> None]
    /\ status = [r \in Requests |-> None]
    /\ late = {}

Goto(r, where) == place' = [place EXCEPT ![r] = where]

Refuse(r, code) == Goto(r, "refused") /\ status' = [status EXCEPT ![r] = code]

Admit(r) == Goto(r, "admitted") /\ UNCHANGED status

----------------------------------------------------------------------------
(* On the event loop, up to asyncio.to_thread *)

\* Mutant: without credentials there is nothing to check.
PublicArrivesMutant(r, credential) ==
    IF ~settings.AUTH_REQUIRED \/ credential = None THEN Admit(r)
    ELSE IF ~settings.JWT_JWKS_URL THEN Refuse(r, 503)
    ELSE Goto(r, "looking") /\ UNCHANGED status

\* require_access_token.
PublicArrives(r, credential) ==
    IF ~settings.AUTH_REQUIRED THEN Admit(r)
    ELSE IF ~settings.JWT_JWKS_URL THEN Refuse(r, 503)
    ELSE IF credential = None THEN Refuse(r, 401)
    ELSE Goto(r, "looking") /\ UNCHANGED status

\* _authorize.
DebugArrives(r, credential) ==
    IF ~settings.debug THEN Refuse(r, 404)
    ELSE IF credential = None THEN Refuse(r, 401)
    ELSE Goto(r, "decoding") /\ UNCHANGED status

Arrive(r) ==
    /\ place[r] = "new"
    /\ \E route \in Routes, credential \in Credentials \cup {None} :
         /\ call' = [call EXCEPT ![r] = [route |-> route, credential |-> credential]]
         /\ IF route = "public" THEN PublicArrives(r, credential) ELSE DebugArrives(r, credential)
    /\ late' = IF client = None THEN late ELSE late \cup {r}
    /\ UNCHANGED <<settings, client, using, verdict>>

----------------------------------------------------------------------------
(* In a worker thread *)

\* Mutant: the dict is not consulted.
LookMutant(r) ==
    /\ place[r] = "looking"
    /\ Goto(r, "building")
    /\ UNCHANGED <<settings, call, client, using, verdict, status, late>>

\* _jwk_client reads the dict ...
Look(r) ==
    /\ place[r] = "looking"
    /\ using' = [using EXCEPT ![r] = client]
    /\ Goto(r, IF client = None THEN "building" ELSE "verifying")
    /\ UNCHANGED <<settings, call, client, verdict, status, late>>

\* ... and puts a client where it found none, whatever others have put there since.
Build(r) ==
    /\ place[r] = "building"
    /\ client' = r
    /\ using' = [using EXCEPT ![r] = r]
    /\ Goto(r, "verifying")
    /\ UNCHANGED <<settings, call, verdict, status, late>>

\* pyjwt.decode compares the issuer when there is one to compare with.
Signed(credential) ==
    credential.kind # "forged" /\ (credential.kind = "foreign" => ~settings.JWT_ISSUER)

\* Mutant: token_type has no default.
IsAccessMutant(credential) == credential.kind \notin {"refresh", "untyped"}

IsAccess(credential) == credential.kind # "refresh"

Returns(r, result) ==
    /\ Goto(r, "checked")
    /\ verdict' = [verdict EXCEPT ![r] = result]
    /\ using' = [using EXCEPT ![r] = None]

Judge(r) ==
    Returns(r, IF Signed(call[r].credential) /\ IsAccess(call[r].credential)
               THEN "valid" ELSE "rejected")

\* The client has the key in its cache or fetches it, and the token is decoded.
Verify(r) ==
    /\ place[r] = "verifying"
    /\ Judge(r)
    /\ UNCHANGED <<settings, call, client, status, late>>

\* The cache is empty or has expired, or it lacks the key the token names, and the
\* fetch fails: like any exception, this counts as an invalid token.
FetchFails(r) ==
    /\ place[r] = "verifying"
    /\ Returns(r, "unreachable")
    /\ UNCHANGED <<settings, call, client, status, late>>

\* A genuine access token of the issuer the service trusts.
Genuine(credential) == credential \in Tokens({"untyped", "access"})

\* decode_user_id: None without configuration, or on any failure.  Whether ai_lib looks
\* at token_type is its own affair: it may take a refresh token or not.
Decode(r) ==
    /\ place[r] = "decoding"
    /\ \E result \in {"valid", "rejected", "unreachable"} :
         /\ result = "valid" =>
                /\ settings.JWT_JWKS_URL /\ settings.JWT_ISSUER
                /\ Signed(call[r].credential)
         /\ result = "rejected" =>
                \/ ~(settings.JWT_JWKS_URL /\ settings.JWT_ISSUER)
                \/ ~Genuine(call[r].credential)
         /\ Returns(r, result)
    /\ UNCHANGED <<settings, call, client, status, late>>

----------------------------------------------------------------------------
(* On the event loop again *)

Decide(r) ==
    /\ place[r] = "checked"
    /\ IF verdict[r] # "valid" THEN Refuse(r, 401)
       ELSE IF call[r].route = "debug" /\ ~call[r].credential.admin THEN Refuse(r, 403)
       ELSE Admit(r)
    /\ UNCHANGED <<settings, call, client, using, verdict, late>>

\* The request goes on to its route, or its refusal is sent.
Leave(r) ==
    /\ Goto(r, "gone")
    /\ call' = [call EXCEPT ![r] = None]
    /\ verdict' = [verdict EXCEPT ![r] = None]
    /\ status' = [status EXCEPT ![r] = None]
    /\ late' = late \ {r}
    /\ UNCHANGED <<settings, client, using>>

Enter(r) == place[r] = "admitted" /\ Leave(r)
TurnAway(r) == place[r] = "refused" /\ Leave(r)

LoopStep(r) == Arrive(r) \/ Decide(r)
ThreadStep(r) == Look(r) \/ Build(r) \/ Verify(r) \/ FetchFails(r) \/ Decode(r)

----------------------------------------------------------------------------
(* Properties, stated for the composition in CompanyValidation *)

Places == {"new", "looking", "building", "verifying", "decoding", "checked",
           "admitted", "refused", "gone"}
Refusals == {401, 403, 404, 503}

AccessTypeOK ==
    /\ settings \in Configurations
    /\ place \in [Requests -> Places]
    /\ call \in [Requests -> [route : Routes, credential : Credentials \cup {None}] \cup {None}]
    /\ client \in Requests \cup {None}
    /\ using \in [Requests -> Requests \cup {None}]
    /\ verdict \in [Requests -> {"valid", "rejected", "unreachable", None}]
    /\ status \in [Requests -> Refusals \cup {None}]
    /\ late \subseteq Requests

Earned(c) ==
    IF c.route = "public"
    THEN settings.AUTH_REQUIRED =>
             /\ settings.JWT_JWKS_URL
             /\ \/ Genuine(c.credential)
                \/ c.credential \in Tokens({"foreign"}) /\ ~settings.JWT_ISSUER
    ELSE /\ settings.debug /\ settings.JWT_JWKS_URL /\ settings.JWT_ISSUER
         /\ c.credential \in Tokens({"refresh", "untyped", "access"}) /\ c.credential.admin

Admissible(c) ==
    IF c.route = "public"
    THEN settings.JWT_JWKS_URL /\ Genuine(c.credential)
    ELSE Earned(c) /\ Genuine(c.credential)

=============================================================================
