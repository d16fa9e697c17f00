------------------------ MODULE CompanyValidationProofs ------------------------
(***************************************************************************)
(* Proofs about the company validation and about who is let in, for any    *)
(* number of concurrent requests and any set of configurations.            *)
(***************************************************************************)
EXTENDS CompanyValidation, TLAPS

\* What admission has found out about request r, by where it is.
AccessInv(r) ==
    /\ place[r] = "new" => using[r] = None
    /\ place[r] \in Access!Places \ {"new", "gone"} =>
         call[r] \in [route : Access!Routes, credential : Access!Credentials \cup {None}]
    /\ place[r] \in {"looking", "building", "verifying"} =>
         /\ settings.AUTH_REQUIRED /\ settings.JWT_JWKS_URL
         /\ call[r].route = "public" /\ call[r].credential # None
    /\ place[r] = "decoding" =>
         settings.debug /\ call[r].route = "debug" /\ call[r].credential # None
    /\ place[r] = "checked" =>
         /\ call[r].credential # None
         /\ call[r].route = "public" => settings.AUTH_REQUIRED /\ settings.JWT_JWKS_URL
         /\ call[r].route = "debug" => settings.debug
         /\ verdict[r] = "valid" =>
              /\ Access!Signed(call[r].credential)
              /\ call[r].route = "public" => Access!IsAccess(call[r].credential)
              /\ call[r].route = "debug" => settings.JWT_JWKS_URL /\ settings.JWT_ISSUER
         /\ verdict[r] # "valid" => verdict[r] = "unreachable" \/ ~Access!Admissible(call[r])
    /\ place[r] = "admitted" => Access!Earned(call[r])
    /\ place[r] = "refused" => status[r] \in Access!Refusals
    /\ place[r] = "refused" /\ Access!Admissible(call[r]) => verdict[r] = "unreachable"

\* The registered client was built by a request that had found none.
ClientInv ==
    /\ late # {} => client # None
    /\ client # None => place[client] # "new" /\ client \notin late
    /\ \A r \in late : place[r] # "building" /\ using[r] # r

\* What BrasilAPI has answered to request r, by where the request is: all but the
\* last answer were 429s, and the last one too as long as it is retried.
AskedInv(r) ==
    /\ place[r] # "gone" => pc[r] = "idle"
    /\ pc[r] = "idle" => asked[r] = <<>> /\ attempt[r] = 0
    /\ pc[r] # "done" => response[r] = None
    /\ pc[r] = "asking" => Len(asked[r]) = attempt[r]
    /\ pc[r] = "sleeping" => Len(asked[r]) = attempt[r] + 1
    /\ \A i \in 1 .. Len(asked[r]) :
         i < Len(asked[r]) \/ pc[r] \in {"asking", "sleeping"} => asked[r][i] = "limited"
    /\ pc[r] \in {"preparing", "analysing"} => asked[r] # <<>> /\ Last(r) = "active"

\* What an answer rests on.
AnswerInv(r) ==
    /\ response[r] = Result("VALID") => Last(r) = "active" /\ audited[r] = TRUE
    /\ response[r] = Result("INVALID_COMPANY_CATEGORY") => Last(r) = "active" /\ audited[r] = FALSE
    /\ response[r] = DependencyUnavailable /\ Last(r) = "limited" => Len(asked[r]) = MAX_RETRIES
    /\ asked[r] # <<>> /\ Last(r) \in {"limited", "failed"} =>
         response[r] \in {None, DependencyUnavailable}

IInv ==
    /\ TypeOK
    /\ ClientInv
    /\ \A r \in Requests : AccessInv(r) /\ AskedInv(r) /\ AnswerInv(r)

----------------------------------------------------------------------------
(* What a step leaves alone *)

LEMMA AccessKept ==
    ASSUME NEW q \in Requests, AccessInv(q), place'[q] = place[q], call'[q] = call[q],
           verdict'[q] = verdict[q], using'[q] = using[q], status'[q] = status[q], settings' = settings
    PROVE  AccessInv(q)'
BY DEF AccessInv, Access!Earned, Access!Admissible, Access!Signed, Access!IsAccess, Access!Genuine

LEMMA AskedKept ==
    ASSUME NEW q \in Requests, AskedInv(q), AnswerInv(q), pc'[q] = pc[q], place'[q] = place[q],
           asked'[q] = asked[q], attempt'[q] = attempt[q], response'[q] = response[q],
           audited'[q] = audited[q]
    PROVE  AskedInv(q)' /\ AnswerInv(q)'
BY DEF AskedInv, AnswerInv, Last

LEMMA ClientKept ==
    ASSUME ClientInv, UNCHANGED accessVars
    PROVE  ClientInv'
BY DEF ClientInv, accessVars

\* A step that leaves admission alone and is request r's keeps what is known of the
\* others, and of all if it does nothing to the answers.
LEMMA RouteStepInv ==
    ASSUME IInv, NEW r \in Requests, UNCHANGED accessVars, TypeOK',
           AskedInv(r)' /\ AnswerInv(r)',
           \A q \in Requests \ {r} :
             /\ pc'[q] = pc[q] /\ asked'[q] = asked[q] /\ attempt'[q] = attempt[q]
             /\ response'[q] = response[q] /\ audited'[q] = audited[q]
    PROVE  IInv'
<1>1. ASSUME NEW q \in Requests PROVE AccessInv(q)'
  BY AccessKept DEF IInv, accessVars
<1>2. ASSUME NEW q \in Requests, q # r PROVE AskedInv(q)' /\ AnswerInv(q)'
  BY <1>2, AskedKept DEF IInv, accessVars
<1> QED
  BY <1>1, <1>2, ClientKept DEF IInv

LEMMA QuietInv ==
    ASSUME IInv, UNCHANGED <<accessVars, pc, asked, attempt, response, audited>>, TypeOK'
    PROVE  IInv'
<1>1. ASSUME NEW q \in Requests PROVE AccessInv(q)' /\ AskedInv(q)' /\ AnswerInv(q)'
  BY AccessKept, AskedKept DEF IInv, accessVars
<1> QED
  BY <1>1, ClientKept DEF IInv

\* A step of admission keeps what is known of the route and of the other requests.
LEMMA AccessStepInv ==
    ASSUME IInv, NEW r \in Requests, UNCHANGED routeVars, settings' = settings,
           Access!AccessTypeOK', AccessInv(r)', ClientInv', place[r] # "gone", place'[r] # "gone",
           \A q \in Requests \ {r} :
             /\ place'[q] = place[q] /\ call'[q] = call[q] /\ verdict'[q] = verdict[q]
             /\ using'[q] = using[q] /\ status'[q] = status[q]
    PROVE  IInv'
<1>1. TypeOK'
  BY DEF IInv, TypeOK, routeVars
<1>2. ASSUME NEW q \in Requests, q # r
      PROVE  AccessInv(q)' /\ AskedInv(q)' /\ AnswerInv(q)'
  BY <1>2, AccessKept, AskedKept DEF IInv, routeVars
<1>3. AskedInv(r)' /\ AnswerInv(r)'
  BY DEF IInv, AskedInv, AnswerInv, Last, routeVars
<1> QED
  BY <1>1, <1>2, <1>3 DEF IInv

----------------------------------------------------------------------------
(* Admission *)

LEMMA InitInv == Init => IInv
<1> SUFFICES ASSUME Init PROVE IInv
  OBVIOUS
<1> USE DEF Init, Access!Init
<1>1. TypeOK
  <2>1. <<>> \in Seq(RegistryAnswers)
    OBVIOUS
  <2>2. 0 \in 0 .. MAX_RETRIES - 1
    BY DEF MAX_RETRIES
  <2>3. 0 \in 0 .. 2 ^ MAX_RETRIES
    <3>1. 2 ^ 3 = 8
      OBVIOUS
    <3> QED
      BY <3>1 DEF MAX_RETRIES
  <2>4. Access!AccessTypeOK
    BY DEF Access!AccessTypeOK, Access!Places
  <2> QED
    BY <2>1, <2>2, <2>3, <2>4 DEF TypeOK
<1>2. ClientInv
  BY DEF ClientInv
<1>3. ASSUME NEW r \in Requests PROVE AccessInv(r) /\ AskedInv(r) /\ AnswerInv(r)
  <2>1. AccessInv(r)
    BY DEF AccessInv
  <2>2. AskedInv(r)
    BY DEF AskedInv
  <2>3. AnswerInv(r)
    BY NoneAssumption DEF AnswerInv, Answers
  <2> QED
    BY <2>1, <2>2, <2>3
<1> QED
  BY <1>1, <1>2, <1>3 DEF IInv

\* What a credential's kind says of it.
LEMMA KindsOfTokens ==
    /\ ~Access!Genuine(None)
    /\ \A c \in Access!Credentials :
         /\ c # None /\ c.kind \in Access!Kinds /\ c.admin \in BOOLEAN
         /\ Access!Genuine(c) <=> c.kind \in {"untyped", "access"}
         /\ c \in Access!Tokens({"foreign"}) <=> c.kind = "foreign"
         /\ c \in Access!Tokens({"refresh", "untyped", "access"})
              <=> c.kind \in {"refresh", "untyped", "access"}
<1> USE DEF Access!Genuine, Access!Tokens, Access!Credentials, Access!Kinds
<1>1. ~Access!Genuine(None)
  BY NoneAssumption
<1>2. ASSUME NEW c \in Access!Credentials
      PROVE  c.kind \in Access!Kinds /\ c.admin \in BOOLEAN /\ c = [kind |-> c.kind, admin |-> c.admin]
  OBVIOUS
<1>3. ASSUME NEW c \in Access!Credentials, NEW kinds \in SUBSET Access!Kinds
      PROVE  c \in Access!Tokens(kinds) <=> c.kind \in kinds
  BY <1>2, <1>3
<1>4. ASSUME NEW c \in Access!Credentials PROVE c # None
  BY <1>4, NoneAssumption
<1> QED
  BY <1>1, <1>2, <1>3, <1>4

LEMMA ArriveInv ==
    ASSUME IInv, NEW r \in Requests, Access!Arrive(r), UNCHANGED routeVars
    PROVE  IInv'
<1> USE DEF Access!Goto, Access!Refuse, Access!Admit
<1>1. PICK route \in Access!Routes, credential \in Access!Credentials \cup {None} :
        /\ call' = [call EXCEPT ![r] = [route |-> route, credential |-> credential]]
        /\ IF route = "public" THEN Access!PublicArrives(r, credential)
                               ELSE Access!DebugArrives(r, credential)
  BY DEF Access!Arrive
<1>2. /\ place[r] = "new" /\ UNCHANGED <<settings, client, using, verdict>>
      /\ late' = IF client = None THEN late ELSE late \cup {r}
  BY DEF Access!Arrive
<1>3. Access!AccessTypeOK
  BY DEF IInv, TypeOK
<1>4. PICK where \in {"admitted", "refused", "looking", "decoding"} : place' = [place EXCEPT ![r] = where]
  BY <1>1 DEF Access!PublicArrives, Access!DebugArrives
<1>5. /\ status' \in [Requests -> Access!Refusals \cup {None}]
      /\ \A q \in Requests \ {r} : status'[q] = status[q]
      /\ place'[r] = "refused" => status'[r] \in Access!Refusals
  <2>1. \/ UNCHANGED status /\ where # "refused"
        \/ \E code \in Access!Refusals : status' = [status EXCEPT ![r] = code]
    BY <1>1, <1>3, <1>4
       DEF Access!PublicArrives, Access!DebugArrives, Access!AccessTypeOK, Access!Refusals
  <2> QED
    BY <1>3, <1>4, <2>1 DEF Access!AccessTypeOK
<1>6. Access!AccessTypeOK'
  <2>1. call' \in [Requests -> [route : Access!Routes, credential : Access!Credentials \cup {None}] \cup {None}]
    BY <1>1, <1>3 DEF Access!AccessTypeOK
  <2>2. place' \in [Requests -> Access!Places]
    BY <1>3, <1>4 DEF Access!AccessTypeOK, Access!Places
  <2> QED
    BY <1>2, <1>3, <1>5, <2>1, <2>2 DEF Access!AccessTypeOK
<1>7. call'[r] = [route |-> route, credential |-> credential] /\ place'[r] = where
  BY <1>1, <1>3, <1>4 DEF Access!AccessTypeOK
<1>8. AccessInv(r)'
  <2>1. CASE route = "public"
    BY <1>1, <1>2, <1>3, <1>5, <1>7, <2>1, KindsOfTokens
       DEF Access!PublicArrives, AccessInv, Access!AccessTypeOK, Access!Earned, Access!Admissible
  <2>2. CASE route = "debug"
    BY <1>1, <1>2, <1>3, <1>5, <1>7, <2>2, KindsOfTokens
       DEF Access!DebugArrives, AccessInv, Access!AccessTypeOK, Access!Earned, Access!Admissible
  <2> QED
    BY <2>1, <2>2 DEF Access!Routes
<1>9. ClientInv'
  <2>1. client # None => client # r /\ place'[client] = place[client] /\ client \in Requests
    BY <1>2, <1>3, <1>4 DEF IInv, ClientInv, Access!AccessTypeOK
  <2>2. using[r] # r
    BY <1>2, NoneAssumption DEF IInv, AccessInv
  <2>3. \A q \in Requests \ {r} : place'[q] = place[q]
    BY <1>3, <1>4 DEF Access!AccessTypeOK
  <2>4. late \subseteq Requests
    BY <1>3 DEF Access!AccessTypeOK
  <2> QED
    BY <1>2, <1>7, <2>1, <2>2, <2>3, <2>4 DEF IInv, ClientInv
<1>10. \A q \in Requests \ {r} : place'[q] = place[q] /\ call'[q] = call[q]
  BY <1>1, <1>3, <1>4 DEF Access!AccessTypeOK
<1> QED
  BY <1>2, <1>5, <1>6, <1>7, <1>8, <1>9, <1>10, AccessStepInv

LEMMA LookInv ==
    ASSUME IInv, NEW r \in Requests, Access!Look(r), UNCHANGED routeVars
    PROVE  IInv'
<1>1. /\ place[r] = "looking" /\ using' = [using EXCEPT ![r] = client]
      /\ place' = [place EXCEPT ![r] = IF client = None THEN "building" ELSE "verifying"]
      /\ UNCHANGED <<settings, call, client, verdict, status, late>>
  BY DEF Access!Look, Access!Goto
<1>2. Access!AccessTypeOK
  BY DEF IInv, TypeOK
<1>3. Access!AccessTypeOK'
  BY <1>1, <1>2 DEF Access!AccessTypeOK, Access!Places
<1>4. /\ using'[r] = client
      /\ place'[r] = IF client = None THEN "building" ELSE "verifying"
      /\ \A q \in Requests \ {r} : place'[q] = place[q] /\ using'[q] = using[q]
  BY <1>1, <1>2 DEF Access!AccessTypeOK
<1>5. AccessInv(r)'
  BY <1>1, <1>4 DEF IInv, AccessInv, Access!Places
<1>6. ClientInv'
  <2>1. r \in late => client # None /\ client # r
    BY DEF IInv, ClientInv
  <2>2. client # None => place'[client] # "new" /\ client \notin late
    BY <1>2, <1>4 DEF IInv, ClientInv, Access!AccessTypeOK
  <2>3. late \subseteq Requests
    BY <1>2 DEF Access!AccessTypeOK
  <2> QED
    BY <1>1, <1>4, <2>1, <2>2, <2>3 DEF IInv, ClientInv
<1> QED
  BY <1>1, <1>3, <1>4, <1>5, <1>6, AccessStepInv

LEMMA BuildInv ==
    ASSUME IInv, NEW r \in Requests, Access!Build(r), UNCHANGED routeVars
    PROVE  IInv'
<1>1. /\ place[r] = "building" /\ using' = [using EXCEPT ![r] = r] /\ client' = r
      /\ place' = [place EXCEPT ![r] = "verifying"]
      /\ UNCHANGED <<settings, call, verdict, status, late>>
  BY DEF Access!Build, Access!Goto
<1>2. Access!AccessTypeOK
  BY DEF IInv, TypeOK
<1>3. Access!AccessTypeOK'
  BY <1>1, <1>2 DEF Access!AccessTypeOK, Access!Places
<1>4. /\ using'[r] = r /\ place'[r] = "verifying"
      /\ \A q \in Requests \ {r} : place'[q] = place[q] /\ using'[q] = using[q]
  BY <1>1, <1>2 DEF Access!AccessTypeOK
<1>5. AccessInv(r)'
  BY <1>1, <1>4 DEF IInv, AccessInv, Access!Places
<1>6. ClientInv'
  <2>1. r \notin late /\ r # None
    BY <1>1, NoneAssumption DEF IInv, ClientInv
  <2>2. late \subseteq Requests
    BY <1>2 DEF Access!AccessTypeOK
  <2> QED
    BY <1>1, <1>4, <2>1, <2>2 DEF IInv, ClientInv
<1> QED
  BY <1>1, <1>3, <1>4, <1>5, <1>6, AccessStepInv

\* A worker thread returns a verdict that its credential deserves, or could not tell.
LEMMA ReturnsInv ==
    ASSUME IInv, NEW r \in Requests, NEW result \in {"valid", "rejected", "unreachable"},
           Access!Returns(r, result), place[r] \in {"verifying", "decoding"},
           UNCHANGED <<routeVars, settings, call, client, status, late>>,
           result = "valid" =>
             /\ Access!Signed(call[r].credential)
             /\ call[r].route = "public" => Access!IsAccess(call[r].credential)
             /\ call[r].route = "debug" => settings.JWT_JWKS_URL /\ settings.JWT_ISSUER,
           result = "rejected" => ~Access!Admissible(call[r])
    PROVE  IInv'
<1>1. /\ using' = [using EXCEPT ![r] = None] /\ verdict' = [verdict EXCEPT ![r] = result]
      /\ place' = [place EXCEPT ![r] = "checked"]
  BY DEF Access!Returns, Access!Goto
<1>2. Access!AccessTypeOK
  BY DEF IInv, TypeOK
<1>3. Access!AccessTypeOK'
  BY <1>1, <1>2 DEF Access!AccessTypeOK, Access!Places
<1>4. /\ using'[r] = None /\ place'[r] = "checked" /\ verdict'[r] = result
      /\ \A q \in Requests \ {r} :
           place'[q] = place[q] /\ using'[q] = using[q] /\ verdict'[q] = verdict[q]
  BY <1>1, <1>2 DEF Access!AccessTypeOK
<1>5. /\ call[r] \in [route : Access!Routes, credential : Access!Credentials \cup {None}]
      /\ call[r].credential # None
      /\ call[r].route = "public" => settings.AUTH_REQUIRED /\ settings.JWT_JWKS_URL
      /\ call[r].route = "debug" => settings.debug
  BY DEF IInv, AccessInv, Access!Places
<1>6. /\ Access!Signed(call[r].credential)' <=> Access!Signed(call[r].credential)
      /\ Access!IsAccess(call[r].credential)' <=> Access!IsAccess(call[r].credential)
      /\ Access!Admissible(call[r])' <=> Access!Admissible(call[r])
  BY DEF Access!Signed, Access!IsAccess, Access!Admissible, Access!Earned, Access!Genuine
<1>7. AccessInv(r)'
  BY <1>4, <1>5, <1>6 DEF AccessInv
<1>8. ClientInv'
  <2>1. r # None /\ late \subseteq Requests
    BY <1>2, NoneAssumption DEF Access!AccessTypeOK
  <2>2. client # None => place'[client] # "new"
    BY <1>2, <1>4 DEF IInv, ClientInv, Access!AccessTypeOK
  <2> QED
    BY <1>4, <2>1, <2>2 DEF IInv, ClientInv
<1> QED
  BY <1>3, <1>4, <1>7, <1>8, AccessStepInv

LEMMA VerdictInv ==
    ASSUME IInv, NEW r \in Requests, UNCHANGED routeVars,
           Access!Verify(r) \/ Access!FetchFails(r) \/ Access!Decode(r)
    PROVE  IInv'
<1>1. CASE Access!Verify(r)
  <2>1. place[r] = "verifying" /\ UNCHANGED <<settings, call, client, status, late>>
    BY <1>1 DEF Access!Verify
  <2>2. call[r].route = "public" /\ call[r].credential \in Access!Credentials
    BY <2>1 DEF IInv, AccessInv, Access!Places
  <2> DEFINE good == Access!Signed(call[r].credential) /\ Access!IsAccess(call[r].credential)
  <2>3. ~good => ~Access!Admissible(call[r])
    BY <2>2, KindsOfTokens DEF Access!Signed, Access!IsAccess, Access!Admissible
  <2>4. Access!Returns(r, IF good THEN "valid" ELSE "rejected")
    BY <1>1 DEF Access!Verify, Access!Judge
  <2>5. CASE good
    <3>1. Access!Returns(r, "valid")
      BY <2>4, <2>5
    <3> QED
      BY <2>1, <2>2, <2>5, <3>1, ReturnsInv
  <2>6. CASE ~good
    <3>1. Access!Returns(r, "rejected")
      BY <2>4, <2>6
    <3> QED
      BY <2>1, <2>3, <2>6, <3>1, ReturnsInv
  <2> QED
    BY <2>5, <2>6
<1>2. CASE Access!FetchFails(r)
  BY <1>2, ReturnsInv DEF Access!FetchFails
<1>3. CASE Access!Decode(r)
  <2>1. PICK result \in {"valid", "rejected", "unreachable"} :
          /\ result = "valid" => /\ settings.JWT_JWKS_URL /\ settings.JWT_ISSUER
                                 /\ Access!Signed(call[r].credential)
          /\ result = "rejected" => \/ ~(settings.JWT_JWKS_URL /\ settings.JWT_ISSUER)
                                    \/ ~Access!Genuine(call[r].credential)
          /\ Access!Returns(r, result)
    BY <1>3 DEF Access!Decode
  <2>2. place[r] = "decoding" /\ UNCHANGED <<settings, call, client, status, late>>
    BY <1>3 DEF Access!Decode
  <2>3. call[r].route = "debug"
    BY <2>2 DEF IInv, AccessInv
  <2>4. result = "rejected" => ~Access!Admissible(call[r])
    BY <2>1, <2>3 DEF Access!Admissible, Access!Earned
  <2> QED
    BY <2>1, <2>2, <2>3, <2>4, ReturnsInv
<1> QED
  BY <1>1, <1>2, <1>3

LEMMA DecideInv ==
    ASSUME IInv, NEW r \in Requests, Access!Decide(r), UNCHANGED routeVars
    PROVE  IInv'
<1>1. place[r] = "checked" /\ UNCHANGED <<settings, call, client, using, verdict, late>>
  BY DEF Access!Decide
<1>2. Access!AccessTypeOK
  BY DEF IInv, TypeOK
<1>3. \/ /\ place' = [place EXCEPT ![r] = "refused"]
         /\ verdict[r] # "valid" \/ (call[r].route = "debug" /\ ~call[r].credential.admin)
         /\ \E code \in Access!Refusals : status' = [status EXCEPT ![r] = code]
      \/ /\ place' = [place EXCEPT ![r] = "admitted"] /\ UNCHANGED status
         /\ verdict[r] = "valid" /\ (call[r].route = "debug" => call[r].credential.admin)
  <2> USE DEF Access!Decide, Access!Goto
  <2>1. CASE verdict[r] # "valid"
    <3>1. place' = [place EXCEPT ![r] = "refused"] /\ status' = [status EXCEPT ![r] = 401]
      BY <2>1 DEF Access!Refuse
    <3>2. \E code \in Access!Refusals : status' = [status EXCEPT ![r] = code]
      BY <3>1 DEF Access!Refusals
    <3>3. place' = [place EXCEPT ![r] = "refused"]
      BY <3>1
    <3> QED
      BY <2>1, <3>2, <3>3
  <2>2. CASE verdict[r] = "valid" /\ call[r].route = "debug" /\ ~call[r].credential.admin
    BY <2>2 DEF Access!Refuse, Access!Refusals
  <2>3. CASE verdict[r] = "valid" /\ ~(call[r].route = "debug" /\ ~call[r].credential.admin)
    BY <2>3 DEF Access!Admit
  <2> QED
    BY <2>1, <2>2, <2>3
<1>4. Access!AccessTypeOK'
  <2>1. status' \in [Requests -> Access!Refusals \cup {None}]
    BY <1>2, <1>3 DEF Access!AccessTypeOK
  <2>2. place' \in [Requests -> Access!Places]
    BY <1>2, <1>3 DEF Access!AccessTypeOK, Access!Places
  <2> QED
    BY <1>1, <1>2, <2>1, <2>2 DEF Access!AccessTypeOK
<1>5. /\ place'[r] \in {"admitted", "refused"}
      /\ place'[r] = "refused" =>
           /\ verdict[r] # "valid" \/ (call[r].route = "debug" /\ ~call[r].credential.admin)
           /\ status'[r] \in Access!Refusals
      /\ place'[r] = "admitted" =>
           verdict[r] = "valid" /\ (call[r].route = "debug" => call[r].credential.admin)
      /\ \A q \in Requests \ {r} : place'[q] = place[q] /\ status'[q] = status[q]
  <2> DEFINE denied == verdict[r] # "valid" \/ (call[r].route = "debug" /\ ~call[r].credential.admin)
             allowed == verdict[r] = "valid" /\ (call[r].route = "debug" => call[r].credential.admin)
  <2> HIDE DEF denied, allowed
  <2>1. CASE /\ place' = [place EXCEPT ![r] = "refused"] /\ denied
             /\ \E code \in Access!Refusals : status' = [status EXCEPT ![r] = code]
    BY <1>2, <2>1 DEF Access!AccessTypeOK, denied, allowed
  <2>2. CASE place' = [place EXCEPT ![r] = "admitted"] /\ UNCHANGED status /\ allowed
    BY <1>2, <2>2 DEF Access!AccessTypeOK, denied, allowed
  <2> QED
    BY <1>3, <2>1, <2>2 DEF denied, allowed
<1>6. call[r] \in [route : Access!Routes, credential : Access!Credentials \cup {None}]
  BY <1>1 DEF IInv, AccessInv, Access!Places
<1>7. AccessInv(r)'
  <2>1. CASE place'[r] = "refused"
    <3>1. Access!Admissible(call[r]) => verdict[r] = "unreachable"
      BY <1>1, <1>5, <2>1 DEF IInv, AccessInv, Access!Admissible, Access!Earned
    <3>2. Access!Admissible(call[r])' <=> Access!Admissible(call[r])
      BY <1>1 DEF Access!Admissible, Access!Earned, Access!Genuine
    <3> QED
      BY <1>1, <1>5, <1>6, <2>1, <3>1, <3>2 DEF AccessInv
  <2>2. CASE place'[r] = "admitted"
    <3>1. Access!Earned(call[r])
      BY <1>1, <1>5, <1>6, <2>2, KindsOfTokens
         DEF IInv, AccessInv, Access!Earned, Access!Signed, Access!IsAccess, Access!Kinds,
             Access!Routes
    <3>2. Access!Earned(call[r])' <=> Access!Earned(call[r])
      BY <1>1 DEF Access!Earned, Access!Genuine
    <3> QED
      BY <1>1, <1>6, <2>2, <3>1, <3>2 DEF AccessInv
  <2> QED
    BY <1>5, <2>1, <2>2
<1>8. ClientInv'
  <2>1. client # None => place'[client] # "new"
    BY <1>2, <1>5 DEF IInv, ClientInv, Access!AccessTypeOK
  <2> QED
    BY <1>1, <1>2, <1>5, <2>1 DEF IInv, ClientInv, Access!AccessTypeOK
<1> QED
  BY <1>1, <1>4, <1>5, <1>7, <1>8, AccessStepInv

\* A request that leaves admission has not asked anything yet.
LEMMA LeaveInv ==
    ASSUME IInv, NEW r \in Requests, Access!Leave(r), place[r] \in {"admitted", "refused"},
           UNCHANGED <<loop, localVars>>, pc'[r] \in {"asking", "done"},
           pc' \in [Requests -> {"idle", "asking", "sleeping", "preparing", "analysing", "done"}],
           response' \in [Requests -> Answers \cup {None}],
           pc'[r] = "asking" => response'[r] = response[r],
           pc'[r] = "done" =>
             response'[r] \in {Result("INVALID_CNPJ_FORMAT")}
                                \cup {HttpError(code) : code \in Access!Refusals},
           \A q \in Requests \ {r} : pc'[q] = pc[q] /\ response'[q] = response[q]
    PROVE  IInv'
<1>1. /\ place' = [place EXCEPT ![r] = "gone"] /\ call' = [call EXCEPT ![r] = None]
      /\ verdict' = [verdict EXCEPT ![r] = None] /\ status' = [status EXCEPT ![r] = None]
      /\ late' = late \ {r} /\ UNCHANGED <<settings, client, using>>
  BY DEF Access!Leave, Access!Goto
<1>2. Access!AccessTypeOK
  BY DEF IInv, TypeOK
<1>3. Access!AccessTypeOK'
  BY <1>1, <1>2 DEF Access!AccessTypeOK, Access!Places
<1>4. TypeOK'
  BY <1>3 DEF IInv, TypeOK, localVars
<1>5. /\ place'[r] = "gone"
      /\ \A q \in Requests \ {r} :
           place'[q] = place[q] /\ call'[q] = call[q] /\ verdict'[q] = verdict[q]
  BY <1>1, <1>2 DEF Access!AccessTypeOK
<1>6. AccessInv(r)'
  BY <1>5 DEF AccessInv
<1>7. ClientInv'
  <2>1. client # None => place'[client] # "new"
    BY <1>2, <1>5 DEF IInv, ClientInv, Access!AccessTypeOK
  <2> QED
    BY <1>1, <1>2, <1>5, <2>1 DEF IInv, ClientInv, Access!AccessTypeOK
<1>8. asked'[r] = <<>> /\ attempt'[r] = 0 /\ response[r] = None
  BY DEF IInv, AskedInv, localVars
<1>9. AskedInv(r)'
  BY <1>5, <1>8 DEF AskedInv
<1>10. AnswerInv(r)'
  <2>1. response'[r] \notin {Result("VALID"), Result("INVALID_COMPANY_CATEGORY"), DependencyUnavailable}
    BY <1>8, NoneAssumption
       DEF Result, DependencyUnavailable, HttpError, Problem, Access!Refusals, Answers
  <2> QED
    BY <1>8, <2>1 DEF AnswerInv
<1>11. ASSUME NEW q \in Requests, q # r
       PROVE  AccessInv(q)' /\ AskedInv(q)' /\ AnswerInv(q)'
  BY <1>1, <1>5, <1>11, AccessKept, AskedKept DEF IInv, localVars
<1> QED
  BY <1>4, <1>6, <1>7, <1>9, <1>10, <1>11 DEF IInv

LEMMA ReceiveInv ==
    ASSUME IInv, NEW r \in Requests, Receive(r)
    PROVE  IInv'
<1>1. place[r] = "admitted" /\ Access!Leave(r) /\ UNCHANGED <<loop, localVars>>
  BY DEF Receive, Access!Enter
<1>2. /\ pc \in [Requests -> {"idle", "asking", "sleeping", "preparing", "analysing", "done"}]
      /\ response \in [Requests -> Answers \cup {None}]
  BY DEF IInv, TypeOK
<1>3. CASE Answer(r, Result("INVALID_CNPJ_FORMAT"))
  <2>1. Result("INVALID_CNPJ_FORMAT") \in Answers
    BY DEF Answers
  <2> QED
    BY <1>1, <1>2, <1>3, <2>1, LeaveInv DEF Answer, Goto
<1>4. CASE Goto(r, "asking") /\ UNCHANGED response
  BY <1>1, <1>2, <1>4, LeaveInv DEF Goto
<1> QED
  BY <1>3, <1>4 DEF Receive

LEMMA RefusedInv ==
    ASSUME IInv, NEW r \in Requests, Refused(r)
    PROVE  IInv'
<1>1. place[r] = "refused" /\ Access!Leave(r) /\ UNCHANGED <<loop, localVars>>
  BY DEF Refused, Access!TurnAway
<1>2. /\ pc \in [Requests -> {"idle", "asking", "sleeping", "preparing", "analysing", "done"}]
      /\ response \in [Requests -> Answers \cup {None}]
  BY DEF IInv, TypeOK
<1>3. status[r] \in Access!Refusals
  BY <1>1 DEF IInv, AccessInv
<1>4. HttpError(status[r]) \in Answers
  BY <1>3 DEF Answers
<1> QED
  BY <1>1, <1>2, <1>3, <1>4, LeaveInv DEF Refused, Answer, Goto

----------------------------------------------------------------------------
(* The route *)

LEMMA TickInv ==
    ASSUME IInv, Tick
    PROVE  IInv'
<1>1. /\ sleeping' = [r \in Requests |-> IF sleeping[r] > 0 THEN sleeping[r] - 1 ELSE 0]
      /\ UNCHANGED <<loop, pc, attempt, response, asked, audited, accessVars>>
  BY DEF Tick
<1>2. sleeping' \in [Requests -> 0 .. 2 ^ MAX_RETRIES]
  <2>1. 2 ^ MAX_RETRIES = 8
    <3>1. 2 ^ 3 = 8
      OBVIOUS
    <3> QED
      BY <3>1 DEF MAX_RETRIES
  <2>2. sleeping \in [Requests -> 0 .. 8]
    BY <2>1 DEF IInv, TypeOK
  <2>3. \A r \in Requests : sleeping'[r] \in 0 .. 8
    BY <1>1, <2>2
  <2> QED
    BY <1>1, <2>1, <2>3
<1>3. TypeOK'
  BY <1>1, <1>2 DEF IInv, TypeOK, accessVars, Access!AccessTypeOK
<1> QED
  BY <1>1, <1>3, QuietInv

LEMMA ModelStepInv ==
    ASSUME IInv, ModelStep
    PROVE  IInv'
<1>1. UNCHANGED <<loop, pc, attempt, sleeping, response, asked, audited, accessVars>>
  BY DEF ModelStep
<1>2. TypeOK'
  BY <1>1 DEF IInv, TypeOK, accessVars, Access!AccessTypeOK
<1> QED
  BY <1>1, <1>2, QuietInv

\* What a request hears is one more answer, after nothing but 429s.
LEMMA HeardIs ==
    ASSUME IInv, NEW r \in Requests, NEW outcome \in RegistryAnswers, Heard(r, outcome)
    PROVE  /\ asked' \in [Requests -> Seq(RegistryAnswers)]
           /\ \A q \in Requests \ {r} : asked'[q] = asked[q]
           /\ pc[r] = "asking" /\ place[r] = "gone" /\ response[r] = None
           /\ attempt[r] \in 0 .. MAX_RETRIES - 1
           /\ Len(asked'[r]) = attempt[r] + 1 /\ asked'[r] # <<>>
           /\ asked'[r][Len(asked'[r])] = outcome
           /\ \A i \in 1 .. Len(asked'[r]) : i < Len(asked'[r]) => asked'[r][i] = "limited"
<1>1. pc[r] = "asking" /\ asked' = [asked EXCEPT ![r] = Append(@, outcome)]
  BY DEF Heard
<1>2. asked \in [Requests -> Seq(RegistryAnswers)] /\ attempt[r] \in 0 .. MAX_RETRIES - 1
  BY DEF IInv, TypeOK
<1>3. /\ place[r] = "gone" /\ response[r] = None /\ Len(asked[r]) = attempt[r]
      /\ \A i \in 1 .. Len(asked[r]) : asked[r][i] = "limited"
  <2>1. place[r] # "gone" => pc[r] = "idle"
    BY DEF IInv, AskedInv
  <2> QED
    BY <1>1, <2>1 DEF IInv, AskedInv
<1>4. /\ asked'[r] = Append(asked[r], outcome)
      /\ \A q \in Requests \ {r} : asked'[q] = asked[q]
      /\ asked' \in [Requests -> Seq(RegistryAnswers)]
  BY <1>1, <1>2
<1>5. asked[r] \in Seq(RegistryAnswers)
  BY <1>2
<1> HIDE DEF RegistryAnswers
<1>6. /\ Len(asked'[r]) = Len(asked[r]) + 1
      /\ asked'[r][Len(asked[r]) + 1] = outcome
      /\ \A i \in 1 .. Len(asked[r]) : asked'[r][i] = asked[r][i]
  BY <1>4, <1>5
<1>7. asked'[r] # <<>>
  BY <1>4, <1>5, <1>6
<1>8. \A i \in 1 .. Len(asked'[r]) : i < Len(asked'[r]) => i \in 1 .. Len(asked[r])
  BY <1>5, <1>6
<1> QED
  BY <1>1, <1>2, <1>3, <1>4, <1>6, <1>7, <1>8

\* The types of the steps that let other components be.
LEMMA AnswerTyped ==
    ASSUME IInv, NEW r \in Requests, NEW what \in Answers, Answer(r, what)
    PROVE  /\ pc' \in [Requests -> {"idle", "asking", "sleeping", "preparing", "analysing", "done"}]
           /\ response' \in [Requests -> Answers \cup {None}]
           /\ pc'[r] = "done" /\ response'[r] = what
           /\ \A q \in Requests \ {r} : pc'[q] = pc[q] /\ response'[q] = response[q]
BY DEF IInv, TypeOK, Answer, Goto

LEMMA GotoTyped ==
    ASSUME IInv, NEW r \in Requests, NEW where \in {"asking", "sleeping", "preparing", "analysing"},
           Goto(r, where)
    PROVE  /\ pc' \in [Requests -> {"idle", "asking", "sleeping", "preparing", "analysing", "done"}]
           /\ pc'[r] = where /\ \A q \in Requests \ {r} : pc'[q] = pc[q]
BY DEF IInv, TypeOK, Goto

LEMMA AccessTyped ==
    ASSUME IInv, UNCHANGED accessVars
    PROVE  Access!AccessTypeOK'
BY DEF IInv, TypeOK, accessVars, Access!AccessTypeOK

LEMMA RegistrySettlesInv ==
    ASSUME IInv, NEW r \in Requests, NEW outcome \in RegistryAnswers, RegistrySettles(r, outcome)
    PROVE  IInv'
<1>1. /\ outcome \notin {"limited", "active"} /\ Heard(r, outcome) /\ Answer(r, AnswerTo(outcome))
      /\ UNCHANGED <<loop, attempt, sleeping, audited, llmVars, accessVars>>
  BY DEF RegistrySettles
<1>2. outcome \in {"missing", "inactive", "failed", "unreadable"}
  BY <1>1 DEF RegistryAnswers
<1>3. /\ AnswerTo(outcome) \in Answers
      /\ AnswerTo(outcome) \notin {Result("VALID"), Result("INVALID_COMPANY_CATEGORY")}
      /\ outcome = "failed" => AnswerTo(outcome) = DependencyUnavailable
  BY <1>2 DEF AnswerTo, Answers, Result, DependencyUnavailable, InternalError, Problem
<1>4. /\ pc' \in [Requests -> {"idle", "asking", "sleeping", "preparing", "analysing", "done"}]
      /\ response' \in [Requests -> Answers \cup {None}]
      /\ pc'[r] = "done" /\ response'[r] = AnswerTo(outcome)
      /\ \A q \in Requests \ {r} : pc'[q] = pc[q] /\ response'[q] = response[q]
  BY <1>1, <1>3, AnswerTyped
<1>5. /\ asked' \in [Requests -> Seq(RegistryAnswers)]
      /\ \A q \in Requests \ {r} : asked'[q] = asked[q]
      /\ place[r] = "gone" /\ asked'[r] # <<>> /\ asked'[r][Len(asked'[r])] = outcome
      /\ \A i \in 1 .. Len(asked'[r]) : i < Len(asked'[r]) => asked'[r][i] = "limited"
  BY <1>1, HeardIs
<1>6. TypeOK'
  BY <1>1, <1>4, <1>5, AccessTyped DEF IInv, TypeOK
<1>7. AskedInv(r)'
  BY <1>1, <1>4, <1>5 DEF AskedInv, accessVars
<1>8. AnswerInv(r)'
  BY <1>1, <1>3, <1>4, <1>5 DEF AnswerInv, Last
<1> QED
  BY <1>1, <1>4, <1>5, <1>6, <1>7, <1>8, RouteStepInv

LEMMA RegistryLimitsInv ==
    ASSUME IInv, NEW r \in Requests, RegistryLimits(r)
    PROVE  IInv'
<1>1. /\ Heard(r, "limited") /\ Goto(r, "sleeping")
      /\ sleeping' = [sleeping EXCEPT ![r] = Backoff(attempt[r])]
      /\ UNCHANGED <<loop, attempt, response, audited, llmVars, accessVars>>
  BY DEF RegistryLimits
<1>2. /\ asked' \in [Requests -> Seq(RegistryAnswers)]
      /\ \A q \in Requests \ {r} : asked'[q] = asked[q]
      /\ place[r] = "gone" /\ response[r] = None /\ attempt[r] \in 0 .. MAX_RETRIES - 1
      /\ Len(asked'[r]) = attempt[r] + 1 /\ asked'[r] # <<>>
      /\ asked'[r][Len(asked'[r])] = "limited"
      /\ \A i \in 1 .. Len(asked'[r]) : i < Len(asked'[r]) => asked'[r][i] = "limited"
  BY <1>1, HeardIs DEF RegistryAnswers
<1>3. /\ pc' \in [Requests -> {"idle", "asking", "sleeping", "preparing", "analysing", "done"}]
      /\ pc'[r] = "sleeping" /\ \A q \in Requests \ {r} : pc'[q] = pc[q]
  BY <1>1, GotoTyped
<1>4. sleeping' \in [Requests -> 0 .. 2 ^ MAX_RETRIES]
  <2>1. Backoff(attempt[r]) \in 0 .. 2 ^ MAX_RETRIES
    <3>1. 2 ^ 1 = 2 /\ 2 ^ 2 = 4 /\ 2 ^ 3 = 8
      OBVIOUS
    <3>2. attempt[r] \in {0, 1, 2} /\ MAX_RETRIES = 3
      BY <1>2 DEF MAX_RETRIES
    <3>3. attempt[r] + 1 \in {1, 2, 3}
      BY <3>2
    <3>4. 2 ^ (attempt[r] + 1) \in {2, 4, 8}
      BY <3>1, <3>3
    <3> QED
      BY <3>1, <3>2, <3>4 DEF Backoff
  <2> QED
    BY <1>1, <2>1 DEF IInv, TypeOK
<1>5. TypeOK'
  BY <1>1, <1>2, <1>3, <1>4, AccessTyped DEF IInv, TypeOK
<1>6. AskedInv(r)'
  <2>1. \A i \in 1 .. Len(asked'[r]) : asked'[r][i] = "limited"
    BY <1>2 DEF MAX_RETRIES
  <2> QED
    BY <1>1, <1>2, <1>3, <2>1 DEF AskedInv, accessVars
<1>7. AnswerInv(r)'
  BY <1>1, <1>2, NoneAssumption DEF AnswerInv, Answers
<1> QED
  BY <1>1, <1>2, <1>3, <1>5, <1>6, <1>7, RouteStepInv

LEMMA RetryInv ==
    ASSUME IInv, NEW r \in Requests, Retry(r)
    PROVE  IInv'
<1>1. /\ pc[r] = "sleeping" /\ attempt[r] + 1 < MAX_RETRIES /\ Goto(r, "asking")
      /\ attempt' = [attempt EXCEPT ![r] = @ + 1]
      /\ UNCHANGED <<loop, sleeping, response, asked, audited, llmVars, accessVars>>
  BY DEF Retry, Awake
<1>2. /\ pc' \in [Requests -> {"idle", "asking", "sleeping", "preparing", "analysing", "done"}]
      /\ pc'[r] = "asking" /\ \A q \in Requests \ {r} : pc'[q] = pc[q]
  BY <1>1, GotoTyped
<1>3. /\ attempt' \in [Requests -> 0 .. MAX_RETRIES - 1] /\ attempt'[r] = attempt[r] + 1
      /\ \A q \in Requests \ {r} : attempt'[q] = attempt[q]
  <2>1. attempt \in [Requests -> 0 .. MAX_RETRIES - 1]
    BY DEF IInv, TypeOK
  <2>2. attempt[r] + 1 \in 0 .. MAX_RETRIES - 1
    BY <1>1, <2>1 DEF MAX_RETRIES
  <2> QED
    BY <1>1, <2>1, <2>2
<1>4. TypeOK'
  BY <1>1, <1>2, <1>3, AccessTyped DEF IInv, TypeOK
<1>5. AskedInv(r)' /\ AnswerInv(r)'
  BY <1>1, <1>2, <1>3 DEF IInv, AskedInv, AnswerInv, Last, accessVars
<1> QED
  BY <1>1, <1>2, <1>3, <1>4, <1>5, RouteStepInv

LEMMA GiveUpInv ==
    ASSUME IInv, NEW r \in Requests, GiveUp(r)
    PROVE  IInv'
<1>1. /\ pc[r] = "sleeping" /\ attempt[r] + 1 = MAX_RETRIES /\ Answer(r, DependencyUnavailable)
      /\ UNCHANGED <<loop, attempt, sleeping, asked, audited, llmVars, accessVars>>
  BY DEF GiveUp, Awake
<1>2. DependencyUnavailable \in Answers
  BY DEF Answers
<1>3. /\ pc' \in [Requests -> {"idle", "asking", "sleeping", "preparing", "analysing", "done"}]
      /\ response' \in [Requests -> Answers \cup {None}]
      /\ pc'[r] = "done" /\ response'[r] = DependencyUnavailable
      /\ \A q \in Requests \ {r} : pc'[q] = pc[q] /\ response'[q] = response[q]
  BY <1>1, <1>2, AnswerTyped
<1>4. TypeOK'
  BY <1>1, <1>3, AccessTyped DEF IInv, TypeOK
<1>5. AskedInv(r)'
  BY <1>1, <1>3 DEF IInv, AskedInv, Last, accessVars
<1>6. AnswerInv(r)'
  BY <1>1, <1>3
     DEF IInv, AskedInv, AnswerInv, Last, Result, DependencyUnavailable, Problem
<1> QED
  BY <1>1, <1>3, <1>4, <1>5, <1>6, RouteStepInv

LEMMA AnalyseInv ==
    ASSUME IInv, NEW r \in Requests, Analyse(r)
    PROVE  IInv'
<1>1. /\ Heard(r, "active") /\ Goto(r, "preparing") /\ loop' = r
      /\ UNCHANGED <<attempt, sleeping, response, audited, llmVars, accessVars>>
  BY DEF Analyse
<1>2. /\ asked' \in [Requests -> Seq(RegistryAnswers)]
      /\ \A q \in Requests \ {r} : asked'[q] = asked[q]
      /\ place[r] = "gone" /\ response[r] = None /\ asked'[r] # <<>>
      /\ asked'[r][Len(asked'[r])] = "active"
      /\ \A i \in 1 .. Len(asked'[r]) : i < Len(asked'[r]) => asked'[r][i] = "limited"
  BY <1>1, HeardIs DEF RegistryAnswers
<1>3. /\ pc' \in [Requests -> {"idle", "asking", "sleeping", "preparing", "analysing", "done"}]
      /\ pc'[r] = "preparing" /\ \A q \in Requests \ {r} : pc'[q] = pc[q]
  BY <1>1, GotoTyped
<1>4. TypeOK'
  BY <1>1, <1>2, <1>3, AccessTyped DEF IInv, TypeOK
<1>5. AskedInv(r)'
  BY <1>1, <1>2, <1>3 DEF AskedInv, Last, accessVars
<1>6. AnswerInv(r)'
  BY <1>1, <1>2, NoneAssumption DEF AnswerInv, Answers, Last
<1> QED
  BY <1>1, <1>2, <1>3, <1>4, <1>5, <1>6, RouteStepInv

LEMMA AskModelInv ==
    ASSUME IInv, NEW r \in Requests, AskModel(r)
    PROVE  IInv'
<1>1. /\ pc[r] = "preparing" /\ Goto(r, "analysing")
      /\ UNCHANGED <<loop, attempt, sleeping, response, asked, audited, accessVars>>
  BY DEF AskModel
<1>2. /\ pc' \in [Requests -> {"idle", "asking", "sleeping", "preparing", "analysing", "done"}]
      /\ pc'[r] = "analysing" /\ \A q \in Requests \ {r} : pc'[q] = pc[q]
  BY <1>1, GotoTyped
<1>3. TypeOK'
  BY <1>1, <1>2, AccessTyped DEF IInv, TypeOK
<1>4. AskedInv(r)' /\ AnswerInv(r)'
  BY <1>1, <1>2 DEF IInv, AskedInv, AnswerInv, Last, accessVars
<1> QED
  BY <1>1, <1>2, <1>3, <1>4, RouteStepInv

\* The request whose model call has ended, in an answer or in an error.
LEMMA AnalysedInv ==
    ASSUME IInv, NEW r \in Requests, Analysed(r) \/ AnalysisFails(r)
    PROVE  IInv'
<1>1. /\ pc[r] \in {"preparing", "analysing"} /\ loop' = None
      /\ UNCHANGED <<attempt, sleeping, asked, accessVars>>
  BY DEF Analysed, AnalysisFails
<1>2. PICK what \in Answers :
        /\ Answer(r, what)
        /\ audited' \in [Requests -> BOOLEAN \cup {None}]
        /\ \A q \in Requests \ {r} : audited'[q] = audited[q]
        /\ what = Result("VALID") => audited'[r] = TRUE
        /\ what = Result("INVALID_COMPANY_CATEGORY") => audited'[r] = FALSE
        /\ what # DependencyUnavailable
  <2>1. audited \in [Requests -> BOOLEAN \cup {None}]
    BY DEF IInv, TypeOK
  <2>2. /\ Result("VALID") \in Answers /\ Result("INVALID_COMPANY_CATEGORY") \in Answers
        /\ InternalError \in Answers
    BY DEF Answers
  <2>3. /\ DependencyUnavailable \notin {Result("VALID"), Result("INVALID_COMPANY_CATEGORY"), InternalError}
        /\ InternalError \notin {Result("VALID"), Result("INVALID_COMPANY_CATEGORY")}
        /\ Result("VALID") # Result("INVALID_COMPANY_CATEGORY")
    BY DEF Result, DependencyUnavailable, InternalError, Problem
  <2>4. CASE Analysed(r)
    <3>1. PICK compatible \in BOOLEAN :
            /\ audited' = [audited EXCEPT ![r] = compatible]
            /\ Answer(r, Result(IF compatible THEN "VALID" ELSE "INVALID_COMPANY_CATEGORY"))
      BY <2>4 DEF Analysed
    <3>2. CASE compatible = TRUE
      BY <2>1, <2>2, <2>3, <3>1, <3>2
    <3>3. CASE compatible = FALSE
      BY <2>1, <2>2, <2>3, <3>1, <3>3
    <3> QED
      BY <3>2, <3>3
  <2>5. CASE AnalysisFails(r)
    BY <2>1, <2>2, <2>3, <2>5 DEF AnalysisFails
  <2> QED
    BY <2>4, <2>5
<1>3. /\ pc' \in [Requests -> {"idle", "asking", "sleeping", "preparing", "analysing", "done"}]
      /\ response' \in [Requests -> Answers \cup {None}]
      /\ pc'[r] = "done" /\ response'[r] = what
      /\ \A q \in Requests \ {r} : pc'[q] = pc[q] /\ response'[q] = response[q]
  BY <1>2, AnswerTyped
<1>4. TypeOK'
  BY <1>1, <1>2, <1>3, AccessTyped DEF IInv, TypeOK
<1>5. /\ asked[r] # <<>> /\ Last(r) = "active"
      /\ \A i \in 1 .. Len(asked[r]) : i < Len(asked[r]) => asked[r][i] = "limited"
      /\ place[r] = "gone"
  BY <1>1 DEF IInv, AskedInv
<1>6. AskedInv(r)'
  BY <1>1, <1>3, <1>5 DEF AskedInv, accessVars
<1>7. AnswerInv(r)'
  BY <1>1, <1>2, <1>3, <1>5 DEF AnswerInv, Last
<1> QED
  BY <1>1, <1>2, <1>3, <1>4, <1>6, <1>7, RouteStepInv

LEMMA StepInv == IInv /\ [Next]_vars => IInv'
<1> SUFFICES ASSUME IInv, [Next]_vars PROVE IInv'
  OBVIOUS
<1>1. ASSUME NEW r \in Requests, Step(r) PROVE IInv'
  <2>1. CASE Admission(r)
    BY <2>1, ArriveInv, DecideInv DEF Admission, Access!LoopStep
  <2>2. CASE TokenCheck(r)
    BY <2>2, LookInv, BuildInv, VerdictInv DEF TokenCheck, Access!ThreadStep
  <2> QED
    BY <1>1, <2>1, <2>2, RefusedInv, ReceiveInv, RegistryLimitsInv, RetryInv, GiveUpInv, AnalyseInv,
       AskModelInv, AnalysedInv, RegistrySettlesInv DEF Step
<1>2. CASE UNCHANGED vars
  <2>1. /\ UNCHANGED <<accessVars, pc, asked, attempt, response, audited>>
        /\ UNCHANGED <<loop, sleeping>>
    BY <1>2 DEF vars, routeVars
  <2>2. TypeOK'
    BY <2>1, AccessTyped DEF IInv, TypeOK
  <2> QED
    BY <2>1, <2>2, QuietInv
<1> QED
  BY <1>1, <1>2, TickInv, ModelStepInv DEF Next

LEMMA Invariance == Spec => []IInv
BY InitInv, StepInv, PTL DEF Spec

----------------------------------------------------------------------------

\* Every state of the requests and of their admission is well typed, the delays of
\* the three attempts included.
THEOREM TypeCorrect == Spec => []TypeOK
<1>1. IInv => TypeOK
  BY DEF IInv
<1> QED
  BY <1>1, Invariance, PTL

\* A verdict on a company rests on its ATIVA record and on the model's answer
\* (run_cnpj_validation), whatever the other requests do with the loop.
THEOREM VerdictIsEarnedHolds == Spec => []VerdictIsEarned
<1>1. IInv => VerdictIsEarned
  BY DEF IInv, AnswerInv, VerdictIsEarned
<1> QED
  BY <1>1, Invariance, PTL

\* An outage of BrasilAPI never makes a company INVALID (fetch_cnpj_data).
THEOREM OutageIsNoVerdictHolds == Spec => []OutageIsNoVerdict
<1>1. ASSUME IInv, NEW r \in Requests, asked[r] # <<>>,
             \A i \in DOMAIN asked[r] : asked[r][i] \in {"limited", "failed"}
      PROVE  response[r] \in {None, DependencyUnavailable}
  <2>1. asked[r] \in Seq(RegistryAnswers)
    BY <1>1 DEF IInv, TypeOK
  <2>2. Len(asked[r]) \in DOMAIN asked[r]
    BY <1>1, <2>1 DEF RegistryAnswers
  <2>3. Last(r) \in {"limited", "failed"}
    BY <1>1, <2>2 DEF Last
  <2> QED
    BY <1>1, <2>3 DEF IInv, AnswerInv
<1>2. IInv => OutageIsNoVerdict
  BY <1>1 DEF OutageIsNoVerdict
<1> QED
  BY <1>2, Invariance, PTL

\* A 502 for a rate limit comes after MAX_RETRIES requests, none of them after
\* another answer than 429 (fetch_cnpj_data).
THEOREM RetriesAreUsedUpHolds == Spec => []RetriesAreUsedUp
<1>1. ASSUME IInv, NEW r \in Requests, NEW i \in DOMAIN asked[r], i < Len(asked[r])
      PROVE  asked[r][i] = "limited"
  <2>1. DOMAIN asked[r] = 1 .. Len(asked[r])
    BY <1>1 DEF IInv, TypeOK
  <2> QED
    BY <1>1, <2>1 DEF IInv, AskedInv
<1>2. IInv => RetriesAreUsedUp
  BY <1>1 DEF IInv, AnswerInv, RetriesAreUsedUp
<1> QED
  BY <1>2, Invariance, PTL

\* Nobody gets in who should not (require_access_token, _authorize and the checks in
\* worker threads), in any configuration.
THEOREM AdmissionIsEarnedHolds == Spec => []AdmissionIsEarned
<1>1. IInv => AdmissionIsEarned
  BY DEF IInv, AccessInv, AskedInv, AdmissionIsEarned
<1> QED
  BY <1>1, Invariance, PTL

\* Nobody is kept out who should not be, unless the keys could not be fetched.
THEOREM ValidTokenIsAdmittedHolds == Spec => []ValidTokenIsAdmitted
<1>1. IInv => ValidTokenIsAdmitted
  BY DEF IInv, AccessInv, ValidTokenIsAdmitted
<1> QED
  BY <1>1, Invariance, PTL

\* The race for the first client (_jwk_client) leaves later requests alone.
THEOREM LateRequestsShareAClientHolds == Spec => []LateRequestsShareAClient
<1>1. IInv => LateRequestsShareAClient
  BY DEF IInv, ClientInv, LateRequestsShareAClient
<1> QED
  BY <1>1, Invariance, PTL

=============================================================================
