---------------------------- MODULE Consolidation ----------------------------
(***************************************************************************)
(* consolidation_node (src/workflow/nodes/consolidation_node.py): the      *)
(* verdict on a graph state, a pure function without a model.  Dates are   *)
(* day numbers, names are members of a set, texts are "text"; None is      *)
(* Python's None.  rapidfuzz is external: Similarity gives its score.      *)
(***************************************************************************)
EXTENDS Integers

CONSTANTS
    None,        \* Python's None
    Absent,      \* a key the graph state does not have
    Malformed,   \* a date string date.fromisoformat refuses
    Blank,       \* a name that strip() leaves empty
    Names,       \* the other names an agent may extract, stripped and in lower case
    Similarity   \* token_set_ratio of two names, 0 to 100

ASSUME SimilarityIsAScore == Similarity \in [Names \X Names -> 0 .. 100]

ASSUME SentinelsAreNoData ==
    /\ None \notin Int /\ Malformed \notin Int
    /\ None \notin Names /\ Blank \notin Names

MAX_CERTIFICATE_AGE_DAYS == 730

Certs == {"nr10", "nr35"}

MinWorkload == [c \in Certs |-> IF c = "nr10" THEN 20 ELSE 8]

InvalidCode == [c \in Certs |-> IF c = "nr10" THEN "INVALID_NR10" ELSE "INVALID_NR35"]

----------------------------------------------------------------------------
(* The graph state and what an agent stores in it, reduced to the fields read here; *)
(* is_safe and the results are read with a default, so that a missing key is FALSE  *)
(* and None.                                                                        *)

Codes == {None, "ILLEGIBLE_DOCUMENT", "SECURITY_RISK", "INVALID_NR10", "INVALID_NR35",
          "EXPIRED_CERTIFICATE", "INSUFFICIENT_WORKLOAD", "MISSING_STRUCTURE",
          "MISSING_STUDENT_NAME", "NAME_MISMATCH"}

Dates == Int \cup {None, Malformed}

Results ==
    [valid : BOOLEAN, error_code : Codes, workload_hours : Int \cup {None},
     issue_date : Dates, student_name : Names \cup {None, Blank}]

ASSUME NoneIsNoResult == None \notin Results

GraphStates ==
    [is_safe : BOOLEAN, security_error_code : Codes \cup {Absent},
     security_reason : {Absent, None, "text"}, result : [Certs -> Results \cup {None}],
     current_date : Dates]

Verdicts ==
    [status : {"ACCEPT", "REJECTED"}, error_code : Codes, reason : {None, "text"},
     extracted_data : {None, "names", "details"}]

\* Mutant: a rejection that is neither of the two documented answers.
RejectedMutant(code) ==
    [status |-> "REJECT", error_code |-> code, reason |-> "text", extracted_data |-> None]

Rejected(code) ==
    [status |-> "REJECTED", error_code |-> code, reason |-> "text", extracted_data |-> None]

----------------------------------------------------------------------------

\* nr10_result may be None or missing: `or {}`, then .get("valid", False).
IsValid(result) == result # None /\ result.valid

AgeInDays(result, today) == today - result.issue_date

\* Mutant: a date that cannot be read counts as expired.
ExpiredUnreadableMutant(result, today) ==
    \/ today \in {None, Malformed}
    \/ result.issue_date \in {None, Malformed}
    \/ AgeInDays(result, today) > MAX_CERTIFICATE_AGE_DAYS

\* Mutant: the age is an absolute value, so that a future date may expire.
ExpiredAbsMutant(result, today) ==
    /\ today \notin {None, Malformed}
    /\ result.issue_date \notin {None, Malformed}
    /\ \/ AgeInDays(result, today) > MAX_CERTIFICATE_AGE_DAYS
       \/ -AgeInDays(result, today) > MAX_CERTIFICATE_AGE_DAYS

\* Without a date that parses, on either side, the check is skipped.
Expired(result, today) ==
    /\ today \notin {None, Malformed}
    /\ result.issue_date \notin {None, Malformed}
    /\ AgeInDays(result, today) > MAX_CERTIFICATE_AGE_DAYS

Hours(result) == IF result.workload_hours = None THEN 0 ELSE result.workload_hours

Fit(c, result, today) ==
    /\ IsValid(result)
    /\ ~Expired(result, today)
    /\ Hours(result) >= MinWorkload[c]

\* Mutant: workload is looked at before the date.
CertificateCodeMutant(c, result, today) ==
    CASE result = None -> InvalidCode[c]
      [] result # None /\ ~result.valid -> result.error_code
      [] IsValid(result) /\ Hours(result) < MinWorkload[c] -> "INSUFFICIENT_WORKLOAD"
      [] OTHER -> "EXPIRED_CERTIFICATE"

\* The code a certificate that is not Fit is rejected with.  An agent's dict always
\* has the key error_code, so get's default only serves a result that is missing.
CertificateCode(c, result, today) ==
    CASE result = None -> InvalidCode[c]
      [] result # None /\ ~result.valid -> result.error_code
      [] IsValid(result) /\ Expired(result, today) -> "EXPIRED_CERTIFICATE"
      [] OTHER -> "INSUFFICIENT_WORKLOAD"

HasName(result) == result.student_name \notin {None, Blank}

SameStudent(a, b) == Similarity[a.student_name, b.student_name] >= 85

\* state.get(key, default): a key that is there with None gives None.
Get(value, default) == IF value = Absent THEN default ELSE value

\* The node: s is in GraphStates.
Verdict(s) ==
    LET nr10 == s.result["nr10"]
        nr35 == s.result["nr35"]
        fit10 == Fit("nr10", nr10, s.current_date)
        fit35 == Fit("nr35", nr35, s.current_date)
        named == HasName(nr10) /\ HasName(nr35)
    IN CASE ~s.is_safe ->
              [Rejected(Get(s.security_error_code, "SECURITY_RISK"))
                 EXCEPT !.reason = Get(s.security_reason, "text")]
         [] s.is_safe /\ ~fit10 ->
              Rejected(CertificateCode("nr10", nr10, s.current_date))
         [] s.is_safe /\ fit10 /\ ~fit35 ->
              Rejected(CertificateCode("nr35", nr35, s.current_date))
         [] s.is_safe /\ fit10 /\ fit35 /\ ~named ->
              Rejected("MISSING_STUDENT_NAME")
         [] s.is_safe /\ fit10 /\ fit35 /\ named /\ ~SameStudent(nr10, nr35) ->
              [Rejected("NAME_MISMATCH") EXCEPT !.extracted_data = "names"]
         [] OTHER ->
              [status |-> "ACCEPT", error_code |-> None, reason |-> "text",
               extracted_data |-> "details"]

==============================================================================
