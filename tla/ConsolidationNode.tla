-------------------------- MODULE ConsolidationNode --------------------------
(***************************************************************************)
(* The consolidation node run on its own, as a unit test or a debug replay *)
(* of the node runs it: a graph state goes in, a verdict comes out.        *)
(***************************************************************************)
EXTENDS Consolidation, Sequences

CONSTANTS
    States,   \* the graph states to consolidate
    Days      \* other reference days to compare a verdict with

ASSUME StatesAreGraphStates == States \subseteq GraphStates
ASSUME DaysAreNumbers == Days \subseteq Int

VARIABLES input, verdict

nodeVars == <<input, verdict>>

Init == input \in States /\ verdict = None

Consolidate == verdict = None /\ verdict' = Verdict(input) /\ UNCHANGED input

Next == Consolidate

Spec == Init /\ [][Next]_nodeVars

----------------------------------------------------------------------------
(* The order of the checks as the node's docstring numbers them.            *)

Rule(fails, code) == [fails |-> fails, code |-> code]

ValidResult(c, s) == s.result[c] # None /\ s.result[c].valid

InvalidRule(c, s) ==
    Rule(~ValidResult(c, s), IF s.result[c] = None THEN InvalidCode[c] ELSE s.result[c].error_code)

\* The age and the workload only make sense on a result the agent called valid.
ExpiredRule(c, s) ==
    Rule(/\ ValidResult(c, s)
         /\ s.current_date \in Int /\ s.result[c].issue_date \in Int
         /\ s.current_date > s.result[c].issue_date + 730, "EXPIRED_CERTIFICATE")

WorkloadRule(c, s) ==
    LET hours == s.result[c].workload_hours
    IN Rule(ValidResult(c, s) /\ (hours = None \/ hours < MinWorkload[c]), "INSUFFICIENT_WORKLOAD")

NameIn(c, s) == IF s.result[c] = None THEN None ELSE s.result[c].student_name

NamelessRule(s) == Rule(\E c \in Certs : NameIn(c, s) \notin Names, "MISSING_STUDENT_NAME")

MismatchRule(s) ==
    Rule(/\ \A c \in Certs : NameIn(c, s) \in Names
         /\ Similarity[NameIn("nr10", s), NameIn("nr35", s)] < 85, "NAME_MISMATCH")

DocstringRules(s) ==
    << Rule(~s.is_safe, IF s.security_error_code = Absent THEN "SECURITY_RISK"
                       ELSE s.security_error_code),
       InvalidRule("nr10", s), ExpiredRule("nr10", s), WorkloadRule("nr10", s),
       InvalidRule("nr35", s), ExpiredRule("nr35", s), WorkloadRule("nr35", s),
       NamelessRule(s), MismatchRule(s) >>

----------------------------------------------------------------------------

\* The node returns a verdict of the documented shape.
TypeOK == verdict \in Verdicts \cup {None}

\* The verdict is decided by the first rule of the docstring's list that fails,
\* with that rule's code, and it is ACCEPT exactly when none does.
FirstFailingRuleDecides ==
    verdict # None =>
        LET rules == DocstringRules(input)
            failing == {i \in 1 .. 9 : rules[i].fails}
        IN \/ failing = {} /\ verdict.status = "ACCEPT"
           \/ \E i \in failing :
                /\ \A j \in failing : i <= j
                /\ verdict.status = "REJECTED"
                /\ verdict.error_code = rules[i].code

\* Certificates only age: documents that are rejected for their age stay rejected,
\* and documents accepted on some day would have been accepted on any earlier one.
WaitingNeverHelps ==
    verdict # None /\ verdict.status = "ACCEPT" /\ input.current_date \in Int =>
        \A day \in Days :
            day <= input.current_date =>
                Verdict([input EXCEPT !.current_date = day]).status = "ACCEPT"

WithIssueDate(s, c, date) ==
    LET result == [s.result[c] EXCEPT !.issue_date = date]
    IN [s EXCEPT !.result = [s.result EXCEPT ![c] = result]]

\* docs/STATUS.md:15: dates that are missing or unreadable cause no rejection of
\* their own; losing a date never turns an ACCEPT into a REJECTED.
UnreadableDateIsNoRejection ==
    verdict # None /\ verdict.status = "ACCEPT" =>
        \A c \in Certs, unreadable \in {None, Malformed} :
            /\ Verdict(WithIssueDate(input, c, unreadable)).status = "ACCEPT"
            /\ Verdict([input EXCEPT !.current_date = unreadable]).status = "ACCEPT"

==============================================================================
