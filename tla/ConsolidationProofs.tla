------------------------- MODULE ConsolidationProofs -------------------------
(***************************************************************************)
(* Proofs about the consolidation node, for any names, any similarity      *)
(* score and any graph state.                                              *)
(***************************************************************************)
EXTENDS ConsolidationNode, TLAPS

\* When the node accepts: the five conditions of its last return.
Acceptable(s) ==
    /\ s.is_safe
    /\ Fit("nr10", s.result["nr10"], s.current_date)
    /\ Fit("nr35", s.result["nr35"], s.current_date)
    /\ HasName(s.result["nr10"]) /\ HasName(s.result["nr35"])
    /\ SameStudent(s.result["nr10"], s.result["nr35"])

\* The node accepts a graph state exactly when it meets every criterion.
LEMMA AcceptsTheAcceptable ==
    ASSUME NEW s
    PROVE  (Verdict(s).status = "ACCEPT") <=> Acceptable(s)
BY DEF Verdict, Acceptable, Rejected

\* The two certificates.
LEMMA CertsAre == Certs = {"nr10", "nr35"}
BY DEF Certs

\* What a run of the node keeps: the graph state it was given, and no verdict but
\* the one on that state.
NodeInv == input \in States /\ verdict \in {None, Verdict(input)}

LEMMA NodeInvariant == Spec => []NodeInv
<1>1. Init => NodeInv
  BY DEF Init, NodeInv
<1>2. NodeInv /\ [Next]_nodeVars => NodeInv'
  BY DEF NodeInv, Next, Consolidate, nodeVars
<1> QED
  BY <1>1, <1>2, PTL DEF Spec

\* A certificate that is not expired on some day was not expired before.
LEMMA ExpiryIsMonotonic ==
    ASSUME NEW r \in Results, NEW today \in Int, NEW day \in Int, day <= today,
           ~Expired(r, today)
    PROVE  ~Expired(r, day)
BY SentinelsAreNoData DEF Expired, AgeInDays, Results, Dates, MAX_CERTIFICATE_AGE_DAYS

\* Accepted documents would have been accepted on every earlier day.
THEOREM WaitingNeverHelpsHolds == Spec => []WaitingNeverHelps
<1>1. NodeInv => WaitingNeverHelps
  <2> SUFFICES ASSUME NodeInv, verdict # None, verdict.status = "ACCEPT",
                      input.current_date \in Int,
                      NEW day \in Days, day <= input.current_date
               PROVE  Verdict([input EXCEPT !.current_date = day]).status = "ACCEPT"
    BY DEF WaitingNeverHelps
  <2> DEFINE s == [input EXCEPT !.current_date = day]
  <2>1. input \in GraphStates /\ day \in Int
    BY StatesAreGraphStates, DaysAreNumbers DEF NodeInv
  <2>2. Acceptable(input)
    BY AcceptsTheAcceptable DEF NodeInv
  <2>3. /\ s.is_safe = input.is_safe /\ s.result = input.result
        /\ s.current_date = day
    BY <2>1 DEF GraphStates
  <2>4. ASSUME NEW c \in Certs, Fit(c, input.result[c], input.current_date)
        PROVE  Fit(c, input.result[c], day)
    <3>1. input.result[c] \in Results
      BY <2>1, <2>4 DEF GraphStates, Fit, IsValid
    <3> QED
      BY <2>1, <2>4, <3>1, ExpiryIsMonotonic DEF Fit
  <2>5. Acceptable(s)
    BY <2>2, <2>3, <2>4, CertsAre DEF Acceptable
  <2> QED
    BY <2>5, AcceptsTheAcceptable
<1> QED
  BY <1>1, NodeInvariant, PTL

\* Losing a date, of a certificate or of the request, rejects nothing by itself.
THEOREM UnreadableDateIsNoRejectionHolds == Spec => []UnreadableDateIsNoRejection
<1>1. NodeInv => UnreadableDateIsNoRejection
  <2> SUFFICES ASSUME NodeInv, verdict # None, verdict.status = "ACCEPT",
                      NEW c \in Certs, NEW unreadable \in {None, Malformed}
               PROVE  /\ Verdict(WithIssueDate(input, c, unreadable)).status = "ACCEPT"
                      /\ Verdict([input EXCEPT !.current_date = unreadable]).status = "ACCEPT"
    BY DEF UnreadableDateIsNoRejection
  <2>1. input \in GraphStates
    BY StatesAreGraphStates DEF NodeInv
  <2>2. Acceptable(input)
    BY AcceptsTheAcceptable DEF NodeInv
  <2>3. \A d \in Certs : input.result[d] \in Results
    BY <2>1, <2>2, CertsAre DEF GraphStates, Acceptable, Fit, IsValid
  <2> DEFINE s == WithIssueDate(input, c, unreadable)
             t == [input EXCEPT !.current_date = unreadable]
  <2>4. Acceptable(s)
    <3> DEFINE r == [input.result[c] EXCEPT !.issue_date = unreadable]
    <3>1. /\ s.is_safe = input.is_safe /\ s.current_date = input.current_date
          /\ s.result = [input.result EXCEPT ![c] = r]
      BY <2>1 DEF GraphStates, WithIssueDate
    <3>2. s.result[c] = r /\ \A d \in Certs \ {c} : s.result[d] = input.result[d]
      BY <2>1, <3>1 DEF GraphStates
    <3>3. /\ r \in Results /\ r.valid = input.result[c].valid
          /\ r.issue_date = unreadable
          /\ r.workload_hours = input.result[c].workload_hours
          /\ r.student_name = input.result[c].student_name
      BY <2>3 DEF Results, Dates
    <3>4. Fit(c, r, input.current_date)
      BY <2>2, <3>3, CertsAre, NoneIsNoResult DEF Acceptable, Fit, IsValid, Expired, Hours
    <3>5. \A d \in Certs : Fit(d, s.result[d], s.current_date)
      BY <2>2, <3>1, <3>2, <3>4, CertsAre DEF Acceptable
    <3>6. \A d \in Certs : s.result[d].student_name = input.result[d].student_name
      BY <3>2, <3>3
    <3>7. /\ HasName(s.result["nr10"]) /\ HasName(s.result["nr35"])
          /\ SameStudent(s.result["nr10"], s.result["nr35"])
      BY <2>2, <3>6, CertsAre DEF Acceptable, HasName, SameStudent
    <3> QED
      BY <2>2, <3>1, <3>5, <3>7, CertsAre DEF Acceptable
  <2>5. Acceptable(t)
    <3>1. t.is_safe = input.is_safe /\ t.result = input.result /\ t.current_date = unreadable
      BY <2>1 DEF GraphStates
    <3> QED
      BY <2>2, <3>1 DEF Acceptable, Fit, Expired
  <2> QED
    BY <2>4, <2>5, AcceptsTheAcceptable
<1> QED
  BY <1>1, NodeInvariant, PTL

----------------------------------------------------------------------------
(* The verdict and the rules                                                *)

\* The node returns one of the documented shapes on every graph state.
LEMMA VerdictIsTyped ==
    ASSUME NEW s \in GraphStates
    PROVE  Verdict(s) \in Verdicts
<1>1. ASSUME NEW code \in Codes
      PROVE  /\ Rejected(code) \in Verdicts
             /\ [Rejected(code) EXCEPT !.extracted_data = "names"] \in Verdicts
             /\ \A reason \in {None, "text"} : [Rejected(code) EXCEPT !.reason = reason] \in Verdicts
  BY DEF Rejected, Verdicts
<1>2. ASSUME NEW c \in Certs
      PROVE  CertificateCode(c, s.result[c], s.current_date) \in Codes
  <2>1. InvalidCode[c] \in Codes
    BY DEF InvalidCode, Codes
  <2>2. s.result[c] # None => s.result[c].error_code \in Codes
    BY DEF GraphStates, Results
  <2>3. "EXPIRED_CERTIFICATE" \in Codes /\ "INSUFFICIENT_WORKLOAD" \in Codes
    BY DEF Codes
  <2> QED
    BY <2>1, <2>2, <2>3 DEF CertificateCode
<1>3. /\ Get(s.security_error_code, "SECURITY_RISK") \in Codes
      /\ Get(s.security_reason, "text") \in {None, "text"}
  BY DEF Get, GraphStates, Codes
<1>4. "MISSING_STUDENT_NAME" \in Codes /\ "NAME_MISMATCH" \in Codes /\ None \in Codes
  BY DEF Codes
<1>5. [status |-> "ACCEPT", error_code |-> None, reason |-> "text", extracted_data |-> "details"]
        \in Verdicts
  BY <1>4 DEF Verdicts
<1> QED
  BY <1>1, <1>2, <1>3, <1>4, <1>5, CertsAre DEF Verdict

\* The verdicts have the documented shape.
THEOREM TypeCorrect == Spec => []TypeOK
<1>1. NodeInv => TypeOK
  BY StatesAreGraphStates, VerdictIsTyped DEF NodeInv, TypeOK
<1> QED
  BY <1>1, NodeInvariant, PTL

\* The docstring's rules for a certificate say what Fit and CertificateCode say.
LEMMA CertificateRulesAre ==
    ASSUME NEW s \in GraphStates, NEW c \in Certs
    PROVE  LET code == CertificateCode(c, s.result[c], s.current_date)
               invalid == InvalidRule(c, s)
               expired == ExpiredRule(c, s)
               short == WorkloadRule(c, s)
           IN /\ Fit(c, s.result[c], s.current_date)
                   <=> ~invalid.fails /\ ~expired.fails /\ ~short.fails
              /\ invalid.fails => code = invalid.code
              /\ ~invalid.fails /\ expired.fails => code = expired.code
              /\ ~invalid.fails /\ ~expired.fails /\ short.fails => code = short.code
<1> DEFINE r == s.result[c]
<1>1. r \in Results \cup {None} /\ s.current_date \in Dates
  BY DEF GraphStates
<1>2. CASE ~IsValid(r)
  BY <1>1, <1>2 DEF InvalidRule, ExpiredRule, WorkloadRule, Rule, ValidResult, IsValid, Fit, CertificateCode
<1>3. CASE IsValid(r)
  <2>1. r \in Results
    BY <1>1, <1>3 DEF IsValid
  <2>2. Expired(r, s.current_date) <=> ExpiredRule(c, s).fails
    BY <1>1, <1>3, <2>1, SentinelsAreNoData
       DEF Expired, ExpiredRule, Rule, ValidResult, IsValid, Results, Dates, AgeInDays,
           MAX_CERTIFICATE_AGE_DAYS
  <2>3. MinWorkload[c] \in Nat \ {0}
    BY DEF MinWorkload
  <2>4. Hours(r) < MinWorkload[c] <=> WorkloadRule(c, s).fails
    <3>1. WorkloadRule(c, s).fails <=> r.workload_hours = None \/ r.workload_hours < MinWorkload[c]
      BY <1>3 DEF WorkloadRule, Rule, ValidResult, IsValid
    <3>2. r.workload_hours \in Int \cup {None}
      BY <2>1 DEF Results
    <3> QED
      BY <2>3, <3>1, <3>2, SentinelsAreNoData DEF Hours
  <2>5. Hours(r) \in Int
    BY <2>1 DEF Hours, Results
  <2>6. ~InvalidRule(c, s).fails
    BY <1>3 DEF InvalidRule, Rule, ValidResult, IsValid
  <2>7. /\ ExpiredRule(c, s).code = "EXPIRED_CERTIFICATE"
        /\ WorkloadRule(c, s).code = "INSUFFICIENT_WORKLOAD"
    BY DEF ExpiredRule, WorkloadRule, Rule
  <2>8. CertificateCode(c, r, s.current_date) =
          IF Expired(r, s.current_date) THEN "EXPIRED_CERTIFICATE" ELSE "INSUFFICIENT_WORKLOAD"
    BY <1>3 DEF CertificateCode, IsValid
  <2>9. Fit(c, r, s.current_date) <=> ~Expired(r, s.current_date) /\ ~(Hours(r) < MinWorkload[c])
    BY <1>3, <2>3, <2>5 DEF Fit
  <2> QED
    BY <2>2, <2>4, <2>6, <2>7, <2>8, <2>9
<1> QED
  BY <1>2, <1>3

\* The two rules on the names, for two certificates the agents called valid.
LEMMA NameRulesAre ==
    ASSUME NEW s \in GraphStates, \A c \in Certs : IsValid(s.result[c])
    PROVE  LET a == s.result["nr10"]
               b == s.result["nr35"]
           IN /\ NamelessRule(s).fails <=> ~(HasName(a) /\ HasName(b))
              /\ ~NamelessRule(s).fails => (MismatchRule(s).fails <=> ~SameStudent(a, b))
<1>1. \A c \in Certs : s.result[c] \in Results /\ NameIn(c, s) = s.result[c].student_name
  BY DEF GraphStates, IsValid, NameIn
<1>2. \A c \in Certs : HasName(s.result[c]) <=> NameIn(c, s) \in Names
  BY <1>1, SentinelsAreNoData DEF HasName, Results
<1>3. NamelessRule(s).fails <=> ~(HasName(s.result["nr10"]) /\ HasName(s.result["nr35"]))
  BY <1>2, CertsAre DEF NamelessRule, Rule
<1>4. ASSUME ~NamelessRule(s).fails
      PROVE  MismatchRule(s).fails <=> ~SameStudent(s.result["nr10"], s.result["nr35"])
  <2>1. \A c \in Certs : NameIn(c, s) \in Names
    BY <1>4 DEF NamelessRule, Rule
  <2> DEFINE score == Similarity[NameIn("nr10", s), NameIn("nr35", s)]
  <2>2. score \in 0 .. 100
    <3>1. <<NameIn("nr10", s), NameIn("nr35", s)>> \in Names \X Names
      BY <2>1, CertsAre
    <3> QED
      BY <3>1, SimilarityIsAScore
  <2>3. SameStudent(s.result["nr10"], s.result["nr35"]) <=> score >= 85
    BY <1>1, CertsAre DEF SameStudent
  <2>4. MismatchRule(s).fails <=> score < 85
    BY <2>1 DEF MismatchRule, Rule
  <2> HIDE DEF score
  <2> QED
    BY <2>2, <2>3, <2>4
<1> QED
  BY <1>3, <1>4


\* The nine rules, one by one.
LEMMA TupleOfNine ==
    ASSUME NEW a, NEW b, NEW c, NEW d, NEW e, NEW f, NEW g, NEW h, NEW i,
           NEW t, t = <<a, b, c, d, e, f, g, h, i>>
    PROVE  /\ t[1] = a /\ t[2] = b /\ t[3] = c /\ t[4] = d /\ t[5] = e
           /\ t[6] = f /\ t[7] = g /\ t[8] = h /\ t[9] = i
OBVIOUS

LEMMA DocstringRulesAre ==
    ASSUME NEW s \in GraphStates, NEW rules, rules = DocstringRules(s)
    PROVE  /\ rules[1].fails <=> ~s.is_safe
           /\ rules[1].code = Get(s.security_error_code, "SECURITY_RISK")
           /\ rules[2] = InvalidRule("nr10", s) /\ rules[3] = ExpiredRule("nr10", s)
           /\ rules[4] = WorkloadRule("nr10", s)
           /\ rules[5] = InvalidRule("nr35", s) /\ rules[6] = ExpiredRule("nr35", s)
           /\ rules[7] = WorkloadRule("nr35", s)
           /\ rules[8] = NamelessRule(s) /\ rules[8].code = "MISSING_STUDENT_NAME"
           /\ rules[9] = MismatchRule(s) /\ rules[9].code = "NAME_MISMATCH"
<1> DEFINE first == Rule(~s.is_safe, IF s.security_error_code = Absent THEN "SECURITY_RISK"
                                     ELSE s.security_error_code)
<1>1. /\ first.fails <=> ~s.is_safe
      /\ first.code = Get(s.security_error_code, "SECURITY_RISK")
  BY DEF GraphStates, Rule, Get
<1>2. rules = << first, InvalidRule("nr10", s), ExpiredRule("nr10", s), WorkloadRule("nr10", s),
                 InvalidRule("nr35", s), ExpiredRule("nr35", s), WorkloadRule("nr35", s),
                 NamelessRule(s), MismatchRule(s) >>
  BY DEF DocstringRules
<1>3. NamelessRule(s).code = "MISSING_STUDENT_NAME" /\ MismatchRule(s).code = "NAME_MISMATCH"
  BY DEF NamelessRule, MismatchRule, Rule
<1> HIDE DEF first
<1> QED
  BY <1>1, <1>2, <1>3, TupleOfNine

\* The verdict is that of the docstring's first failing rule.
THEOREM FirstFailingRuleDecidesHolds == Spec => []FirstFailingRuleDecides
<1>1. NodeInv => FirstFailingRuleDecides
  <2> SUFFICES ASSUME NodeInv, verdict # None PROVE FirstFailingRuleDecides
    BY DEF FirstFailingRuleDecides
  <2> DEFINE rules == DocstringRules(input)
             failing == {i \in 1 .. 9 : rules[i].fails}
             fit10 == Fit("nr10", input.result["nr10"], input.current_date)
             fit35 == Fit("nr35", input.result["nr35"], input.current_date)
             code10 == CertificateCode("nr10", input.result["nr10"], input.current_date)
             code35 == CertificateCode("nr35", input.result["nr35"], input.current_date)
             named == HasName(input.result["nr10"]) /\ HasName(input.result["nr35"])
             same == SameStudent(input.result["nr10"], input.result["nr35"])
             Decides(i) == /\ i \in failing /\ \A j \in failing : i <= j
                           /\ verdict.status = "REJECTED"
                           /\ verdict.error_code = rules[i].code
  <2>1. input \in GraphStates
    BY StatesAreGraphStates DEF NodeInv
  <2>2. /\ rules[1].fails <=> ~input.is_safe
        /\ rules[1].code = Get(input.security_error_code, "SECURITY_RISK")
        /\ rules[2] = InvalidRule("nr10", input) /\ rules[3] = ExpiredRule("nr10", input)
        /\ rules[4] = WorkloadRule("nr10", input)
        /\ rules[5] = InvalidRule("nr35", input) /\ rules[6] = ExpiredRule("nr35", input)
        /\ rules[7] = WorkloadRule("nr35", input)
        /\ rules[8] = NamelessRule(input) /\ rules[8].code = "MISSING_STUDENT_NAME"
        /\ rules[9] = MismatchRule(input) /\ rules[9].code = "NAME_MISMATCH"
    BY <2>1, DocstringRulesAre
  <2>3. ASSUME (verdict.status = "ACCEPT" /\ failing = {}) \/ \E i \in 1 .. 9 : Decides(i)
        PROVE  FirstFailingRuleDecides
    BY <2>3 DEF FirstFailingRuleDecides
  <2> HIDE DEF rules
  <2>4. /\ fit10 <=> ~rules[2].fails /\ ~rules[3].fails /\ ~rules[4].fails
        /\ rules[2].fails => code10 = rules[2].code
        /\ ~rules[2].fails /\ rules[3].fails => code10 = rules[3].code
        /\ ~rules[2].fails /\ ~rules[3].fails /\ rules[4].fails => code10 = rules[4].code
    BY <2>1, <2>2, CertsAre, CertificateRulesAre
  <2>5. /\ fit35 <=> ~rules[5].fails /\ ~rules[6].fails /\ ~rules[7].fails
        /\ rules[5].fails => code35 = rules[5].code
        /\ ~rules[5].fails /\ rules[6].fails => code35 = rules[6].code
        /\ ~rules[5].fails /\ ~rules[6].fails /\ rules[7].fails => code35 = rules[7].code
    BY <2>1, <2>2, CertsAre, CertificateRulesAre
  <2>6. fit10 /\ fit35 => /\ rules[8].fails <=> ~named
                          /\ ~rules[8].fails => (rules[9].fails <=> ~same)
    <3>1. fit10 /\ fit35 => \A c \in Certs : IsValid(input.result[c])
      BY CertsAre DEF Fit
    <3> QED
      BY <2>1, <2>2, <3>1, NameRulesAre
  <2>7. verdict = Verdict(input)
    BY DEF NodeInv
  <2>8. CASE ~input.is_safe
    <3>1. verdict.status = "REJECTED" /\ verdict.error_code = rules[1].code
      BY <2>2, <2>7, <2>8 DEF Verdict, Rejected
    <3>2. Decides(1)
      BY <2>2, <2>8, <3>1
    <3> QED
      BY <2>3, <3>2
  <2>9. CASE input.is_safe /\ ~fit10
    <3>1. verdict.status = "REJECTED" /\ verdict.error_code = code10
      BY <2>7, <2>9 DEF Verdict, Rejected
    <3>2. ~rules[1].fails
      BY <2>2, <2>9
    <3>3. PICK i \in 2 .. 4 : rules[i].fails /\ \A j \in 2 .. i - 1 : ~rules[j].fails
      BY <2>4, <2>9
    <3> HIDE DEF code10
    <3>4. code10 = rules[i].code
      BY <2>4, <3>3
    <3>5. \A j \in failing : i <= j
      BY <3>2, <3>3
    <3>6. Decides(i)
      BY <3>1, <3>3, <3>4, <3>5
    <3> QED
      BY <2>3, <3>6
  <2>10. CASE input.is_safe /\ fit10 /\ ~fit35
    <3>1. verdict.status = "REJECTED" /\ verdict.error_code = code35
      BY <2>7, <2>10 DEF Verdict, Rejected
    <3>2. \A j \in 1 .. 4 : ~rules[j].fails
      BY <2>2, <2>4, <2>10
    <3>3. PICK i \in 5 .. 7 : rules[i].fails /\ \A j \in 5 .. i - 1 : ~rules[j].fails
      BY <2>5, <2>10
    <3> HIDE DEF code35
    <3>4. code35 = rules[i].code
      BY <2>5, <3>3
    <3>5. \A j \in failing : i <= j
      BY <3>2, <3>3
    <3>6. Decides(i)
      BY <3>1, <3>3, <3>4, <3>5
    <3> QED
      BY <2>3, <3>6
  <2>11. CASE input.is_safe /\ fit10 /\ fit35
    <3>1. \A j \in 1 .. 7 : ~rules[j].fails
      BY <2>2, <2>4, <2>5, <2>11
    <3>2. CASE ~named
      <4>1. verdict.status = "REJECTED" /\ verdict.error_code = rules[8].code
        BY <2>2, <2>7, <2>11, <3>2 DEF Verdict, Rejected
      <4>2. Decides(8)
        BY <2>6, <2>11, <3>1, <3>2, <4>1
      <4> QED
        BY <2>3, <4>2
    <3>3. CASE named /\ ~same
      <4>1. verdict.status = "REJECTED" /\ verdict.error_code = rules[9].code
        BY <2>2, <2>7, <2>11, <3>3 DEF Verdict, Rejected
      <4>2. Decides(9)
        BY <2>6, <2>11, <3>1, <3>3, <4>1
      <4> QED
        BY <2>3, <4>2
    <3>4. CASE named /\ same
      <4>1. verdict.status = "ACCEPT"
        BY <2>7, <2>11, <3>4 DEF Verdict
      <4>2. failing = {}
        BY <2>6, <2>11, <3>1, <3>4
      <4> QED
        BY <2>3, <4>1, <4>2
    <3> QED
      BY <3>2, <3>3, <3>4
  <2> QED
    BY <2>8, <2>9, <2>10, <2>11
<1> QED
  BY <1>1, NodeInvariant, PTL

==============================================================================
