------------------------ MODULE MCCertificatePipeline ------------------------
EXTENDS CertificatePipeline

\* An order that leaves a vision call one fallback, and one that leaves it none.
MCOrders == { <<"gemini", "groq", "openai">>, <<"gemini", "groq">> }

MCNames == {"ana", "bruno"}

MCSimilarity == [p \in MCNames \X MCNames |-> IF p[1] = p[2] THEN 100 ELSE 40]

MCImages == {"certificate", "other"}

MCGuardAnswers ==
    { [is_safe |-> TRUE, security_error_code |-> None, security_reason |-> None],
      [is_safe |-> FALSE, security_error_code |-> "SECURITY_RISK", security_reason |-> "text"],
      [is_safe |-> FALSE, security_error_code |-> None, security_reason |-> None] }

MCDays == {1000}

Good == [valid |-> TRUE, error_code |-> None, workload_hours |-> 40, issue_date |-> 900,
         student_name |-> "ana"]

\* Good enough for both norms, for NR-35 only, expired, no longer named, somebody
\* else's, and refused by the model with and without a code.
MCAgentAnswers ==
    { Good, [Good EXCEPT !.workload_hours = 8], [Good EXCEPT !.issue_date = 269],
      [Good EXCEPT !.student_name = None], [Good EXCEPT !.student_name = "bruno"],
      [Good EXCEPT !.valid = FALSE],
      [Good EXCEPT !.valid = FALSE, !.error_code = "MISSING_STRUCTURE"] }

==============================================================================
