--------------------------- MODULE MCConsolidation ---------------------------
(* Graph states around every threshold of the node: 7/8 and 19/20 hours, 730   *)
(* and 731 days, 84 and 85 of similarity.  Today is day 1000.                  *)
EXTENDS ConsolidationNode

MCNames == {"ana", "ana s", "bruno"}

\* "ana s" is just close enough to "ana"; it is just too far from "bruno".
MCSimilarity ==
    [p \in MCNames \X MCNames |->
       IF p[1] = p[2] THEN 100
       ELSE IF "bruno" \notin {p[1], p[2]} THEN 85
       ELSE IF "ana s" \in {p[1], p[2]} THEN 84 ELSE 0]

MCResults ==
    [valid : {TRUE}, error_code : {None}, workload_hours : {None, 8, 19, 20},
     issue_date : {None, Malformed, 269, 270, 1800}, student_name : MCNames \cup {Blank}]
    \cup
    [valid : {TRUE, FALSE}, error_code : {None, "MISSING_STRUCTURE"},
     workload_hours : {7, 40}, issue_date : {200, 990},
     student_name : {None, "ana"}]
    \cup {None}

MCStates ==
    [is_safe : {TRUE}, security_error_code : {None}, security_reason : {None},
     result : [Certs -> MCResults], current_date : {1000}]
    \cup
    [is_safe : {FALSE}, security_error_code : {Absent, None, "SECURITY_RISK"},
     security_reason : {Absent, None, "text"},
     result : [Certs -> {None}], current_date : {1000}]

MCDays == {-100, 0, 269, 999, 1001}

==============================================================================
