-------------------------- MODULE CertificateVerdict --------------------------
(***************************************************************************)
(* What validating a pair of certificates promises, whatever fails on the  *)
(* way: a request is answered exactly once, and ACCEPT is an answer only   *)
(* after a model has approved the images, each certificate is known to be  *)
(* valid, in date and long enough, and the two names agree.  Nothing is    *)
(* learnt about a certificate before its image has been screened.          *)
(***************************************************************************)

Certs == {"nr10", "nr35"}
Facts == Certs \cup {"screened", "same_student"}
Replies == {"ACCEPT", "REJECTED", "ERROR"}

VARIABLES
    evidence,   \* the facts established so far
    reply       \* "none" until the request is answered

verdictVars == <<evidence, reply>>

Init == evidence = {} /\ reply = "none"

Learn ==
    /\ reply = "none"
    /\ \E new \in SUBSET (Facts \ evidence) :
         /\ new # {}
         /\ new # {"screened"} => "screened" \in evidence
         /\ evidence' = evidence \cup new
    /\ UNCHANGED reply

Answer ==
    /\ reply = "none"
    /\ reply' \in IF evidence = Facts THEN Replies ELSE Replies \ {"ACCEPT"}
    /\ UNCHANGED evidence

Next == Learn \/ Answer

Spec == Init /\ [][Next]_verdictVars /\ WF_verdictVars(Answer)

==============================================================================
