---------------------- MODULE CertificatePipelineProofs ----------------------
(***************************************************************************)
(* Proofs about one certificate validation, for any images, any answers of *)
(* the models, any provider order and any failure.                         *)
(***************************************************************************)
EXTENDS CertificatePipeline, TLAPS

----------------------------------------------------------------------------
(* The inductive invariant.                                                *)

\* Each node is at one of its own steps, and the response is sent at the last.
Control ==
    /\ node \in ModelNodes <=> step \in {"image", "model", "waiting"}
    /\ step = "sent" => node = "route"
    /\ response # None <=> step = "sent"
    /\ verdict # None => node = "route"
    /\ node = "route" /\ step = "run" => verdict # None /\ raised = None
    /\ raised # None => response = [http |-> 500]

\* Nothing has been answered or judged by a node that comes later.
NotYet ==
    /\ node = "security_guardrail" =>
         judged = NoImages /\ \A n \in ModelNodes : answer[n] = None
    /\ node = "nr10_agent" => \A c \in Certs : answer[AgentOf[c]] = None
    /\ node = "nr35_agent" => answer["nr35_agent"] = None

\* The images the guardrail's model is shown, and those it leaves to the agents.
Screening ==
    /\ node = "security_guardrail" /\ step \in {"model", "waiting"} =>
         \A c \in Certs : image[c] # None
    /\ node = "security_guardrail" /\ step = "waiting" => screened = image
    /\ node = "security_guardrail" => ~state.is_safe /\ state.security_reason = Absent

\* An agent runs on images screened as safe, the ones it finds in the state.
Judging ==
    \A c \in Certs : node = AgentOf[c] =>
        /\ state.is_safe
        /\ \A d \in Certs : state.b64[d] = screened[d] /\ state.b64[d] # None
        /\ step = "model" /\ screened[c] # Empty => image[c] = screened[c]

\* What the graph state says comes from the models' answers.
Provenance ==
    /\ state.is_safe => ScreenedSafe
    /\ state.security_reason = None =>
         /\ Answered("security_guardrail")
         /\ answer["security_guardrail"].is_safe = state.is_safe
         /\ answer["security_guardrail"].security_reason = None
    /\ \A c \in Certs :
         /\ state.result[c] # None
         /\ state.result[c].valid
         => state.result[c] = answer[AgentOf[c]] /\ Answered(AgentOf[c])
    /\ verdict # None => verdict = Verdict(state)

\* The response repeats the verdict.
Answering ==
    Reply \in {"ACCEPT", "REJECTED"} => verdict # None /\ Reply = verdict.status /\ raised = None

IInv ==
    /\ TypeOK
    /\ Control
    /\ NotYet
    /\ Screening
    /\ Judging
    /\ Provenance
    /\ Answering
    /\ ScreenedImageIsJudged
    /\ UnsafeIsNeverJudged
    /\ FailuresAreRejections

----------------------------------------------------------------------------
(* Lemmas about the verdict the node computes.                             *)

\* The verdict on a graph state is of the response's types.
LEMMA VerdictType ==
    ASSUME TypeOK
    PROVE  Verdict(state) \in Verdicts
<1>1. \A c \in Certs : state.result[c] # None =>
          CertificateCode(c, state.result[c], state.current_date) \in Codes
  BY DEF TypeOK, Certs, CertificateCode, Codes, Results
<1>2. InvalidCode["nr10"] \in Codes /\ InvalidCode["nr35"] \in Codes
  BY DEF InvalidCode, Certs, Codes
<1>3. ASSUME NEW c \in Certs
      PROVE  CertificateCode(c, state.result[c], state.current_date) \in Codes
  <2>1. CASE state.result[c] = None
    <3>1. CertificateCode(c, state.result[c], state.current_date) = InvalidCode[c]
      BY <2>1 DEF CertificateCode, IsValid
    <3> QED
      BY <1>2, <3>1 DEF Certs
  <2> QED
    BY <1>1, <2>1
<1>4. Get(state.security_error_code, "SECURITY_RISK") \in Codes
  BY DEF TypeOK, Get, Codes
<1>5. Get(state.security_reason, "text") \in {None, "text"}
  BY DEF TypeOK, Get
<1>6. {"MISSING_STUDENT_NAME", "NAME_MISMATCH", None} \subseteq Codes
  BY DEF Codes
<1> QED
  BY <1>3, <1>4, <1>5, <1>6 DEF Verdict, Verdicts, Rejected, Certs

\* An ACCEPT tells that the node found the documents safe, fit and of one student.
LEMMA VerdictAccepts ==
    ASSUME Verdict(state).status = "ACCEPT"
    PROVE  /\ state.is_safe
           /\ \A c \in Certs : Fit(c, state.result[c], state.current_date)
           /\ HasName(state.result["nr10"]) /\ HasName(state.result["nr35"])
           /\ SameStudent(state.result["nr10"], state.result["nr35"])
BY DEF Verdict, Rejected, Certs

\* Only a guardrail answer without a reason leaves a verdict without one.
LEMMA VerdictReason ==
    ASSUME TypeOK, Verdict(state).reason = None
    PROVE  ~state.is_safe /\ state.security_reason = None
BY OutputsAssumption DEF TypeOK, Verdict, Rejected, Get

----------------------------------------------------------------------------
(* The steps keep the invariant.                                           *)

LEMMA InitInv == Init => IInv
<1> SUFFICES ASSUME Init PROVE IInv
  OBVIOUS
<1> USE DEF Init, Certs, AgentOf, ModelNodes, NoImages
<1>1. TypeOK
  BY DEF TypeOK, Nodes
<1>2. Control /\ NotYet /\ Screening /\ Judging
  BY NoneIsNoVerdict DEF Control, NotYet, Screening, Judging
<1>3. Provenance /\ Answering
  BY OutputsAssumption DEF Provenance, Answering, Answered, Reply
<1>4. ScreenedImageIsJudged /\ UnsafeIsNeverJudged /\ FailuresAreRejections
  BY DEF ScreenedImageIsJudged, UnsafeIsNeverJudged, FailuresAreRejections, Reply
<1> QED
  BY <1>1, <1>2, <1>3, <1>4 DEF IInv

LEMMA GuardDownloadInv ==
    ASSUME IInv, NEW c \in Certs, GuardDownload(c)
    PROVE  IInv'
<1> USE DEF IInv, Certs, AgentOf, ModelNodes, GuardDownload, GuardFetches, historyVars
<1>1. TypeOK'
  BY OutputsAssumption DEF TypeOK, NoImages, AnyImage, Nodes
<1>2. Control'
  BY NoneIsNoVerdict DEF TypeOK, Control, Responses
<1>3. NotYet' /\ Screening' /\ Judging'
  BY OutputsAssumption, ImagesAssumption
  DEF TypeOK, Control, NotYet, Screening, Judging, Provenance, NoImages, AnyImage
<1>4. Provenance'
  BY OutputsAssumption DEF TypeOK, Control, NotYet, Screening, Provenance, Answered, ScreenedSafe
<1>5. Answering'
  BY DEF TypeOK, Control, Provenance, Answering, Reply
<1>6. ScreenedImageIsJudged' /\ UnsafeIsNeverJudged'
  BY DEF TypeOK, NotYet, Judging, Provenance, NoImages, Answered, ScreenedSafe,
         ScreenedImageIsJudged, UnsafeIsNeverJudged
<1>7. FailuresAreRejections'
  BY DEF TypeOK, Control, NotYet, Provenance, FailuresAreRejections, UnsafeWithoutReason, Answered, Reply
<1> QED
  BY <1>1, <1>2, <1>3, <1>4, <1>5, <1>6, <1>7

LEMMA GuardDownloadFailsInv ==
    ASSUME IInv, NEW c \in Certs, GuardDownloadFails(c)
    PROVE  IInv'
<1> USE DEF IInv, Certs, AgentOf, ModelNodes, GuardDownloadFails, GuardFetches, Route, Enter, historyVars
<1>1. TypeOK'
  BY OutputsAssumption DEF TypeOK, NoImages, AnyImage, Nodes, Codes
<1>2. Control'
  BY NoneIsNoVerdict DEF TypeOK, Control, Responses
<1>3. NotYet' /\ Screening' /\ Judging'
  BY OutputsAssumption, ImagesAssumption
  DEF TypeOK, Control, NotYet, Screening, Judging, Provenance, NoImages, AnyImage
<1>4. Provenance'
  BY OutputsAssumption DEF TypeOK, Control, NotYet, Screening, Provenance, Answered, ScreenedSafe
<1>5. Answering'
  BY DEF TypeOK, Control, Provenance, Answering, Reply
<1>6. ScreenedImageIsJudged' /\ UnsafeIsNeverJudged'
  BY DEF TypeOK, NotYet, Judging, Provenance, NoImages, Answered, ScreenedSafe,
         ScreenedImageIsJudged, UnsafeIsNeverJudged
<1>7. FailuresAreRejections'
  BY DEF TypeOK, Control, NotYet, Provenance, FailuresAreRejections, UnsafeWithoutReason, Answered, Reply
<1> QED
  BY <1>1, <1>2, <1>3, <1>4, <1>5, <1>6, <1>7

LEMMA GuardAsksInv ==
    ASSUME IInv, GuardAsks
    PROVE  IInv'
<1> USE DEF IInv, Certs, AgentOf, ModelNodes, GuardAsks, historyVars
<1>1. TypeOK'
  BY OutputsAssumption DEF TypeOK, NoImages, AnyImage, Nodes
<1>2. Control'
  BY NoneIsNoVerdict DEF TypeOK, Control, Responses
<1>3. NotYet' /\ Screening' /\ Judging'
  BY OutputsAssumption, ImagesAssumption
  DEF TypeOK, Control, NotYet, Screening, Judging, Provenance, NoImages, AnyImage
<1>4. Provenance'
  BY OutputsAssumption DEF TypeOK, Control, NotYet, Screening, Provenance, Answered, ScreenedSafe
<1>5. Answering'
  BY DEF TypeOK, Control, Provenance, Answering, Reply
<1>6. ScreenedImageIsJudged' /\ UnsafeIsNeverJudged'
  BY DEF TypeOK, NotYet, Judging, Provenance, NoImages, Answered, ScreenedSafe,
         ScreenedImageIsJudged, UnsafeIsNeverJudged
<1>7. FailuresAreRejections'
  BY DEF TypeOK, Control, NotYet, Provenance, FailuresAreRejections, UnsafeWithoutReason, Answered, Reply
<1> QED
  BY <1>1, <1>2, <1>3, <1>4, <1>5, <1>6, <1>7

LEMMA GuardAnsweredInv ==
    ASSUME IInv, GuardAnswered
    PROVE  IInv'
<1> USE DEF IInv, Certs, AgentOf, ModelNodes, GuardAnswered, GuardReturns, Route, Enter, historyVars
<1>1. TypeOK'
  <2>1. PICK output \in GuardAnswers :
          /\ GuardReturns(output, image)
          /\ answer' = [answer EXCEPT !["security_guardrail"] = output]
    BY DEF GuardAnswered
  <2>2. output \in GuardOutputs
    BY OutputsAssumption
  <2>3. state' \in [b64 : [Certs -> AnyImage \cup {None}], is_safe : BOOLEAN,
                   security_error_code : Codes \cup {Absent},
                   security_reason : {Absent, None, "text"},
                   result : [Certs -> Results \cup {None}], current_date : Days]
    BY <2>1, <2>2 DEF TypeOK, GuardOutputs
  <2>4. /\ answer' \in [ModelNodes -> GuardAnswers \cup AgentAnswers \cup {None}]
        /\ answer'["security_guardrail"] \in GuardAnswers \cup {None}
        /\ \A c \in Certs : answer'[AgentOf[c]] \in AgentAnswers \cup {None}
    BY <2>1 DEF TypeOK
  <2>5. /\ node' \in Nodes /\ step' \in {"image", "model", "waiting", "run", "sent"}
        /\ image' \in [Certs -> AnyImage \cup {None}]
    BY DEF TypeOK, Nodes, NoImages
  <2> QED
    BY <2>3, <2>4, <2>5 DEF TypeOK
<1>2. Control'
  BY NoneIsNoVerdict DEF TypeOK, Control, Responses
<1>3. NotYet' /\ Screening' /\ Judging'
  BY OutputsAssumption, ImagesAssumption
  DEF TypeOK, Control, NotYet, Screening, Judging, Provenance, NoImages, AnyImage
<1>4. Provenance'
  BY OutputsAssumption DEF TypeOK, Control, NotYet, Screening, Provenance, Answered, ScreenedSafe
<1>5. Answering'
  BY DEF TypeOK, Control, Provenance, Answering, Reply
<1>6. ScreenedImageIsJudged' /\ UnsafeIsNeverJudged'
  BY DEF TypeOK, NotYet, Judging, Provenance, NoImages, Answered, ScreenedSafe,
         ScreenedImageIsJudged, UnsafeIsNeverJudged
<1>7. FailuresAreRejections'
  BY DEF TypeOK, Control, NotYet, Provenance, FailuresAreRejections, UnsafeWithoutReason, Answered, Reply
<1> QED
  BY <1>1, <1>2, <1>3, <1>4, <1>5, <1>6, <1>7

LEMMA GuardModelFailsInv ==
    ASSUME IInv, GuardModelFails
    PROVE  IInv'
<1> USE DEF IInv, Certs, AgentOf, ModelNodes, GuardModelFails, GuardReturns, Route, Enter, historyVars
<1>1. TypeOK'
  BY OutputsAssumption DEF TypeOK, NoImages, AnyImage, Nodes, Codes
<1>2. Control'
  BY NoneIsNoVerdict DEF TypeOK, Control, Responses
<1>3. NotYet' /\ Screening' /\ Judging'
  BY OutputsAssumption, ImagesAssumption
  DEF TypeOK, Control, NotYet, Screening, Judging, Provenance, NoImages, AnyImage
<1>4. Provenance'
  BY OutputsAssumption DEF TypeOK, Control, NotYet, Screening, Provenance, Answered, ScreenedSafe
<1>5. Answering'
  BY DEF TypeOK, Control, Provenance, Answering, Reply
<1>6. ScreenedImageIsJudged' /\ UnsafeIsNeverJudged'
  BY DEF TypeOK, NotYet, Judging, Provenance, NoImages, Answered, ScreenedSafe,
         ScreenedImageIsJudged, UnsafeIsNeverJudged
<1>7. FailuresAreRejections'
  BY DEF TypeOK, Control, NotYet, Provenance, FailuresAreRejections, UnsafeWithoutReason, Answered, Reply
<1> QED
  BY <1>1, <1>2, <1>3, <1>4, <1>5, <1>6, <1>7

LEMMA CachedImageInv ==
    ASSUME IInv, NEW c \in Certs, CachedImage(c)
    PROVE  IInv'
<1> USE DEF IInv, Certs, AgentOf, ModelNodes, CachedImage, Cached, historyVars
<1>1. TypeOK'
  BY OutputsAssumption DEF TypeOK, NoImages, AnyImage, Nodes
<1>2. Control'
  BY NoneIsNoVerdict DEF TypeOK, Control, Responses
<1>3. NotYet' /\ Screening' /\ Judging'
  BY OutputsAssumption, ImagesAssumption
  DEF TypeOK, Control, NotYet, Screening, Judging, Provenance, NoImages, AnyImage
<1>4. Provenance'
  BY OutputsAssumption DEF TypeOK, Control, NotYet, Screening, Provenance, Answered, ScreenedSafe
<1>5. Answering'
  BY DEF TypeOK, Control, Provenance, Answering, Reply
<1>6. ScreenedImageIsJudged' /\ UnsafeIsNeverJudged'
  BY DEF TypeOK, NotYet, Judging, Provenance, NoImages, Answered, ScreenedSafe,
         ScreenedImageIsJudged, UnsafeIsNeverJudged
<1>7. FailuresAreRejections'
  BY DEF TypeOK, Control, NotYet, Provenance, FailuresAreRejections, UnsafeWithoutReason, Answered, Reply
<1> QED
  BY <1>1, <1>2, <1>3, <1>4, <1>5, <1>6, <1>7

LEMMA AgentDownloadInv ==
    ASSUME IInv, NEW c \in Certs, AgentDownload(c)
    PROVE  IInv'
<1> USE DEF IInv, Certs, AgentOf, ModelNodes, AgentDownload, Cached, historyVars
<1>1. TypeOK'
  BY OutputsAssumption DEF TypeOK, NoImages, AnyImage, Nodes
<1>2. Control'
  BY NoneIsNoVerdict DEF TypeOK, Control, Responses
<1>3. NotYet' /\ Screening' /\ Judging'
  BY OutputsAssumption, ImagesAssumption
  DEF TypeOK, Control, NotYet, Screening, Judging, Provenance, NoImages, AnyImage
<1>4. Provenance'
  BY OutputsAssumption DEF TypeOK, Control, NotYet, Screening, Provenance, Answered, ScreenedSafe
<1>5. Answering'
  BY DEF TypeOK, Control, Provenance, Answering, Reply
<1>6. ScreenedImageIsJudged' /\ UnsafeIsNeverJudged'
  BY DEF TypeOK, NotYet, Judging, Provenance, NoImages, Answered, ScreenedSafe,
         ScreenedImageIsJudged, UnsafeIsNeverJudged
<1>7. FailuresAreRejections'
  BY DEF TypeOK, Control, NotYet, Provenance, FailuresAreRejections, UnsafeWithoutReason, Answered, Reply
<1> QED
  BY <1>1, <1>2, <1>3, <1>4, <1>5, <1>6, <1>7

LEMMA AgentDownloadFailsInv ==
    ASSUME IInv, NEW c \in Certs, AgentDownloadFails(c)
    PROVE  IInv'
<1> USE DEF IInv, Certs, AgentOf, ModelNodes, AgentDownloadFails, Cached, AgentReturns, AfterAgent, Enter, AgentFailure, historyVars
<1>1. TypeOK'
  BY OutputsAssumption DEF TypeOK, NoImages, AnyImage, Nodes, Results, Dates, Codes
<1>2. Control'
  BY NoneIsNoVerdict DEF TypeOK, Control, Responses
<1>3. NotYet' /\ Screening' /\ Judging'
  BY OutputsAssumption, ImagesAssumption
  DEF TypeOK, Control, NotYet, Screening, Judging, Provenance, NoImages, AnyImage
<1>4. Provenance'
  BY OutputsAssumption DEF TypeOK, Control, NotYet, Screening, Provenance, Answered, ScreenedSafe
<1>5. Answering'
  BY DEF TypeOK, Control, Provenance, Answering, Reply
<1>6. ScreenedImageIsJudged' /\ UnsafeIsNeverJudged'
  BY DEF TypeOK, NotYet, Judging, Provenance, NoImages, Answered, ScreenedSafe,
         ScreenedImageIsJudged, UnsafeIsNeverJudged
<1>7. FailuresAreRejections'
  BY DEF TypeOK, Control, NotYet, Provenance, FailuresAreRejections, UnsafeWithoutReason, Answered, Reply
<1> QED
  BY <1>1, <1>2, <1>3, <1>4, <1>5, <1>6, <1>7

LEMMA AgentAsksInv ==
    ASSUME IInv, NEW c \in Certs, AgentAsks(c)
    PROVE  IInv'
<1> USE DEF IInv, Certs, AgentOf, ModelNodes, AgentAsks, historyVars
<1>1. TypeOK'
  BY OutputsAssumption DEF TypeOK, NoImages, AnyImage, Nodes
<1>2. Control'
  BY NoneIsNoVerdict DEF TypeOK, Control, Responses
<1>3. NotYet' /\ Screening' /\ Judging'
  BY OutputsAssumption, ImagesAssumption
  DEF TypeOK, Control, NotYet, Screening, Judging, Provenance, NoImages, AnyImage
<1>4. Provenance'
  BY OutputsAssumption DEF TypeOK, Control, NotYet, Screening, Provenance, Answered, ScreenedSafe
<1>5. Answering'
  BY DEF TypeOK, Control, Provenance, Answering, Reply
<1>6. ScreenedImageIsJudged' /\ UnsafeIsNeverJudged'
  BY DEF TypeOK, NotYet, Judging, Provenance, NoImages, Answered, ScreenedSafe,
         ScreenedImageIsJudged, UnsafeIsNeverJudged
<1>7. FailuresAreRejections'
  BY DEF TypeOK, Control, NotYet, Provenance, FailuresAreRejections, UnsafeWithoutReason, Answered, Reply
<1> QED
  BY <1>1, <1>2, <1>3, <1>4, <1>5, <1>6, <1>7

LEMMA AgentAnsweredInv ==
    ASSUME IInv, NEW c \in Certs, AgentAnswered(c)
    PROVE  IInv'
<1> USE DEF IInv, Certs, AgentOf, ModelNodes, AgentAnswered, AgentReturns, AfterAgent, Enter, historyVars
<1>1. TypeOK'
  BY OutputsAssumption DEF TypeOK, NoImages, AnyImage, Nodes
<1>2. Control'
  BY NoneIsNoVerdict DEF TypeOK, Control, Responses
<1>3. NotYet' /\ Screening' /\ Judging'
  BY OutputsAssumption, ImagesAssumption
  DEF TypeOK, Control, NotYet, Screening, Judging, Provenance, NoImages, AnyImage
<1>4. Provenance'
  BY OutputsAssumption DEF TypeOK, Control, NotYet, Screening, Provenance, Answered, ScreenedSafe
<1>5. Answering'
  BY DEF TypeOK, Control, Provenance, Answering, Reply
<1>6. ScreenedImageIsJudged' /\ UnsafeIsNeverJudged'
  BY DEF TypeOK, NotYet, Judging, Provenance, NoImages, Answered, ScreenedSafe,
         ScreenedImageIsJudged, UnsafeIsNeverJudged
<1>7. FailuresAreRejections'
  BY DEF TypeOK, Control, NotYet, Provenance, FailuresAreRejections, UnsafeWithoutReason, Answered, Reply
<1> QED
  BY <1>1, <1>2, <1>3, <1>4, <1>5, <1>6, <1>7

LEMMA AgentModelFailsInv ==
    ASSUME IInv, NEW c \in Certs, AgentModelFails(c)
    PROVE  IInv'
<1> USE DEF IInv, Certs, AgentOf, ModelNodes, AgentModelFails, AgentReturns, AfterAgent, Enter, AgentFailure, historyVars
<1>1. TypeOK'
  BY OutputsAssumption DEF TypeOK, NoImages, AnyImage, Nodes, Results, Dates, Codes
<1>2. Control'
  BY NoneIsNoVerdict DEF TypeOK, Control, Responses
<1>3. NotYet' /\ Screening' /\ Judging'
  BY OutputsAssumption, ImagesAssumption
  DEF TypeOK, Control, NotYet, Screening, Judging, Provenance, NoImages, AnyImage
<1>4. Provenance'
  BY OutputsAssumption DEF TypeOK, Control, NotYet, Screening, Provenance, Answered, ScreenedSafe
<1>5. Answering'
  BY DEF TypeOK, Control, Provenance, Answering, Reply
<1>6. ScreenedImageIsJudged' /\ UnsafeIsNeverJudged'
  BY DEF TypeOK, NotYet, Judging, Provenance, NoImages, Answered, ScreenedSafe,
         ScreenedImageIsJudged, UnsafeIsNeverJudged
<1>7. FailuresAreRejections'
  BY DEF TypeOK, Control, NotYet, Provenance, FailuresAreRejections, UnsafeWithoutReason, Answered, Reply
<1> QED
  BY <1>1, <1>2, <1>3, <1>4, <1>5, <1>6, <1>7

LEMMA GetLlmRaisesInv ==
    ASSUME IInv, GetLlmRaises
    PROVE  IInv'
<1> USE DEF IInv, Certs, AgentOf, ModelNodes, GetLlmRaises, Raise, historyVars
<1>1. TypeOK'
  BY OutputsAssumption DEF TypeOK, NoImages, AnyImage, Nodes, Responses
<1>2. Control'
  BY NoneIsNoVerdict DEF TypeOK, Control, Responses
<1>3. NotYet' /\ Screening' /\ Judging'
  BY OutputsAssumption, ImagesAssumption
  DEF TypeOK, Control, NotYet, Screening, Judging, Provenance, NoImages, AnyImage
<1>4. Provenance'
  BY OutputsAssumption DEF TypeOK, Control, NotYet, Screening, Provenance, Answered, ScreenedSafe
<1>5. Answering'
  BY DEF TypeOK, Control, Provenance, Answering, Reply
<1>6. ScreenedImageIsJudged' /\ UnsafeIsNeverJudged'
  BY DEF TypeOK, NotYet, Judging, Provenance, NoImages, Answered, ScreenedSafe,
         ScreenedImageIsJudged, UnsafeIsNeverJudged
<1>7. FailuresAreRejections'
  BY DEF TypeOK, Control, NotYet, Provenance, FailuresAreRejections, UnsafeWithoutReason, Answered, Reply
<1> QED
  BY <1>1, <1>2, <1>3, <1>4, <1>5, <1>6, <1>7

LEMMA NoStructuredOutputInv ==
    ASSUME IInv, NoStructuredOutput
    PROVE  IInv'
<1> USE DEF IInv, Certs, AgentOf, ModelNodes, NoStructuredOutput, Raise, historyVars
<1>1. TypeOK'
  BY OutputsAssumption DEF TypeOK, NoImages, AnyImage, Nodes, Responses
<1>2. Control'
  BY NoneIsNoVerdict DEF TypeOK, Control, Responses
<1>3. NotYet' /\ Screening' /\ Judging'
  BY OutputsAssumption, ImagesAssumption
  DEF TypeOK, Control, NotYet, Screening, Judging, Provenance, NoImages, AnyImage
<1>4. Provenance'
  BY OutputsAssumption DEF TypeOK, Control, NotYet, Screening, Provenance, Answered, ScreenedSafe
<1>5. Answering'
  BY DEF TypeOK, Control, Provenance, Answering, Reply
<1>6. ScreenedImageIsJudged' /\ UnsafeIsNeverJudged'
  BY DEF TypeOK, NotYet, Judging, Provenance, NoImages, Answered, ScreenedSafe,
         ScreenedImageIsJudged, UnsafeIsNeverJudged
<1>7. FailuresAreRejections'
  BY DEF TypeOK, Control, NotYet, Provenance, FailuresAreRejections, UnsafeWithoutReason, Answered, Reply,
         llmVars
<1> QED
  BY <1>1, <1>2, <1>3, <1>4, <1>5, <1>6, <1>7

LEMMA LlmStepInv ==
    ASSUME IInv, LlmStep
    PROVE  IInv'
<1> USE DEF IInv, Certs, AgentOf, ModelNodes, LlmStep, historyVars
<1>1. TypeOK'
  BY OutputsAssumption DEF TypeOK, NoImages, AnyImage, Nodes
<1>2. Control'
  BY NoneIsNoVerdict DEF TypeOK, Control, Responses
<1>3. NotYet' /\ Screening' /\ Judging'
  BY OutputsAssumption, ImagesAssumption
  DEF TypeOK, Control, NotYet, Screening, Judging, Provenance, NoImages, AnyImage
<1>4. Provenance'
  BY OutputsAssumption DEF TypeOK, Control, NotYet, Screening, Provenance, Answered, ScreenedSafe
<1>5. Answering'
  BY DEF TypeOK, Control, Provenance, Answering, Reply
<1>6. ScreenedImageIsJudged' /\ UnsafeIsNeverJudged'
  BY DEF TypeOK, NotYet, Judging, Provenance, NoImages, Answered, ScreenedSafe,
         ScreenedImageIsJudged, UnsafeIsNeverJudged
<1>7. FailuresAreRejections'
  BY DEF TypeOK, Control, NotYet, Provenance, FailuresAreRejections, UnsafeWithoutReason, Answered, Reply
<1> QED
  BY <1>1, <1>2, <1>3, <1>4, <1>5, <1>6, <1>7

LEMMA ConsolidateInv ==
    ASSUME IInv, Consolidate
    PROVE  IInv'
<1> USE DEF IInv, Certs, AgentOf, ModelNodes, Consolidate, Enter, historyVars
<1>1. TypeOK'
  BY VerdictType, OutputsAssumption DEF TypeOK, NoImages, AnyImage, Nodes
<1>2. Control'
  BY VerdictType, NoneIsNoVerdict DEF TypeOK, Control, Responses
<1>3. NotYet' /\ Screening' /\ Judging'
  BY OutputsAssumption, ImagesAssumption
  DEF TypeOK, Control, NotYet, Screening, Judging, Provenance, NoImages, AnyImage
<1>4. Provenance'
  BY OutputsAssumption DEF TypeOK, Control, NotYet, Screening, Provenance, Answered, ScreenedSafe
<1>5. Answering'
  BY DEF TypeOK, Control, Provenance, Answering, Reply
<1>6. ScreenedImageIsJudged' /\ UnsafeIsNeverJudged'
  BY DEF TypeOK, NotYet, Judging, Provenance, NoImages, Answered, ScreenedSafe,
         ScreenedImageIsJudged, UnsafeIsNeverJudged
<1>7. FailuresAreRejections'
  BY VerdictType DEF TypeOK, Control, NotYet, Provenance, FailuresAreRejections, UnsafeWithoutReason, Answered, Reply
<1> QED
  BY <1>1, <1>2, <1>3, <1>4, <1>5, <1>6, <1>7

LEMMA RespondInv ==
    ASSUME IInv, Respond
    PROVE  IInv'
<1> USE DEF IInv, Certs, AgentOf, ModelNodes, Respond, historyVars
<1>0. /\ verdict \in Verdicts /\ verdict = Verdict(state) /\ response' \in Responses
      /\ response'.http = 500 <=> verdict.reason = None
      /\ response'.http # 500 => response'.status = verdict.status
  <2>1. verdict \in Verdicts /\ verdict = Verdict(state)
    BY DEF TypeOK, Control, Provenance
  <2>2. CASE verdict.reason = None
    BY <2>1, <2>2 DEF Responses
  <2>3. CASE verdict.reason # None
    BY <2>1, <2>3 DEF Responses, Verdicts
  <2> QED
    BY <2>1, <2>2, <2>3
<1>1. TypeOK'
  BY <1>0 DEF TypeOK, Nodes
<1>2. Control'
  BY <1>0, NoneIsNoVerdict DEF TypeOK, Control
<1>3. NotYet' /\ Screening' /\ Judging'
  BY OutputsAssumption, ImagesAssumption
  DEF TypeOK, Control, NotYet, Screening, Judging, Provenance, NoImages, AnyImage
<1>4. Provenance'
  BY OutputsAssumption DEF TypeOK, Control, NotYet, Screening, Provenance, Answered, ScreenedSafe
<1>5. Answering'
  BY <1>0 DEF TypeOK, Control, Provenance, Answering, Reply
<1>6. ScreenedImageIsJudged' /\ UnsafeIsNeverJudged'
  BY DEF TypeOK, NotYet, Judging, Provenance, NoImages, Answered, ScreenedSafe,
         ScreenedImageIsJudged, UnsafeIsNeverJudged
<1>7. FailuresAreRejections'
  <2>1. CASE verdict.reason = None
    <3>1. ~state.is_safe /\ state.security_reason = None
      BY <1>0, <2>1, VerdictReason
    <3> QED
      BY <3>1 DEF TypeOK, Provenance, FailuresAreRejections, UnsafeWithoutReason, Answered
  <2>2. CASE verdict.reason # None
    <3>1. Reply' \in {"ACCEPT", "REJECTED", "none"}
      BY <1>0, <2>2 DEF Reply, Verdicts
    <3> QED
      BY <3>1 DEF FailuresAreRejections
  <2> QED
    BY <2>1, <2>2
<1> QED
  BY <1>1, <1>2, <1>3, <1>4, <1>5, <1>6, <1>7

LEMMA StutterInv ==
    ASSUME IInv, UNCHANGED vars
    PROVE  IInv'
<1> USE DEF IInv, Certs, AgentOf, ModelNodes, vars, historyVars
<1>1. TypeOK'
  BY OutputsAssumption DEF TypeOK, NoImages, AnyImage, Nodes
<1>2. Control'
  BY NoneIsNoVerdict DEF TypeOK, Control, Responses
<1>3. NotYet' /\ Screening' /\ Judging'
  BY OutputsAssumption, ImagesAssumption
  DEF TypeOK, Control, NotYet, Screening, Judging, Provenance, NoImages, AnyImage
<1>4. Provenance'
  BY OutputsAssumption DEF TypeOK, Control, NotYet, Screening, Provenance, Answered, ScreenedSafe
<1>5. Answering'
  BY DEF TypeOK, Control, Provenance, Answering, Reply
<1>6. ScreenedImageIsJudged' /\ UnsafeIsNeverJudged'
  BY DEF TypeOK, NotYet, Judging, Provenance, NoImages, Answered, ScreenedSafe,
         ScreenedImageIsJudged, UnsafeIsNeverJudged
<1>7. FailuresAreRejections'
  BY DEF TypeOK, Control, NotYet, Provenance, FailuresAreRejections, UnsafeWithoutReason, Answered, Reply,
         llmVars
<1> QED
  BY <1>1, <1>2, <1>3, <1>4, <1>5, <1>6, <1>7

LEMMA StepInv == IInv /\ [Next]_vars => IInv'
<1> SUFFICES ASSUME IInv, [Next]_vars
             PROVE  IInv'
  OBVIOUS
<1>1. CASE GuardStep
  <2>1. ASSUME NEW c \in Certs, GuardDownload(c) \/ GuardDownloadFails(c)
        PROVE  IInv'
    BY <2>1, GuardDownloadInv, GuardDownloadFailsInv
  <2> QED
    BY <1>1, <2>1, GuardAsksInv, GuardAnsweredInv, GuardModelFailsInv DEF GuardStep
<1>2. ASSUME NEW c \in Certs, AgentStep(c)
      PROVE  IInv'
  BY <1>2, CachedImageInv, AgentDownloadInv, AgentDownloadFailsInv, AgentAsksInv,
     AgentAnsweredInv, AgentModelFailsInv DEF AgentStep
<1>3. CASE GetLlmRaises \/ NoStructuredOutput \/ LlmStep \/ Consolidate \/ Respond
  BY <1>3, GetLlmRaisesInv, NoStructuredOutputInv, LlmStepInv, ConsolidateInv, RespondInv
<1>4. CASE UNCHANGED vars
  BY <1>4, StutterInv
<1> QED
  BY <1>1, <1>2, <1>3, <1>4 DEF Next

LEMMA Invariance == Spec => []IInv
BY InitInv, StepInv, PTL DEF Spec

----------------------------------------------------------------------------
(* The properties.                                                         *)

\* The request's state keeps its types.
THEOREM TypeCorrect == Spec => []TypeOK
<1>1. IInv => TypeOK
  BY DEF IInv
<1> QED
  BY <1>1, Invariance, PTL

\* An agent's model sees the image the guardrail's model saw, unless that was empty.
THEOREM ScreenedImageIsJudgedHolds == Spec => []ScreenedImageIsJudged
<1>1. IInv => ScreenedImageIsJudged
  BY DEF IInv
<1> QED
  BY <1>1, Invariance, PTL

\* No agent's model is asked about documents that were not called safe.
THEOREM UnsafeIsNeverJudgedHolds == Spec => []UnsafeIsNeverJudged
<1>1. IInv => UnsafeIsNeverJudged
  BY DEF IInv
<1> QED
  BY <1>1, Invariance, PTL

\* Downloads and models that fail end in a rejection: a 500 takes get_llm to raise, a
\* model's answer that does not fit the schema, or an unsafe one without a reason
\* (the except blocks of the three nodes).
THEOREM FailuresAreRejectionsHolds == Spec => []FailuresAreRejections
<1>1. IInv => FailuresAreRejections
  BY DEF IInv
<1> QED
  BY <1>1, Invariance, PTL

\* What the invariant knows once the verdict is an ACCEPT.
LEMMA AcceptedEvidence ==
    ASSUME IInv, verdict # None, verdict.status = "ACCEPT"
    PROVE  ScreenedSafe /\ (\A c \in Certs : KnownFit(c)) /\ KnownSameStudent
<1>1. Verdict(state).status = "ACCEPT"
  BY DEF IInv, Provenance
<1>2. ScreenedSafe
  BY <1>1, VerdictAccepts DEF IInv, Provenance
<1>3. \A c \in Certs : state.result[c] = answer[AgentOf[c]] /\ Answered(AgentOf[c])
  BY <1>1, VerdictAccepts DEF IInv, Provenance, Fit, IsValid
<1>4. \A c \in Certs : KnownFit(c)
  BY <1>1, <1>3, VerdictAccepts DEF KnownFit
<1>5. KnownSameStudent
  BY <1>1, <1>3, VerdictAccepts DEF KnownSameStudent, Certs, AgentOf
<1> QED
  BY <1>2, <1>4, <1>5

\* No silent approval: an ACCEPT rests on three models' answers of this request.
THEOREM AcceptanceIsEarnedHolds == Spec => []AcceptanceIsEarned
<1>1. IInv => AcceptanceIsEarned
  BY AcceptedEvidence DEF IInv, Answering, AcceptanceIsEarned
<1> QED
  BY <1>1, Invariance, PTL

----------------------------------------------------------------------------
(* The pipeline implements the safety part of CertificateVerdict.           *)

\* A step that adds no answer and sends no response stutters.
LEMMA PromiseStutters ==
    ASSUME UNCHANGED <<answer, response, state.current_date>>
    PROVE  UNCHANGED Promise!verdictVars
  BY DEF Promise!verdictVars, Evidence, Reply, ScreenedSafe, KnownFit, KnownSameStudent,
         Answered

\* The response is sent on evidence that is complete if it says ACCEPT.
LEMMA PromiseAnswers ==
    ASSUME IInv, IInv', AcceptanceIsEarned', response = None, response' # None,
           UNCHANGED <<answer, state.current_date>>
    PROVE  Promise!Answer
<1>1. UNCHANGED Evidence
  BY DEF Evidence, ScreenedSafe, KnownFit, KnownSameStudent, Answered
<1>2. Reply = "none" /\ Reply' \in Promise!Replies
  BY DEF Reply, IInv, TypeOK, Responses, Promise!Replies
<1>3. Reply' = "ACCEPT" => Evidence' = Promise!Facts
  <2> SUFFICES ASSUME Reply' = "ACCEPT" PROVE Evidence' = Promise!Facts
    OBVIOUS
  <2>1. ScreenedSafe' /\ (\A c \in Certs : KnownFit(c)') /\ KnownSameStudent'
    BY DEF AcceptanceIsEarned
  <2> QED
    BY <2>1 DEF Evidence, Promise!Facts, Promise!Certs, Certs
<1> QED
  BY <1>1, <1>2, <1>3 DEF Promise!Answer

\* The guardrail's answer comes first: it can only add "screened".
LEMMA GuardLearns ==
    ASSUME IInv, GuardAnswered
    PROVE  [Promise!Next]_(Promise!verdictVars)
<1> USE DEF IInv, Certs, AgentOf, ModelNodes
<1>1. PICK output \in GuardAnswers :
          answer' = [answer EXCEPT !["security_guardrail"] = output]
  BY DEF GuardAnswered
<1>2. response = None /\ UNCHANGED response
  BY DEF GuardAnswered, Control, historyVars
<1>3. \A n \in ModelNodes : answer[n] = None
  BY DEF GuardAnswered, NotYet
<1>4. Evidence = {}
  BY <1>3 DEF Evidence, ScreenedSafe, KnownFit, KnownSameStudent, Answered
<1>5. \A c \in Certs : ~Answered(AgentOf[c])'
  BY <1>1, <1>3 DEF TypeOK, Answered
<1>6. Evidence' \in {{}, {"screened"}}
  BY <1>5 DEF Evidence, ScreenedSafe, KnownFit, KnownSameStudent
<1>7. Reply = "none" /\ UNCHANGED Reply
  BY <1>2 DEF Reply
<1> QED
  BY <1>4, <1>6, <1>7 DEF Promise!Next, Promise!Learn, Promise!Facts, Promise!verdictVars

\* An agent's answer adds what it says of its certificate, and the agreement of the
\* names once both are there; the images have been screened.
LEMMA AgentLearns ==
    ASSUME IInv, NEW c \in Certs, AgentAnswered(c)
    PROVE  [Promise!Next]_(Promise!verdictVars)
<1> USE DEF IInv, Certs, AgentOf, ModelNodes
<1>1. PICK output \in AgentAnswers :
          /\ answer' = [answer EXCEPT ![AgentOf[c]] = output]
          /\ state' = [state EXCEPT !.result[c] = output]
  BY DEF AgentAnswered, AgentReturns
<1>2. response = None /\ UNCHANGED response
  BY DEF AgentAnswered, Control
<1>3. answer[AgentOf[c]] = None
  BY DEF AgentAnswered, NotYet
<1>4. ScreenedSafe /\ ScreenedSafe'
  BY <1>1 DEF AgentAnswered, Judging, Provenance, TypeOK, ScreenedSafe, Answered
<1>5. UNCHANGED state.current_date
  BY <1>1 DEF TypeOK
<1>6. \A d \in Certs \ {c} : KnownFit(d)' <=> KnownFit(d)
  BY <1>1, <1>5 DEF TypeOK, KnownFit, Answered
<1>7. ~KnownFit(c) /\ ~KnownSameStudent
  BY <1>3 DEF KnownFit, KnownSameStudent, Answered
<1>8. Evidence \subseteq Evidence' /\ Evidence' \subseteq Promise!Facts /\ "screened" \in Evidence
  BY <1>4, <1>6, <1>7 DEF Evidence, Promise!Facts, Promise!Certs
<1>9. Reply = "none" /\ UNCHANGED Reply
  BY <1>2 DEF Reply
<1>10. CASE Evidence' = Evidence
  BY <1>9, <1>10 DEF Promise!verdictVars
<1>11. CASE Evidence' # Evidence
  <2> DEFINE new == Evidence' \ Evidence
  <2>1. new \in SUBSET (Promise!Facts \ Evidence) /\ new # {} /\ Evidence' = Evidence \cup new
    BY <1>8, <1>11
  <2> QED
    BY <1>8, <1>9, <2>1 DEF Promise!Next, Promise!Learn
<1> QED
  BY <1>10, <1>11

\* One reply, and facts only after the screening: every step of the pipeline is a
\* step of CertificateVerdict or leaves what the client is promised unchanged.
THEOREM PromiseSafety == Spec => Promise!Init /\ [][Promise!Next]_(Promise!verdictVars)
<1>1. Init => Promise!Init
  BY DEF Init, Promise!Init, Evidence, Reply, ScreenedSafe, KnownFit, KnownSameStudent,
         Answered, ModelNodes, AgentOf, Certs
<1>2. IInv /\ IInv' /\ AcceptanceIsEarned' /\ [Next]_vars
        => [Promise!Next]_(Promise!verdictVars)
  <2> SUFFICES ASSUME IInv, IInv', AcceptanceIsEarned', [Next]_vars
               PROVE  [Promise!Next]_(Promise!verdictVars)
    OBVIOUS
  <2>1. CASE UNCHANGED vars
    BY <2>1, PromiseStutters DEF vars, historyVars
  <2>2. CASE GuardAnswered
    BY <2>2, GuardLearns
  <2>3. ASSUME NEW c \in Certs, AgentAnswered(c)
        PROVE  [Promise!Next]_(Promise!verdictVars)
    BY <2>3, AgentLearns
  <2>4. CASE Respond \/ GetLlmRaises \/ NoStructuredOutput
    <3>1. response = None /\ response' # None /\ UNCHANGED <<answer, state.current_date>>
      BY <2>4, NoneIsNoVerdict
      DEF Respond, GetLlmRaises, NoStructuredOutput, Raise, IInv, Control, historyVars,
          ModelNodes, TypeOK
    <3> QED
      BY <3>1, PromiseAnswers DEF Promise!Next
  <2>5. CASE GuardAsks \/ GuardModelFails \/ LlmStep \/ Consolidate
    <3>1. UNCHANGED <<answer, response, state.current_date>>
      BY <2>5 DEF GuardAsks, GuardModelFails, GuardReturns, LlmStep, Consolidate, historyVars,
                  IInv, TypeOK
    <3> QED
      BY <3>1, PromiseStutters
  <2>6. ASSUME NEW c \in Certs, \/ GuardDownload(c) \/ GuardDownloadFails(c)
                                 \/ CachedImage(c) \/ AgentDownload(c) \/ AgentDownloadFails(c)
                                 \/ AgentAsks(c) \/ AgentModelFails(c)
        PROVE  [Promise!Next]_(Promise!verdictVars)
    <3>1. UNCHANGED <<answer, response, state.current_date>>
      BY <2>6 DEF GuardDownload, GuardDownloadFails, CachedImage, AgentDownload,
                  AgentDownloadFails, AgentAsks, AgentModelFails, AgentReturns, historyVars,
                  IInv, TypeOK
    <3> QED
      BY <3>1, PromiseStutters
  <2> QED
    BY <2>1, <2>2, <2>3, <2>4, <2>5, <2>6 DEF Next, GuardStep, AgentStep
<1> QED
  BY <1>1, <1>2, Invariance, AcceptanceIsEarnedHolds, PTL DEF Spec

==============================================================================
