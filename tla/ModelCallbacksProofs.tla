------------------------ MODULE ModelCallbacksProofs ------------------------
(***************************************************************************)
(* Every safety property of ModelCallbacks, for any path, any texts and    *)
(* any number of runs.  The inductive invariant says that what both        *)
(* handlers hold is a function of what is running: an open record for each *)
(* node on the stack, an open key for each call, a duplicate for each      *)
(* wrapped call; and that what they have written down is a function of     *)
(* what has ended.                                                         *)
(***************************************************************************)
EXTENDS ModelCallbacks, DataInduction, SequenceTheorems

NodeNames == Range(Path) \cup {Inner}
Prompts == Texts \cup {Original}
Entries == [prompt : Prompts, failed : BOOLEAN]
Frames ==
    [kind : {"node", "chain", "call", "wrapped"}, id : 1 .. MaxRuns,
     name : NodeNames \cup {"RunnableSequence", "model"}, node : NodeNames, message : Nat]
Records ==
    [node : NodeNames, status : {"running", "closed"}, llm_calls : Seq(Entries),
     tools : SUBSET (Offered \cup {Tool}), tool_calls : Nat]
Answers == [run : 1 .. MaxRuns, node : NodeNames, entry : Entries]

Types ==
    /\ stack \in Seq(Frames) /\ left \in Seq(NodeNames) /\ started \in 0 .. MaxRuns
    /\ content \in Seq(Prompts) /\ Len(content) <= started
    /\ \A c \in DOMAIN overrides : overrides[c] \in Texts
    /\ calls \in 0 .. Len(content) /\ applied \in 0 .. calls
    /\ nodes \in Seq(Records)
    /\ parentOf \in Seq(Nat) /\ Len(parentOf) = started
    /\ recordOf \in Seq(Nat) /\ Len(recordOf) = started
    /\ answered \in Seq(Answers)
    /\ used \in Seq(SUBSET (1 .. MaxRuns))

\* What the stack s holds of some kinds.
Of(s, kinds) == {s[k] : k \in {k \in 1 .. Len(s) : s[k].kind \in kinds}}

Open(kind) == Of(stack, {kind})

\* The nodes and the chains of the stack come before its call, and that one before the
\* call it wraps; a frame is in the node of the one below, but for the graph inside a node.
Below(i, j) ==
    /\ stack[i].id < stack[j].id
    /\ stack[j].node \in {stack[i].node, Inner}
    /\ stack[j].kind = "node" => stack[i].node # Inner /\ stack[j].node = Inner
    /\ \/ stack[i].kind \in {"node", "chain"}
       \/ stack[i].kind = "call" /\ stack[j].kind = "wrapped" /\ j = i + 1

FrameOK(j) ==
    /\ j <= stack[j].id /\ stack[j].id <= started
    /\ j = 1 => stack[j].kind = "node"
    /\ j > 1 /\ stack[j].kind # "node" => stack[j].node = stack[j - 1].node
    /\ stack[j].kind \in {"call", "wrapped"} => stack[j].message \in 1 .. Len(content)
    /\ stack[j].kind = "wrapped" =>
         stack[j - 1].kind = "call" /\ stack[j].message = stack[j - 1].message

StackOK ==
    /\ \A j \in 1 .. Len(stack) : FrameOK(j)
    /\ \A i, j \in 1 .. Len(stack) : i < j => Below(i, j)

\* Each run has its own record, and its parent was started before it.
RunsOK ==
    /\ \A r \in 1 .. started : recordOf[r] \in 0 .. Len(nodes) /\ parentOf[r] \in 0 .. r - 1
    /\ \A r, s \in 1 .. started : recordOf[r] = recordOf[s] /\ recordOf[r] # 0 => r = s
    /\ \A k \in 1 .. Len(stack) :
         /\ parentOf[stack[k].id] =
              IF k > 1 /\ stack[k].kind \in {"node", "chain"} THEN stack[k - 1].id ELSE 0
         /\ stack[k].kind # "node" => recordOf[stack[k].id] = 0

\* The open records are those of the nodes on the stack.
RecordsOK ==
    /\ byRun = {<<f.id, recordOf[f.id]>> : f \in Open("node")}
    /\ openByName = {<<f.node, recordOf[f.id]>> : f \in Open("node")}
    /\ \A f \in Open("node") : recordOf[f.id] # 0 /\ nodes[recordOf[f.id]].node = f.node
    /\ \A i \in 1 .. Len(nodes) :
         nodes[i].status = "closed" \/ \E f \in Open("node") : recordOf[f.id] = i

\* What a DuplicateRuns holds while some calls, and some wrapped ones, are running.
Dedupe(callFrames, wrappedFrames) ==
    [open |-> {[key |-> <<f.node, f.message>>, run |-> f.id] : f \in callFrames},
     duplicates |-> {f.id : f \in wrappedFrames}]

InEdited(frames) == {f \in frames : f.node = Edited}

\* The open calls and the duplicates are those on the stack.
DedupesOK ==
    /\ seen = Dedupe(Open("call"), Open("wrapped"))
    /\ known = Dedupe(InEdited(Open("call")), InEdited(Open("wrapped")))
    /\ llmRuns = {<<f.id, [node |-> f.node, prompt |-> content[f.message]]>> : f \in Open("call")}

EditedCalls == Sublist(answered, {k \in 1 .. Len(answered) : answered[k].node = Edited})
Changed == {k \in 1 .. Len(answered) : answered[k].entry.prompt # Original}

\* The edited calls are those that were counted, the open one included.
PromptsOK ==
    /\ \A f \in Open("call") :
         content[f.message] = IF f.node = Edited THEN Wanted(calls - 1, Original) ELSE Original
    /\ Len(EditedCalls) = calls - (IF \E f \in Open("call") : f.node = Edited THEN 1 ELSE 0)
    /\ \A k \in 1 .. Len(EditedCalls) : EditedCalls[k].entry.prompt = Wanted(k - 1, Original)
    /\ applied = Cardinality(Changed)
                   + (IF \E f \in Open("call") : content[f.message] # Original THEN 1 ELSE 0)

Ended == [k \in 1 .. Len(answered) |-> answered[k].entry]
Made(r) == {k \in 1 .. Len(answered) : answered[k].run = r}

\* The records hold the calls that ended.
AnsweredOK ==
    /\ orphans = <<>>
    /\ \A r \in 1 .. started : recordOf[r] # 0 =>
         nodes[recordOf[r]].llm_calls = Sublist(Ended, Made(r))
    /\ \A k \in 1 .. Len(answered) :
         /\ answered[k].run \in 1 .. started /\ recordOf[answered[k].run] # 0
         /\ nodes[recordOf[answered[k].run]].node = answered[k].node

UsedIn(r) == {k \in 1 .. Len(used) : r \in used[k]}

\* The records hold the tools.
ToolsOK ==
    /\ orphanTools = 0
    /\ \A t \in toolRuns : \E f \in Of(stack, {"node", "chain"}) : f.id = t[3]
    /\ asking \subseteq 1 .. started
    /\ \A k \in 1 .. Len(used) : used[k] \subseteq 1 .. started
    /\ Open("call") # {} => Around \subseteq asking
    /\ \A r \in 1 .. started : recordOf[r] # 0 =>
         /\ nodes[recordOf[r]].tool_calls = Cardinality(UsedIn(r))
         /\ nodes[recordOf[r]].tools = (IF r \in asking THEN Offered ELSE {})
                                          \cup (IF UsedIn(r) # {} THEN {Tool} ELSE {})

IInv ==
    /\ Types /\ StackOK /\ RunsOK /\ RecordsOK
    /\ DedupesOK /\ PromptsOK /\ AnsweredOK /\ ToolsOK

----------------------------------------------------------------------------
(* The stack                                                               *)

\* What a longer stack holds.
LEMMA OfAppend ==
    ASSUME NEW s \in Seq(Frames), NEW f \in Frames, NEW kinds
    PROVE  Of(Append(s, f), kinds) = Of(s, kinds) \cup (IF f.kind \in kinds THEN {f} ELSE {})
<1> DEFINE n == Len(s)
           t == Append(s, f)
<1>1. /\ n \in Nat /\ Len(t) = n + 1 /\ t[n + 1] = f
      /\ \A k \in 1 .. n : t[k] = s[k]
  OBVIOUS
<1>2. 1 .. n + 1 = (1 .. n) \cup {n + 1}
  BY <1>1
<1> HIDE DEF t, n
<1> QED
  BY <1>1, <1>2 DEF Of, n, t

\* What a stack without its last frame holds.
LEMMA OfFront ==
    ASSUME NEW s \in Seq(Frames), s # <<>>,
           \A i, j \in 1 .. Len(s) : i < j => s[i].id < s[j].id
    PROVE  /\ Len(s) \in Nat \ {0} /\ Last(s) = s[Len(s)] /\ Last(s) \in Frames
           /\ Front(s) \in Seq(Frames) /\ Len(Front(s)) = Len(s) - 1
           /\ \A k \in 1 .. Len(s) - 1 : Front(s)[k] = s[k]
           /\ \A kinds : Of(Front(s), kinds) = Of(s, kinds) \ {Last(s)}
<1> DEFINE n == Len(s)
           t == Front(s)
<1>1. /\ n \in Nat \ {0} /\ Last(s) = s[n] /\ Last(s) \in Frames
      /\ t \in Seq(Frames) /\ Len(t) = n - 1 /\ \A k \in 1 .. n - 1 : t[k] = s[k]
  <2>1. n \in Nat /\ n # 0 /\ \A k \in 1 .. n : s[k] \in Frames
    OBVIOUS
  <2>2. t = SubSeq(s, 1, n - 1) /\ n - 1 \in Nat
    BY <2>1 DEF Front
  <2>3. \A k \in 1 .. n - 1 : s[k] \in Frames
    BY <2>1
  <2>4. t \in Seq(Frames) /\ Len(t) = n - 1 /\ \A k \in 1 .. n - 1 : t[k] = s[k]
    <3>1. /\ SubSeq(s, 1, n - 1) \in Seq(Frames)
          /\ Len(SubSeq(s, 1, n - 1)) = IF 1 <= n - 1 THEN (n - 1) - 1 + 1 ELSE 0
          /\ \A i \in 1 .. (n - 1) - 1 + 1 : SubSeq(s, 1, n - 1)[i] = s[1 + i - 1]
      BY <2>1, <2>3, SubSeqProperties
    <3> HIDE DEF n, t
    <3> QED
      BY <2>1, <2>2, <3>1
  <2> QED
    BY <2>1, <2>4 DEF Last
<1>2. ASSUME NEW k \in 1 .. n - 1 PROVE s[k] # s[n]
  <2>1. s[k].id < s[n].id /\ s[k].id \in Nat /\ s[n].id \in Nat
    <3>1. k \in 1 .. n /\ n \in 1 .. n /\ k < n
      BY <1>1
    <3>2. s[k] \in Frames /\ s[n] \in Frames
      BY <3>1
    <3> QED
      BY <3>1, <3>2 DEF Frames
  <2> QED
    BY <2>1
<1>3. 1 .. n = (1 .. n - 1) \cup {n}
  BY <1>1
<1> HIDE DEF t, n
<1>4. \A kinds : Of(t, kinds) = Of(s, kinds) \ {s[n]}
  BY <1>1, <1>2, <1>3 DEF Of, n
<1> QED
  BY <1>1, <1>4 DEF t, n

\* The frames of the stack.
LEMMA FramesOfStack ==
    ASSUME Types, StackOK, NEW kinds, NEW f \in Of(stack, kinds)
    PROVE  /\ f \in Frames /\ f.kind \in kinds /\ f.id \in 1 .. started
           /\ f.kind \in {"call", "wrapped"} => f.message \in 1 .. Len(content)
           /\ \E k \in 1 .. Len(stack) : stack[k] = f
<1>1. PICK k \in 1 .. Len(stack) : stack[k] = f /\ f.kind \in kinds
  BY DEF Of
<1>2. f \in Frames /\ FrameOK(k)
  BY <1>1 DEF Types, StackOK
<1>3. f.id \in 1 .. MaxRuns /\ MaxRuns \in Nat /\ started \in Nat
  BY <1>2, BoundsAssumption DEF Frames, Types
<1> QED
  BY <1>1, <1>2, <1>3 DEF FrameOK

\* A frame that may come next.
Fits(f) ==
    /\ f \in Frames /\ f.id = started + 1
    /\ IF stack = <<>> THEN f.kind = "node"
       ELSE LET top == Last(stack)
            IN /\ f.kind = "node" => /\ top.kind \in {"node", "chain"} /\ top.node # Inner
                                     /\ f.node = Inner
               /\ f.kind # "node" => f.node = top.node
               /\ f.kind \in {"chain", "call"} => top.kind \in {"node", "chain"}
               /\ f.kind = "wrapped" => top.kind = "call" /\ f.message = top.message

LEMMA StackGrows ==
    ASSUME Types, StackOK, NEW f, Fits(f), stack' = Append(stack, f), started' = started + 1,
           Len(content') \in Nat, Len(content) <= Len(content'),
           f.kind \in {"call", "wrapped"} => f.message \in 1 .. Len(content')
    PROVE  StackOK'
<1>0. PICK n \in Nat : n = Len(stack)
  BY DEF Types
<1> DEFINE m == Len(content)
           p == Len(content')
<1>1. /\ n \in Nat /\ Len(stack') = n + 1 /\ stack'[n + 1] = f
      /\ \A k \in 1 .. n : stack'[k] = stack[k]
      /\ n > 0 => stack # <<>> /\ Last(stack) = stack[n]
      /\ started \in Nat /\ m \in Nat /\ f \in Frames
      /\ \A k \in 1 .. n : stack[k] \in Frames
  BY <1>0 DEF Fits, Types, Last
<1>2. \A k \in 1 .. n : FrameOK(k)
  BY <1>0 DEF StackOK
<1>3. \A i, j \in 1 .. n : i < j => Below(i, j)
  BY <1>0 DEF StackOK
<1>4. ASSUME NEW j \in 1 .. n PROVE FrameOK(j)'
  <2>1. FrameOK(j) /\ j # n + 1 /\ stack'[j] = stack[j]
    BY <1>1, <1>2
  <2>2. j > 1 => stack'[j - 1] = stack[j - 1]
    BY <1>1
  <2>3. stack[j].message \in 1 .. m => stack[j].message \in 1 .. p
    BY <1>1
  <2>4. stack[j].id \in Nat /\ (stack[j].id <= started => stack[j].id <= started')
    BY <1>1, BoundsAssumption DEF Frames
  <2>5. j <= stack'[j].id /\ stack'[j].id <= started' /\ (j = 1 => stack'[j].kind = "node")
    BY <2>1, <2>4 DEF FrameOK
  <2>6. stack'[j].kind \in {"call", "wrapped"} => stack'[j].message \in 1 .. Len(content')
    BY <2>1, <2>3 DEF FrameOK
  <2>7. stack'[j].kind = "wrapped" => j > 1
    BY <2>1, <2>5 DEF FrameOK
  <2>8. /\ j > 1 /\ stack'[j].kind # "node" => stack'[j].node = stack'[j - 1].node
        /\ stack'[j].kind = "wrapped" =>
             stack'[j - 1].kind = "call" /\ stack'[j].message = stack'[j - 1].message
    BY <2>1, <2>2, <2>7 DEF FrameOK
  <2> QED
    BY <2>5, <2>6, <2>8 DEF FrameOK
<1>5. FrameOK(n + 1)'
  <2>1. n > 0 => stack'[n] = Last(stack) /\ n <= Last(stack).id /\ Last(stack).id <= started
    BY <1>1, <1>2 DEF FrameOK
  <2>2. n + 1 <= f.id /\ f.id <= started'
    <3>1. n > 0 => Last(stack).id \in Nat
      BY <1>1 DEF Frames
    <3> QED
      BY <1>1, <2>1, <3>1 DEF Fits
  <2>3. n = 0 => stack = <<>>
    BY <1>0, EmptySeq DEF Types
  <2>4. (n + 1) - 1 = n /\ (n + 1 = 1 <=> n = 0) /\ (n + 1 > 1 <=> n > 0) /\ (n = 0 \/ n > 0)
    BY <1>1
  <2> QED
    BY <1>1, <2>1, <2>2, <2>3, <2>4 DEF FrameOK, Fits
<1>6. ASSUME NEW i \in 1 .. n, NEW j \in 1 .. n, i < j PROVE Below(i, j)'
  BY <1>1, <1>3, <1>6 DEF Below
<1>7. ASSUME NEW i \in 1 .. n PROVE Below(i, n + 1)'
  <2> DEFINE top == Last(stack)
  <2>1. /\ stack'[i] = stack[i] /\ stack # <<>> /\ top = stack[n] /\ n \in 1 .. n
        /\ stack[i] \in Frames
    BY <1>1
  <2>2. stack[i].id < f.id
    BY <1>1, <1>2, <2>1 DEF FrameOK, Fits, Frames
  <2>3. CASE i = n
    <3>1. stack[i] = top /\ stack'[n + 1] = f /\ stack'[i] = top /\ n + 1 = i + 1
      BY <1>1, <2>1, <2>3
    <3>2. /\ f.node \in {top.node, Inner} /\ (f.kind = "node" => top.node # Inner /\ f.node = Inner)
          /\ top.kind \in {"node", "chain"} \/ (top.kind = "call" /\ f.kind = "wrapped")
      BY <2>1 DEF Fits, Frames
    <3> HIDE DEF top
    <3> QED
      BY <2>2, <3>1, <3>2 DEF Below
  <2>4. CASE i # n
    <3>1. Below(i, n)
      BY <1>1, <1>3, <2>4
    <3>2. /\ top.node \in {stack[i].node, Inner}
          /\ top.kind # "node" \/ stack[i].node # Inner
          /\ stack[i].kind \in {"node", "chain"} \/ top.kind = "wrapped"
      BY <2>1, <3>1 DEF Below
    <3>3. f.node \in {top.node, Inner} /\ top.kind # "wrapped"
          /\ (f.kind = "node" => top.node # Inner /\ f.node = Inner)
      BY <2>1 DEF Fits, Frames
    <3>4. f.kind = "node" => stack[i].node # Inner
      BY <3>1, <3>3, <2>1 DEF Below
    <3> HIDE DEF top
    <3>5. f.node \in {stack[i].node, Inner}
      BY <3>1, <3>3, <2>1 DEF Below
    <3>6. stack[i].kind \in {"node", "chain"}
      BY <3>2, <3>3
    <3> QED
      BY <1>1, <2>1, <2>2, <3>3, <3>4, <3>5, <3>6 DEF Below
  <2> QED
    BY <2>3, <2>4
<1>8. 1 .. Len(stack') = (1 .. n) \cup {n + 1}
  BY <1>1
<1>9. ASSUME NEW i \in 1 .. Len(stack'), NEW j \in 1 .. Len(stack'), i < j PROVE Below(i, j)'
  <2>1. i \in 1 .. n
    BY <1>1, <1>9
  <2>2. CASE j = n + 1
    BY <1>7, <2>1, <2>2
  <2>3. CASE j # n + 1
    BY <1>6, <1>8, <1>9, <2>1, <2>3
  <2> QED
    BY <2>2, <2>3
<1> QED
  BY <1>1, <1>4, <1>5, <1>8, <1>9 DEF StackOK

\* A stack that shrinks.
LEMMA StackShrinks ==
    ASSUME Types, StackOK, stack # <<>>, Pop, content' = content
    PROVE  /\ StackOK'
           /\ stack' \in Seq(Frames) /\ Len(stack') = Len(stack) - 1
           /\ \A k \in 1 .. Len(stack') : stack'[k] = stack[k]
           /\ Last(stack) = stack[Len(stack)] /\ Len(stack) \in 1 .. Len(stack)
           /\ \A kinds : Of(stack', kinds) = Of(stack, kinds) \ {Last(stack)}
           /\ \A f \in Of(stack, {"node", "chain", "call", "wrapped"}) :
                f.id = Last(stack).id => f = Last(stack)
<1>1. \A i, j \in 1 .. Len(stack) : i < j => stack[i].id < stack[j].id
  BY DEF StackOK, Below
<1>2. stack \in Seq(Frames) /\ stack' = Front(stack) /\ started' = started
  BY DEF Types, Pop
<1>3. /\ stack' \in Seq(Frames) /\ Len(stack') = Len(stack) - 1
      /\ \A k \in 1 .. Len(stack') : stack'[k] = stack[k]
      /\ Last(stack) = stack[Len(stack)] /\ Len(stack) \in 1 .. Len(stack)
      /\ \A kinds : Of(stack', kinds) = Of(stack, kinds) \ {Last(stack)}
  BY <1>1, <1>2, OfFront
<1>4. StackOK'
  <2>1. \A j \in 1 .. Len(stack') : j \in 1 .. Len(stack) /\ FrameOK(j)
    BY <1>3 DEF StackOK
  <2>2. ASSUME NEW j \in 1 .. Len(stack') PROVE FrameOK(j)'
    <3>1. stack'[j] = stack[j] /\ (j > 1 => stack'[j - 1] = stack[j - 1]) /\ FrameOK(j)
      BY <1>3, <2>1
    <3>2. j = 1 => stack[j].kind = "node"
      BY <3>1 DEF FrameOK
    <3> QED
      BY <1>2, <3>1, <3>2 DEF FrameOK
  <2>3. ASSUME NEW i \in 1 .. Len(stack'), NEW j \in 1 .. Len(stack'), i < j
        PROVE  Below(i, j)'
    <3>1. Below(i, j) /\ stack'[i] = stack[i] /\ stack'[j] = stack[j]
      BY <1>3, <2>1, <2>3 DEF StackOK
    <3> QED
      BY <3>1 DEF Below
  <2> QED
    BY <2>2, <2>3 DEF StackOK
<1>5. ASSUME NEW f \in Of(stack, {"node", "chain", "call", "wrapped"}), f.id = Last(stack).id
      PROVE  f = Last(stack)
  <2>1. PICK k \in 1 .. Len(stack) : stack[k] = f
    BY DEF Of
  <2>2. k = Len(stack) \/ f.id < Last(stack).id
    BY <1>1, <1>3, <2>1
  <2>3. f.id \in Nat /\ Last(stack).id \in Nat
    <3>1. f \in Frames /\ Last(stack) \in Frames
      BY <1>2, <1>3, <2>1
    <3> QED
      BY <3>1, BoundsAssumption DEF Frames
  <2> QED
    BY <1>3, <1>5, <2>1, <2>2, <2>3
<1> QED
  BY <1>3, <1>4, <1>5

\* The innermost run.
LEMMA TopFrame ==
    ASSUME Types, StackOK, stack # <<>>
    PROVE  /\ Len(stack) \in 1 .. Len(stack) /\ Last(stack) = stack[Len(stack)]
           /\ Last(stack) \in Frames /\ Last(stack).id \in 1 .. started
           /\ \A kinds : Last(stack).kind \in kinds => Last(stack) \in Of(stack, kinds)
<1>1. Len(stack) \in 1 .. Len(stack) /\ Last(stack) = stack[Len(stack)]
  BY EmptySeq DEF Types, Last
<1>2. \A kinds : Last(stack).kind \in kinds => Last(stack) \in Of(stack, kinds)
  BY <1>1 DEF Of
<1>3. Last(stack) \in Of(stack, {Last(stack).kind})
  BY <1>2
<1> QED
  BY <1>1, <1>2, <1>3, FramesOfStack

\* No call is open inside a node or a chain.
LEMMA NoOpenCall ==
    ASSUME Types, StackOK, stack # <<>> => Last(stack).kind \in {"node", "chain"}
    PROVE  Open("call") = {} /\ Open("wrapped") = {}
<1> SUFFICES ASSUME NEW k \in 1 .. Len(stack), stack[k].kind \in {"call", "wrapped"}
             PROVE  FALSE
  BY DEF Open, Of
<1>1. stack # <<>> /\ Len(stack) \in Nat
  BY EmptySeq DEF Types
<1>2. Len(stack) \in 1 .. Len(stack) /\ stack[Len(stack)].kind \in {"node", "chain"}
  BY <1>1, TopFrame
<1>3. k < Len(stack)
  BY <1>1, <1>2
<1> QED
  BY <1>2, <1>3 DEF StackOK, Below

\* The node that the innermost run is in.
LEMMA InnermostNode ==
    ASSUME Types, StackOK, stack # <<>>
    PROVE  \E f \in Open("node") :
             /\ f.node = Last(stack).node /\ f.id <= Last(stack).id
             /\ \A g \in Open("node") : g.id <= f.id /\ (g.node = f.node => g = f)
<1> DEFINE Inside(j, k) == /\ stack[j].kind = "node" /\ stack[j].node = stack[k].node
                           /\ \A i \in j + 1 .. k : stack[i].kind # "node"
           T == {k \in 0 .. Len(stack) : k = 0 \/ \E j \in 1 .. k : Inside(j, k)}
<1>1. Len(stack) \in Nat \ {0} /\ \A k \in 1 .. Len(stack) : stack[k] \in Frames /\ FrameOK(k)
  BY EmptySeq DEF Types, StackOK
<1>2. ASSUME NEW k \in 0 .. Len(stack) - 1, k \in T PROVE k + 1 \in T
  <2>1. k + 1 \in 1 .. Len(stack) /\ k + 1 \in 1 .. k + 1 /\ (k + 1) - 1 = k /\ (k + 1 = 1 <=> k = 0)
    BY <1>1
  <2>2. CASE stack[k + 1].kind = "node"
    <3>1. Inside(k + 1, k + 1)
      BY <2>1, <2>2
    <3> QED
      BY <2>1, <3>1
  <2>3. CASE stack[k + 1].kind # "node"
    <3>1. k > 0 /\ stack[k + 1].node = stack[k].node
      BY <1>1, <2>1, <2>3 DEF FrameOK
    <3>2. PICK j \in 1 .. k : Inside(j, k)
      BY <1>2, <3>1
    <3>3. \A i \in j + 1 .. k + 1 : i \in j + 1 .. k \/ i = k + 1
      BY <2>1
    <3>4. Inside(j, k + 1) /\ j \in 1 .. k + 1
      BY <2>1, <2>3, <3>1, <3>2, <3>3
    <3> QED
      BY <2>1, <3>4
  <2> QED
    BY <2>2, <2>3
<1>3. Len(stack) \in T
  <2>1. 0 \in T
    BY <1>1
  <2> HIDE DEF T
  <2>2. 0 .. Len(stack) \subseteq T
    BY <1>1, <1>2, <2>1, InductionUpTo
  <2> QED
    BY <1>1, <2>2
<1>4. PICK j \in 1 .. Len(stack) : Inside(j, Len(stack))
  BY <1>1, <1>3
<1>5. stack[j] \in Open("node") /\ stack[j].node = Last(stack).node
  BY <1>4 DEF Open, Of, Last
<1>6. ASSUME NEW i \in 1 .. Len(stack), i < j
      PROVE  stack[i].id < stack[j].id /\ stack[i].node # stack[j].node
  BY <1>4, <1>6 DEF StackOK, Below
<1>7. stack[j].id <= Last(stack).id
  <2>1. Last(stack) = stack[Len(stack)] /\ Len(stack) \in 1 .. Len(stack)
    BY <1>1 DEF Last
  <2>2. stack[j].id \in Nat
    BY <1>1, BoundsAssumption DEF Frames
  <2>3. j = Len(stack) \/ stack[j].id < Last(stack).id
    BY <1>1, <2>1 DEF StackOK, Below
  <2>4. Last(stack).id \in Nat
    BY <1>1, <2>1, BoundsAssumption DEF Frames
  <2> QED
    BY <2>1, <2>2, <2>3, <2>4
<1>8. ASSUME NEW g \in Open("node")
      PROVE  g.id <= stack[j].id /\ (g.node = stack[j].node => g = stack[j])
  <2>1. PICK i \in 1 .. Len(stack) : stack[i] = g /\ g.kind = "node"
    BY DEF Open, Of
  <2>2. i <= j
    BY <1>4, <2>1
  <2>3. g.id \in Nat /\ stack[j].id \in Nat
    BY <1>1, <2>1, BoundsAssumption DEF Frames
  <2>4. CASE i = j
    BY <2>1, <2>3, <2>4
  <2>5. CASE i # j
    BY <1>6, <2>1, <2>2, <2>3, <2>5
  <2> QED
    BY <2>4, <2>5
<1> QED
  BY <1>5, <1>7, <1>8

----------------------------------------------------------------------------
(* The records of a run                                                    *)

\* The recursion of RecordsFrom defines a function.
LEMMA RecordsFromIs ==
    ASSUME started \in Nat, \A r \in 1 .. started : parentOf[r] \in 0 .. r - 1
    PROVE  RecordsFrom = [run \in 0 .. started |->
                            IF run = 0 THEN {}
                            ELSE ({recordOf[run]} \ {0}) \cup RecordsFrom[parentOf[run]]]
<1> DEFINE Def(g, r) == IF r = 0 THEN {} ELSE ({recordOf[r]} \ {0}) \cup g[parentOf[r]]
           Defines(g, k) == g = [r \in 0 .. k |-> Def(g, r)]
           T == {k \in 0 .. started : \E g : Defines(g, k)}
<1>1. 0 \in T
  <2> DEFINE h == [r \in 0 .. 0 |-> {}]
  <2>1. Defines(h, 0)
    OBVIOUS
  <2> HIDE DEF h, Defines
  <2> QED
    BY <2>1
<1>2. ASSUME NEW k \in 0 .. started - 1, k \in T PROVE k + 1 \in T
  <2>1. PICK g : Defines(g, k)
    BY <1>2
  <2> DEFINE h == [r \in 0 .. k + 1 |-> IF r = k + 1 THEN Def(g, r) ELSE g[r]]
  <2>2. ASSUME NEW r \in 0 .. k + 1 PROVE h[r] = Def(h, r)
    <3>1. r # 0 => parentOf[r] \in 0 .. k /\ parentOf[r] < r /\ h[parentOf[r]] = g[parentOf[r]]
      <4>1. r # 0 => r \in 1 .. started /\ r <= k + 1
        OBVIOUS
      <4>2. r # 0 => parentOf[r] \in 0 .. r - 1
        BY <4>1
      <4>3. r # 0 => parentOf[r] \in 0 .. k /\ parentOf[r] < r
        BY <4>1, <4>2
      <4> QED
        BY <4>3
    <3>2. CASE r = k + 1
      <4>1. h[r] = Def(g, r)
        BY <3>2
      <4> HIDE DEF h
      <4> QED
        BY <3>1, <4>1
    <3>3. CASE r \in 0 .. k
      <4>1. h[r] = g[r] /\ g[r] = Def(g, r)
        BY <2>1, <3>3
      <4> HIDE DEF h
      <4> QED
        BY <3>1, <4>1
    <3> QED
      BY <3>2, <3>3
  <2>3. Defines(h, k + 1)
    <3> HIDE DEF Def
    <3> QED
      BY <2>2
  <2> HIDE DEF h, Defines
  <2> QED
    BY <2>3
<1>3. \E g : Defines(g, started)
  <2> HIDE DEF T
  <2>1. 0 .. started \subseteq T
    BY <1>1, <1>2, InductionUpTo
  <2>2. started \in T
    BY <2>1
  <2> QED
    BY <2>2 DEF T
<1>4. RecordsFrom = CHOOSE g : Defines(g, started)
  BY DEF RecordsFrom
<1>5. Defines(RecordsFrom, started)
  <2> HIDE DEF Defines
  <2> QED
    BY <1>3, <1>4
<1> QED
  BY <1>5

\* A run on the stack is in the records of the nodes up to it.
LEMMA RecordsOfStack ==
    ASSUME Types, StackOK, RunsOK, RecordsOK, NEW f \in Of(stack, {"node", "chain"})
    PROVE  RecordsFrom[f.id] = {recordOf[g.id] : g \in {g \in Open("node") : g.id <= f.id}}
<1> DEFINE R(k) == {recordOf[stack[j].id] : j \in {j \in 1 .. k : stack[j].kind = "node"}}
           T == {k \in 0 .. Len(stack) :
                   k > 0 /\ stack[k].kind \in {"node", "chain"} => RecordsFrom[stack[k].id] = R(k)}
<1>1. Len(stack) \in Nat /\ started \in Nat /\ \A k \in 1 .. Len(stack) :
        stack[k] \in Frames /\ FrameOK(k) /\ stack[k].id \in 1 .. started
  <2>1. Len(stack) \in Nat /\ started \in Nat /\ \A k \in 1 .. Len(stack) :
          stack[k] \in Frames /\ FrameOK(k)
    BY DEF Types, StackOK
  <2> QED
    BY <2>1, BoundsAssumption DEF Frames, FrameOK
<1>2. /\ RecordsFrom[0] = {}
      /\ \A r \in 1 .. started :
           RecordsFrom[r] = ({recordOf[r]} \ {0}) \cup RecordsFrom[parentOf[r]]
  <2> DEFINE F == RecordsFrom
  <2>1. F = [run \in 0 .. started |->
               IF run = 0 THEN {} ELSE ({recordOf[run]} \ {0}) \cup F[parentOf[run]]]
    BY <1>1, RecordsFromIs DEF RunsOK
  <2> HIDE DEF F
  <2>2. 0 \in 0 .. started /\ \A r \in 1 .. started : r \in 0 .. started /\ r # 0
    BY <1>1
  <2>3. F[0] = {} /\ \A r \in 1 .. started : F[r] = ({recordOf[r]} \ {0}) \cup F[parentOf[r]]
    BY <2>1, <2>2
  <2> QED
    BY <2>3 DEF F
<1>3. ASSUME NEW k \in 0 .. Len(stack) - 1, k \in T PROVE k + 1 \in T
  <2>1. k + 1 \in 1 .. Len(stack) /\ (k + 1) - 1 = k /\ (k + 1 = 1 <=> k = 0)
    BY <1>1
  <2> SUFFICES ASSUME stack[k + 1].kind \in {"node", "chain"}
               PROVE  RecordsFrom[stack[k + 1].id] = R(k + 1)
    BY <2>1
  <2> DEFINE r == stack[k + 1].id
  <2>2. RecordsFrom[parentOf[r]] = R(k)
    <3>1. CASE k = 0
      BY <1>2, <2>1, <3>1 DEF RunsOK
    <3>2. CASE k # 0
      <4>1. k \in 1 .. Len(stack) /\ k < k + 1 /\ k > 0
        BY <2>1, <3>2
      <4>2. stack[k].kind \in {"node", "chain"}
        BY <2>1, <4>1 DEF StackOK, Below
      <4>3. parentOf[r] = stack[k].id
        BY <2>1, <3>2 DEF RunsOK
      <4> QED
        BY <1>3, <4>1, <4>2, <4>3
    <3> QED
      BY <3>1, <3>2
  <2>3. RecordsFrom[r] = ({recordOf[r]} \ {0}) \cup R(k)
    BY <1>1, <1>2, <2>1, <2>2
  <2>4. 1 .. k + 1 = (1 .. k) \cup {k + 1}
    BY <2>1
  <2>5. CASE stack[k + 1].kind = "node"
    <3>1. recordOf[r] # 0
      <4>1. stack[k + 1] \in Open("node")
        BY <2>1, <2>5 DEF Open, Of
      <4> QED
        BY <4>1 DEF RecordsOK
    <3>2. R(k + 1) = R(k) \cup {recordOf[r]}
      BY <2>4, <2>5
    <3> HIDE DEF R
    <3> QED
      BY <2>3, <3>1, <3>2
  <2>6. CASE stack[k + 1].kind # "node"
    <3>1. recordOf[r] = 0
      BY <2>1, <2>6 DEF RunsOK
    <3>2. R(k + 1) = R(k)
      BY <2>4, <2>6
    <3> HIDE DEF R
    <3> QED
      BY <2>3, <3>1, <3>2
  <2> QED
    BY <2>5, <2>6
<1>4. 0 .. Len(stack) \subseteq T
  <2>1. 0 \in T
    BY <1>1
  <2> HIDE DEF T
  <2> QED
    BY <1>1, <1>3, <2>1, InductionUpTo
<1>5. PICK k \in 1 .. Len(stack) : stack[k] = f /\ f.kind \in {"node", "chain"}
  BY DEF Of
<1>6. RecordsFrom[f.id] = R(k)
  <2>1. k \in T /\ k > 0
    <3> HIDE DEF T
    <3> QED
      BY <1>1, <1>4
  <2> QED
    BY <1>5, <2>1
<1>7. ASSUME NEW j \in 1 .. Len(stack) PROVE j \in 1 .. k <=> stack[j].id <= f.id
  <2>1. stack[j].id \in Nat /\ f.id \in Nat
    BY <1>1, <1>5
  <2>2. j < k => stack[j].id < f.id
    BY <1>5 DEF StackOK, Below
  <2>3. k < j => f.id < stack[j].id
    BY <1>5 DEF StackOK, Below
  <2>4. j = k => stack[j].id = f.id
    BY <1>5
  <2> QED
    BY <1>1, <2>1, <2>2, <2>3, <2>4
<1>8. R(k) = {recordOf[g.id] : g \in {g \in Open("node") : g.id <= f.id}}
  <2>1. \A j \in 1 .. k : j \in 1 .. Len(stack)
    BY <1>1
  <2> QED
    BY <1>7, <2>1 DEF Open, Of
<1> QED
  BY <1>6, <1>8

----------------------------------------------------------------------------
(* What a step leaves as it is                                             *)

LEMMA DedupesKept ==
    ASSUME DedupesOK, UNCHANGED <<known, seen, llmRuns, content>>,
           Open("call")' = Open("call"), Open("wrapped")' = Open("wrapped")
    PROVE  DedupesOK'
BY DEF DedupesOK

LEMMA PromptsKept ==
    ASSUME PromptsOK, UNCHANGED <<content, overrideVars, answered>>, Open("call")' = Open("call")
    PROVE  PromptsOK'
BY DEF PromptsOK, EditedCalls, Changed, Wanted, overrideVars

\* A function on the first numbers is a sequence.
LEMMA FunctionIsSeq ==
    ASSUME NEW S, NEW n \in Nat, NEW s, s = [i \in 1 .. n |-> s[i]],
           \A i \in 1 .. n : s[i] \in S
    PROVE  s \in Seq(S) /\ Len(s) = n
<1>1. s \in [1 .. n -> S]
  OBVIOUS
<1> QED
  BY <1>1

\* A sublist of nothing.
LEMMA EmptySublist ==
    ASSUME NEW S, NEW s \in Seq(S)
    PROVE  Sublist(s, {}) = <<>>
<1>1. PICK f : Enumerates(f, Sublist(s, {}), s, {}) /\ Sublist(s, {}) \in Seq(S)
  BY SublistEnumerates
<1>2. f \in [1 .. Len(Sublist(s, {})) -> {}] /\ Len(Sublist(s, {})) \in Nat
  BY <1>1 DEF Enumerates
<1>3. Len(Sublist(s, {})) = 0
  <2>1. \A n \in Nat : n # 0 => 1 \in 1 .. n
    OBVIOUS
  <2>2. \A i \in 1 .. Len(Sublist(s, {})) : f[i] \in {}
    BY <1>2
  <2> QED
    BY <1>2, <2>1, <2>2
<1> QED
  BY <1>1, <1>3, EmptySeq

\* The new records hold no calls.
LEMMA AnsweredKept ==
    ASSUME Types, RunsOK, AnsweredOK, UNCHANGED <<orphans, answered>>,
           started' \in Nat, started <= started',
           \A r \in 1 .. started : recordOf'[r] = recordOf[r],
           \A i \in 1 .. Len(nodes) :
             nodes'[i].llm_calls = nodes[i].llm_calls /\ nodes'[i].node = nodes[i].node,
           \A r \in 1 .. started' : r \notin 1 .. started =>
             recordOf'[r] = 0 \/ nodes'[recordOf'[r]].llm_calls = <<>>
    PROVE  AnsweredOK'
<1>1. started \in Nat /\ Ended \in Seq(Entries)
      /\ \A r \in 1 .. started : recordOf[r] # 0 => recordOf[r] \in 1 .. Len(nodes)
  <2>1. Len(answered) \in Nat /\ \A k \in 1 .. Len(answered) : answered[k] \in Answers
    BY DEF Types
  <2>2. \A k \in 1 .. Len(answered) : answered[k].entry \in Entries
    BY <2>1 DEF Answers
  <2> QED
    BY <2>1, <2>2 DEF Ended, Types, RunsOK
<1>2. Ended' = Ended /\ \A r : Made(r)' = Made(r)
  BY DEF Ended, Made
<1>3. ASSUME NEW r \in 1 .. started', recordOf'[r] # 0
      PROVE  nodes'[recordOf'[r]].llm_calls = Sublist(Ended, Made(r))
  <2>1. CASE r \in 1 .. started
    BY <1>1, <1>3, <2>1 DEF AnsweredOK
  <2>2. CASE r \notin 1 .. started
    <3>1. Made(r) = {}
      BY <2>2 DEF Made, AnsweredOK
    <3> QED
      BY <1>1, <1>3, <2>2, <3>1, EmptySublist
  <2> QED
    BY <2>1, <2>2
<1>4. ASSUME NEW k \in 1 .. Len(answered)
      PROVE  /\ answered[k].run \in 1 .. started' /\ recordOf'[answered[k].run] # 0
             /\ nodes'[recordOf'[answered[k].run]].node = answered[k].node
  <2>1. /\ answered[k].run \in 1 .. started /\ recordOf[answered[k].run] # 0
        /\ nodes[recordOf[answered[k].run]].node = answered[k].node
    BY DEF AnsweredOK
  <2> QED
    BY <1>1, <2>1
<1> QED
  BY <1>2, <1>3, <1>4 DEF AnsweredOK

\* The new records hold no tools.
LEMMA ToolsKept ==
    ASSUME Types, RunsOK, ToolsOK, UNCHANGED <<toolVars, asking>>,
           started' \in Nat, started <= started',
           \A r \in 1 .. started : recordOf'[r] = recordOf[r],
           \A i \in 1 .. Len(nodes) :
             nodes'[i].tools = nodes[i].tools /\ nodes'[i].tool_calls = nodes[i].tool_calls,
           \A r \in 1 .. started' : r \notin 1 .. started =>
             \/ recordOf'[r] = 0
             \/ nodes'[recordOf'[r]].tools = {} /\ nodes'[recordOf'[r]].tool_calls = 0,
           \A t \in toolRuns : \E f \in Of(stack', {"node", "chain"}) : f.id = t[3],
           Open("call")' # {} => Around' \subseteq asking
    PROVE  ToolsOK'
<1>1. started \in Nat
      /\ \A r \in 1 .. started : recordOf[r] # 0 => recordOf[r] \in 1 .. Len(nodes)
  BY DEF Types, RunsOK
<1>2. \A r : UsedIn(r)' = UsedIn(r)
  BY DEF UsedIn, toolVars
<1>3. ASSUME NEW r \in 1 .. started', recordOf'[r] # 0
      PROVE  /\ nodes'[recordOf'[r]].tool_calls = Cardinality(UsedIn(r))
             /\ nodes'[recordOf'[r]].tools = (IF r \in asking THEN Offered ELSE {})
                                               \cup (IF UsedIn(r) # {} THEN {Tool} ELSE {})
  <2>1. CASE r \in 1 .. started
    BY <1>1, <1>3, <2>1 DEF ToolsOK
  <2>2. CASE r \notin 1 .. started
    <3>1. UsedIn(r) = {} /\ r \notin asking
      BY <2>2 DEF UsedIn, ToolsOK
    <3> QED
      BY <1>3, <2>2, <3>1, FS_EmptySet
  <2> QED
    BY <2>1, <2>2
<1>4. orphanTools' = 0 /\ asking' \subseteq 1 .. started'
      /\ \A k \in 1 .. Len(used') : used'[k] \subseteq 1 .. started'
  BY <1>1 DEF ToolsOK, toolVars
<1>5. \A t \in toolRuns' : \E f \in Of(stack', {"node", "chain"}) : f.id = t[3]
  BY DEF toolVars
<1> QED
  BY <1>2, <1>3, <1>4, <1>5 DEF ToolsOK

\* A run that starts, with a record or without.
LEMMA RunsGrow ==
    ASSUME Types, StackOK, RunsOK, NEW f, Fits(f), stack' = Append(stack, f),
           started' = started + 1, NEW p \in 0 .. started, NEW c \in 0 .. Len(nodes'),
           parentOf' = Append(parentOf, p), recordOf' = Append(recordOf, c),
           Len(nodes') \in Nat, Len(nodes) <= Len(nodes'), c = 0 \/ c > Len(nodes),
           p = IF stack # <<>> /\ f.kind \in {"node", "chain"} THEN Last(stack).id ELSE 0,
           f.kind # "node" => c = 0
    PROVE  /\ RunsOK'
           /\ parentOf' \in Seq(Nat) /\ Len(parentOf') = started'
           /\ recordOf' \in Seq(Nat) /\ Len(recordOf') = started'
           /\ \A r \in 1 .. started : recordOf'[r] = recordOf[r]
           /\ recordOf'[started + 1] = c
<1>1. PICK n \in Nat, d \in Nat, m \in Nat : n = Len(stack) /\ d = started /\ m = Len(nodes)
  <2>1. Len(stack) \in Nat /\ started \in Nat /\ Len(nodes) \in Nat
    BY DEF Types
  <2> QED
    BY <2>1
<1>2. /\ parentOf' \in Seq(Nat) /\ Len(parentOf') = d + 1 /\ parentOf'[d + 1] = p
      /\ recordOf' \in Seq(Nat) /\ Len(recordOf') = d + 1 /\ recordOf'[d + 1] = c
      /\ \A r \in 1 .. d : recordOf'[r] = recordOf[r] /\ parentOf'[r] = parentOf[r]
  <2>1. /\ parentOf \in Seq(Nat) /\ Len(parentOf) = d /\ p \in Nat
        /\ recordOf \in Seq(Nat) /\ Len(recordOf) = d /\ c \in Nat
    BY <1>1 DEF Types
  <2> QED
    BY <2>1
<1>2a. /\ recordOf'[d + 1] = c /\ parentOf'[d + 1] = p
       /\ \A r \in 1 .. d : /\ recordOf'[r] = recordOf[r] /\ parentOf'[r] = parentOf[r]
                           /\ recordOf'[r] \in Nat
  BY <1>2
<1>3. /\ Len(stack') = n + 1 /\ stack'[n + 1] = f /\ f.id = d + 1
      /\ \A k \in 1 .. n : stack'[k] = stack[k] /\ stack[k].id \in 1 .. d
  <2>1. \A k \in 1 .. n : stack[k] \in Frames /\ FrameOK(k)
    BY <1>1 DEF Types, StackOK
  <2>2. \A k \in 1 .. n : stack[k].id \in 1 .. d
    BY <1>1, <2>1, BoundsAssumption DEF FrameOK, Frames
  <2> QED
    BY <1>1, <2>2 DEF Types, Fits
<1>4. 1 .. d + 1 = (1 .. d) \cup {d + 1} /\ 1 .. n + 1 = (1 .. n) \cup {n + 1}
  OBVIOUS
<1>5. \A r \in 1 .. d : recordOf[r] \in 0 .. m /\ parentOf[r] \in 0 .. r - 1
  BY <1>1 DEF RunsOK
<1>6. ASSUME NEW r \in 1 .. d + 1
      PROVE  recordOf'[r] \in 0 .. Len(nodes') /\ parentOf'[r] \in 0 .. r - 1
  <2>1. CASE r \in 1 .. d
    <3>1. recordOf[r] \in 0 .. m /\ parentOf[r] \in 0 .. r - 1
      BY <1>5, <2>1
    <3>2. recordOf'[r] = recordOf[r] /\ parentOf'[r] = parentOf[r]
      BY <1>2a, <2>1
    <3>3. \A k \in 0 .. m : k \in 0 .. Len(nodes')
      BY <1>1
    <3> QED
      BY <3>1, <3>2, <3>3
  <2>2. CASE r = d + 1
    <3>1. recordOf'[r] = c /\ parentOf'[r] = p
      BY <1>2a, <2>2
    <3>2. c \in 0 .. Len(nodes') /\ p \in 0 .. d /\ r - 1 = d
      BY <1>1, <2>2
    <3> QED
      BY <3>1, <3>2
  <2> QED
    BY <1>4, <2>1, <2>2
<1>7. ASSUME NEW r \in 1 .. d + 1, NEW s \in 1 .. d + 1,
             recordOf'[r] = recordOf'[s], recordOf'[r] # 0
      PROVE  r = s
  <2>1. CASE r \in 1 .. d /\ s \in 1 .. d
    <3>1. recordOf[r] = recordOf[s] /\ recordOf[r] # 0
      BY <1>2a, <1>7, <2>1
    <3> QED
      BY <1>1, <2>1, <3>1 DEF RunsOK
  <2>2. \A q \in 1 .. d : recordOf'[q] <= m
    <3>1. \A k \in 0 .. m : k <= m
      BY <1>1
    <3> QED
      BY <1>2a, <1>5, <3>1
  <2>3. CASE r = d + 1 \/ s = d + 1
    <3>1. recordOf'[d + 1] = c /\ (c = 0 \/ c > m) /\ c \in Nat
      BY <1>1, <1>2a
    <3>2. c # 0
      BY <1>7, <2>3, <3>1
    <3>3. \A q \in 1 .. d : recordOf'[q] # c
      <4>1. c \in Nat /\ c > m
        BY <3>1, <3>2
      <4> QED
        BY <1>1, <1>2a, <2>2, <4>1
    <3> QED
      BY <1>4, <1>7, <2>3, <3>1, <3>3
  <2> QED
    BY <1>4, <2>1, <2>3
<1>8. ASSUME NEW k \in 1 .. n + 1
      PROVE  /\ parentOf'[stack'[k].id] =
                  IF k > 1 /\ stack'[k].kind \in {"node", "chain"} THEN stack'[k - 1].id ELSE 0
             /\ stack'[k].kind # "node" => recordOf'[stack'[k].id] = 0
  <2>1. CASE k \in 1 .. n
    <3>1. k > 1 => stack'[k - 1] = stack[k - 1]
      BY <1>3, <2>1
    <3>2. stack'[k] = stack[k] /\ stack[k].id \in 1 .. d
      BY <1>3, <2>1
    <3>3. /\ parentOf[stack[k].id] =
               IF k > 1 /\ stack[k].kind \in {"node", "chain"} THEN stack[k - 1].id ELSE 0
          /\ stack[k].kind # "node" => recordOf[stack[k].id] = 0
      BY <1>1, <2>1 DEF RunsOK
    <3>4. recordOf'[stack[k].id] = recordOf[stack[k].id]
          /\ parentOf'[stack[k].id] = parentOf[stack[k].id]
      BY <1>2a, <3>2
    <3> QED
      BY <3>1, <3>2, <3>3, <3>4
  <2>2. CASE k = n + 1
    <3>1. (k = 1 <=> stack = <<>>) /\ k - 1 = n
      BY <1>1, <2>2, EmptySeq DEF Types
    <3>2. k # 1 => stack'[k - 1] = Last(stack)
      BY <1>1, <1>3, <2>2, <3>1 DEF Last
    <3>3. k > 1 <=> stack # <<>>
      BY <1>1, <2>2, <3>1
    <3>4. parentOf'[stack'[k].id] = p /\ recordOf'[stack'[k].id] = c /\ stack'[k] = f
      BY <1>2a, <1>3, <2>2
    <3> QED
      BY <3>1, <3>2, <3>3, <3>4
  <2> QED
    BY <1>4, <2>1, <2>2
<1>9. Len(stack') = n + 1 /\ started' = d + 1
  BY <1>1, <1>3
<1>10. RunsOK'
  BY <1>6, <1>7, <1>8, <1>9 DEF RunsOK
<1> QED
  BY <1>1, <1>2, <1>10

----------------------------------------------------------------------------
(* Nodes and chains                                                        *)

\* The runs around the innermost one.
LEMMA AroundIs ==
    ASSUME Types
    PROVE  Around = {f.id : f \in Open("node")}
BY DEF Types, Around, Open, Of

\* No node on the stack has the name of a node that may come next.
LEMMA NextNodeIsNew ==
    ASSUME Types, StackOK, NEW f, Fits(f), f.kind = "node", NEW g \in Open("node")
    PROVE  g.node # f.node
<1>1. PICK k \in 1 .. Len(stack) : stack[k] = g
  BY DEF Open, Of
<1>2. Len(stack) \in Nat /\ stack # <<>>
  BY <1>1, EmptySeq DEF Types
<1>3. Last(stack).node # Inner /\ f.node = Inner /\ Last(stack) = stack[Len(stack)]
  BY <1>2 DEF Fits, Last
<1>4. CASE k = Len(stack)
  BY <1>1, <1>3, <1>4
<1>5. CASE k # Len(stack)
  <2>1. k < Len(stack) /\ Len(stack) \in 1 .. Len(stack)
    BY <1>2, <1>5
  <2>2. Below(k, Len(stack))
    BY <2>1 DEF StackOK
  <2> QED
    BY <1>1, <1>3, <2>2 DEF Below
<1> QED
  BY <1>4, <1>5

\* on_chain_start.
LEMMA ChainStartStep ==
    ASSUME IInv, NEW f, Fits(f), f.kind \in {"node", "chain"}, f.kind = "node" => f.name = f.node,
           Push(f), ChainStart(f.id, f.name, f.node, Parent), left' \in Seq(NodeNames),
           UNCHANGED <<content, overrideVars, llmRuns, orphans, seen, toolVars, answered, asking>>
    PROVE  IInv'
<1> DEFINE c == IF f.kind = "node" THEN Len(nodes) + 1 ELSE 0
           new == Record(f.node)
<1>1. /\ started \in Nat /\ started' = started + 1 /\ started' \in 0 .. MaxRuns
      /\ stack \in Seq(Frames) /\ stack' = Append(stack, f) /\ stack' \in Seq(Frames)
      /\ f \in Frames /\ f.id = started + 1 /\ nodes \in Seq(Records) /\ Len(nodes) \in Nat
      /\ Len(content) \in Nat
  BY BoundsAssumption DEF IInv, Types, Push, Fits
<1>2. StackOK'
  BY <1>1, StackGrows DEF IInv
<1>3. /\ Open("node")' = Open("node") \cup (IF f.kind = "node" THEN {f} ELSE {})
      /\ Open("call")' = Open("call") /\ Open("wrapped")' = Open("wrapped")
      /\ Of(stack', {"node", "chain"}) = Of(stack, {"node", "chain"}) \cup {f}
  <2>1. \A kinds : Of(stack', kinds) = Of(stack, kinds) \cup (IF f.kind \in kinds THEN {f} ELSE {})
    BY <1>1, OfAppend
  <2> QED
    BY <2>1 DEF Open
<1>4. /\ f.kind = "node" => \A o \in openByName : o[1] # f.name
      /\ f.kind = "chain" /\ f.name = f.node => \E o \in openByName : o[1] = f.name
  <2>1. f.kind = "node" => \A g \in Open("node") : g.node # f.node
    BY NextNodeIsNew DEF IInv
  <2>2. f.kind = "chain" => \E g \in Open("node") : g.node = f.node
    <3>1. f.kind = "chain" => stack # <<>> /\ f.node = Last(stack).node
      BY DEF Fits
    <3> QED
      BY <3>1, InnermostNode DEF IInv
  <2>3. openByName = {<<g.node, recordOf[g.id]>> : g \in Open("node")}
    BY DEF IInv, RecordsOK
  <2>4. f.kind = "node" => \A o \in openByName : o[1] # f.name
    BY <2>1, <2>3
  <2>5. \A g \in Open("node") : <<g.node, recordOf[g.id]>> \in openByName
    BY <2>3
  <2> QED
    BY <2>2, <2>4, <2>5
<1>5. /\ parentOf' = Append(parentOf, Parent) /\ recordOf' = Append(recordOf, c)
      /\ f.kind = "node" => /\ nodes' = Append(nodes, new)
                            /\ byRun' = byRun \cup {<<f.id, c>>}
                            /\ openByName' = openByName \cup {<<f.node, c>>}
      /\ f.kind # "node" => UNCHANGED <<nodes, byRun, openByName>>
  BY <1>4 DEF ChainStart
<1>6. /\ nodes' \in Seq(Records) /\ Len(nodes') \in Nat /\ Len(nodes) <= Len(nodes')
      /\ \A i \in 1 .. Len(nodes) : nodes'[i] = nodes[i]
      /\ c \in 0 .. Len(nodes') /\ (c = 0 \/ c > Len(nodes))
      /\ f.kind = "node" => c # 0 /\ nodes'[c] = new /\ 1 .. Len(nodes') = (1 .. Len(nodes)) \cup {c}
      /\ f.kind # "node" => nodes' = nodes
  <2>1. new \in Records
    <3>1. <<>> \in Seq(Entries) /\ f.node \in NodeNames
      BY <1>1 DEF Frames
    <3> QED
      BY <3>1 DEF Record, Records
  <2> HIDE DEF new
  <2>2. CASE f.kind = "node"
    <3>1. nodes' = Append(nodes, new) /\ c = Len(nodes) + 1
      BY <1>5, <2>2
    <3> HIDE DEF c
    <3>2. /\ nodes' \in Seq(Records) /\ Len(nodes') = c /\ nodes'[c] = new
          /\ \A i \in 1 .. Len(nodes) : nodes'[i] = nodes[i]
      BY <1>1, <2>1, <3>1
    <3>3. c \in Nat /\ c # 0 /\ c > Len(nodes) /\ 1 .. c = (1 .. Len(nodes)) \cup {c}
      BY <1>1, <3>1
    <3> QED
      BY <1>1, <2>2, <3>2, <3>3
  <2>3. CASE f.kind # "node"
    BY <1>1, <1>5, <2>3
  <2> QED
    BY <2>2, <2>3
<1> HIDE DEF c
<1>7. Parent \in 0 .. started
  <2>1. stack # <<>> => Last(stack).id \in 1 .. started
    BY TopFrame DEF IInv
  <2> QED
    BY <1>1, <2>1 DEF Parent
<1>8. /\ RunsOK'
      /\ parentOf' \in Seq(Nat) /\ Len(parentOf') = started'
      /\ recordOf' \in Seq(Nat) /\ Len(recordOf') = started'
      /\ \A r \in 1 .. started : recordOf'[r] = recordOf[r]
      /\ recordOf'[started + 1] = c
  <2>1. f.kind # "node" => c = 0
    BY DEF c
  <2> QED
    <3>1. Parent = IF stack # <<>> /\ f.kind \in {"node", "chain"} THEN Last(stack).id ELSE 0
      BY DEF Parent
    <3>2. Types /\ StackOK /\ RunsOK
      BY DEF IInv
    <3> QED
      BY <1>1, <1>5, <1>6, <1>7, <2>1, <3>1, <3>2, RunsGrow
<1>9. Types'
  BY <1>1, <1>6, <1>8 DEF IInv, Types, overrideVars, toolVars
<1>10. RecordsOK'
  <2> DEFINE nodesOpen == Open("node")
  <2>1. \A g \in nodesOpen : recordOf'[g.id] = recordOf[g.id] /\ g.id \in 1 .. started
    BY <1>8, FramesOfStack DEF IInv, Open
  <2>2. \A g \in nodesOpen : recordOf[g.id] \in 1 .. Len(nodes)
    BY <1>1, <2>1 DEF IInv, RunsOK, RecordsOK
  <2>3. f.kind = "node" => recordOf'[f.id] = c
    BY <1>1, <1>8
  <2>4. /\ byRun = {<<g.id, recordOf[g.id]>> : g \in nodesOpen}
        /\ openByName = {<<g.node, recordOf[g.id]>> : g \in nodesOpen}
        /\ \A g \in nodesOpen : recordOf[g.id] # 0 /\ nodes[recordOf[g.id]].node = g.node
        /\ \A i \in 1 .. Len(nodes) :
             nodes[i].status = "closed" \/ \E g \in nodesOpen : recordOf[g.id] = i
    BY DEF IInv, RecordsOK
  <2> HIDE DEF nodesOpen
  <2>5. CASE f.kind = "node"
    <3> DEFINE now == nodesOpen \cup {f}
    <3>1. byRun' = {<<g.id, recordOf'[g.id]>> : g \in now}
      <4>1. byRun = {<<g.id, recordOf'[g.id]>> : g \in nodesOpen}
        BY <2>1, <2>4
      <4> QED
        BY <1>5, <2>3, <2>5, <4>1
    <3>2. openByName' = {<<g.node, recordOf'[g.id]>> : g \in now}
      <4>1. openByName = {<<g.node, recordOf'[g.id]>> : g \in nodesOpen}
        BY <2>1, <2>4
      <4> QED
        BY <1>5, <2>3, <2>5, <4>1
    <3>3. \A g \in now : recordOf'[g.id] # 0 /\ nodes'[recordOf'[g.id]].node = g.node
      BY <1>6, <2>1, <2>2, <2>3, <2>4, <2>5 DEF Record
    <3>4. \A i \in 1 .. Len(nodes') :
            nodes'[i].status = "closed" \/ \E g \in now : recordOf'[g.id] = i
      <4>1. ASSUME NEW i \in 1 .. Len(nodes)
            PROVE  nodes'[i].status = "closed" \/ \E g \in now : recordOf'[g.id] = i
        BY <1>6, <2>1, <2>4
      <4>2. \E g \in now : recordOf'[g.id] = c
        BY <2>3, <2>5
      <4>3. 1 .. Len(nodes') = (1 .. Len(nodes)) \cup {c}
        BY <1>6, <2>5
      <4> HIDE DEF now
      <4> QED
        BY <4>1, <4>2, <4>3
    <3>5. Open("node")' = now
      BY <1>3, <2>5 DEF nodesOpen
    <3> HIDE DEF now
    <3> QED
      BY <3>1, <3>2, <3>3, <3>4, <3>5 DEF RecordsOK
  <2>6. CASE f.kind # "node"
    <3>1. Open("node")' = nodesOpen
      BY <1>3, <2>6 DEF nodesOpen
    <3>2. byRun' = {<<g.id, recordOf'[g.id]>> : g \in nodesOpen}
      <4>1. byRun = {<<g.id, recordOf'[g.id]>> : g \in nodesOpen}
        BY <2>1, <2>4
      <4> QED
        BY <1>5, <2>6, <4>1
    <3>3. openByName' = {<<g.node, recordOf'[g.id]>> : g \in nodesOpen}
      <4>1. openByName = {<<g.node, recordOf'[g.id]>> : g \in nodesOpen}
        BY <2>1, <2>4
      <4> QED
        BY <1>5, <2>6, <4>1
    <3>4. /\ \A g \in nodesOpen : recordOf'[g.id] # 0 /\ nodes'[recordOf'[g.id]].node = g.node
          /\ \A i \in 1 .. Len(nodes') :
               nodes'[i].status = "closed" \/ \E g \in nodesOpen : recordOf'[g.id] = i
      BY <1>6, <2>1, <2>4, <2>6
    <3> QED
      BY <3>1, <3>2, <3>3, <3>4 DEF RecordsOK
  <2> QED
    BY <2>5, <2>6
<1>11. /\ \A r \in 1 .. started' : r \notin 1 .. started =>
            \/ recordOf'[r] = 0
            \/ LET record == nodes'[recordOf'[r]]
               IN record.llm_calls = <<>> /\ record.tools = {} /\ record.tool_calls = 0
  <2>1. \A r \in 1 .. started' : r \notin 1 .. started => r = started + 1
    BY <1>1
  <2>2. f.kind # "node" => c = 0
    BY DEF c
  <2> QED
    <3>1. new.llm_calls = <<>> /\ new.tools = {} /\ new.tool_calls = 0
      BY DEF Record
    <3>2. c = 0 \/ nodes'[c] = new
      BY <1>6, <2>2
    <3> HIDE DEF new, c
    <3> QED
      BY <1>8, <2>1, <3>1, <3>2
<1>12. AnsweredOK'
  <2>1. started' \in Nat /\ started <= started'
    BY <1>1
  <2>2. \A i \in 1 .. Len(nodes) :
          nodes'[i].llm_calls = nodes[i].llm_calls /\ nodes'[i].node = nodes[i].node
    BY <1>6
  <2>3. \A r \in 1 .. started' : r \notin 1 .. started =>
          recordOf'[r] = 0 \/ nodes'[recordOf'[r]].llm_calls = <<>>
    BY <1>11
  <2>4. UNCHANGED <<orphans, answered>> /\ \A r \in 1 .. started : recordOf'[r] = recordOf[r]
    BY <1>8
  <2> QED
    BY <2>1, <2>2, <2>3, <2>4, AnsweredKept DEF IInv
<1>13. ToolsOK'
  <2>1. Open("call")' = {}
    <3>1. stack # <<>> => Last(stack).kind \in {"node", "chain"}
      BY DEF Fits
    <3> QED
      BY <1>3, <3>1, NoOpenCall DEF IInv
  <2>2. \A t \in toolRuns : \E g \in Of(stack', {"node", "chain"}) : g.id = t[3]
    BY <1>3 DEF IInv, ToolsOK
  <2>3. \A i \in 1 .. Len(nodes) :
          nodes'[i].tools = nodes[i].tools /\ nodes'[i].tool_calls = nodes[i].tool_calls
    BY <1>6
  <2>4. /\ UNCHANGED <<toolVars, asking>> /\ started' \in Nat /\ started <= started'
        /\ Types /\ RunsOK /\ ToolsOK
    BY <1>1 DEF IInv, toolVars
  <2>5. \A r \in 1 .. started' : r \notin 1 .. started =>
          \/ recordOf'[r] = 0
          \/ nodes'[recordOf'[r]].tools = {} /\ nodes'[recordOf'[r]].tool_calls = 0
    BY <1>11
  <2> QED
    BY <1>8, <2>1, <2>2, <2>3, <2>4, <2>5, ToolsKept
<1>14. DedupesOK' /\ PromptsOK'
  BY <1>3, DedupesKept, PromptsKept DEF IInv, overrideVars
<1> QED
  BY <1>2, <1>8, <1>9, <1>10, <1>12, <1>13, <1>14 DEF IInv

\* The runs of a stack that does not grow.
LEMMA RunsKept ==
    ASSUME Types, RunsOK, UNCHANGED <<started, runVars>>, Len(nodes') = Len(nodes),
           Len(stack') \in Nat, Len(stack') <= Len(stack),
           \A k \in 1 .. Len(stack') : stack'[k] = stack[k]
    PROVE  RunsOK'
<1>1. \A k \in 1 .. Len(stack') : k \in 1 .. Len(stack) /\ (k # 1 => stack'[k - 1] = stack[k - 1])
  BY DEF Types
<1>2. UNCHANGED <<started, parentOf, recordOf>>
  BY DEF runVars
<1>3. \A k \in 1 .. Len(stack') :
        /\ parentOf'[stack'[k].id] =
             IF k > 1 /\ stack'[k].kind \in {"node", "chain"} THEN stack'[k - 1].id ELSE 0
        /\ stack'[k].kind # "node" => recordOf'[stack'[k].id] = 0
  BY <1>1, <1>2 DEF RunsOK
<1> QED
  BY <1>2, <1>3 DEF RunsOK

\* on_chain_end and on_chain_error.
LEMMA ChainEndStep ==
    ASSUME IInv, ChainEnds
    PROVE  IInv'
<1> DEFINE top == Last(stack)
           mine(i) == <<top.id, i>> \in byRun
<1>1. /\ stack # <<>> /\ top.kind \in {"node", "chain"} /\ Pop /\ started' = started
      /\ UNCHANGED <<content, overrideVars, llmRuns, orphans, seen, runVars, toolVars, answered,
                     asking>>
      /\ \A t \in toolRuns : t[3] # Parent
      /\ nodes' = [i \in DOMAIN nodes |->
                     IF mine(i) THEN [nodes[i] EXCEPT !.status = "closed"] ELSE nodes[i]]
      /\ byRun' = {b \in byRun : b[1] # top.id}
      /\ openByName' = {o \in openByName : ~mine(o[2])}
      /\ left' \in {left, <<>>}
  BY DEF ChainEnds, Top, Close, Pop
<1>2. /\ Types /\ StackOK /\ RunsOK /\ RecordsOK /\ DedupesOK /\ PromptsOK /\ AnsweredOK /\ ToolsOK
  BY DEF IInv
<1>3. /\ StackOK'
      /\ stack' \in Seq(Frames) /\ Len(stack') = Len(stack) - 1
      /\ \A k \in 1 .. Len(stack') : stack'[k] = stack[k]
      /\ \A kinds : Of(stack', kinds) = Of(stack, kinds) \ {top}
      /\ \A f \in Of(stack, {"node", "chain", "call", "wrapped"}) : f.id = top.id => f = top
  BY <1>1, <1>2, StackShrinks
<1>4. \A g \in Open("node") :
        /\ g.kind = "node" /\ g.id \in 1 .. started
        /\ recordOf[g.id] # 0 /\ nodes[recordOf[g.id]].node = g.node
        /\ recordOf[g.id] \in 1 .. Len(nodes)
        /\ g.id = top.id => g = top
  <2>1. \A g \in Open("node") : g \in Of(stack, {"node", "chain", "call", "wrapped"})
    BY DEF Open, Of
  <2>2. \A g \in Open("node") : g.kind = "node" /\ g.id \in 1 .. started
    BY <1>2, FramesOfStack DEF Open
  <2> QED
    BY <1>2, <1>3, <2>1, <2>2 DEF RecordsOK, RunsOK
<1>5. top.kind = "node" => top \in Open("node")
  BY <1>1, <1>2, TopFrame DEF Open
<1> HIDE DEF top
<1>6. \A i : mine(i) <=> top.kind = "node" /\ i = recordOf[top.id]
  <2>1. byRun = {<<g.id, recordOf[g.id]>> : g \in Open("node")}
    BY <1>2 DEF RecordsOK
  <2> QED
    BY <1>4, <1>5, <2>1
<1>7. /\ Open("node")' = Open("node") \ {top} /\ Open("call")' = Open("call") \ {top}
      /\ Open("wrapped")' = Open("wrapped") \ {top}
  BY <1>3 DEF Open
<1>8. Open("call") = {} /\ Open("wrapped") = {}
  BY <1>1, <1>2, NoOpenCall DEF top
<1>9. /\ nodes' \in Seq(Records) /\ Len(nodes') = Len(nodes)
      /\ \A i \in 1 .. Len(nodes) :
           /\ nodes'[i].llm_calls = nodes[i].llm_calls /\ nodes'[i].node = nodes[i].node
           /\ nodes'[i].tools = nodes[i].tools /\ nodes'[i].tool_calls = nodes[i].tool_calls
           /\ nodes'[i].status = IF mine(i) THEN "closed" ELSE nodes[i].status
  <2>1. nodes \in Seq(Records) /\ Len(nodes) \in Nat /\ DOMAIN nodes = 1 .. Len(nodes)
        /\ \A i \in 1 .. Len(nodes) : nodes[i] \in Records
    BY <1>2 DEF Types
  <2> HIDE DEF mine
  <2>2. ASSUME NEW i \in 1 .. Len(nodes)
        PROVE  /\ nodes'[i] \in Records
               /\ nodes'[i].llm_calls = nodes[i].llm_calls /\ nodes'[i].node = nodes[i].node
               /\ nodes'[i].tools = nodes[i].tools /\ nodes'[i].tool_calls = nodes[i].tool_calls
               /\ nodes'[i].status = IF mine(i) THEN "closed" ELSE nodes[i].status
    BY <1>1, <2>1 DEF Records
  <2>3. nodes' \in Seq(Records) /\ Len(nodes') = Len(nodes)
    <3>1. Len(nodes) \in Nat /\ nodes' = [i \in 1 .. Len(nodes) |-> nodes'[i]]
      BY <1>1, <2>1
    <3> QED
      BY <2>2, <3>1, FunctionIsSeq
  <2> QED
    BY <2>2, <2>3
<1>10. Types'
  <2>1. left' \in Seq(NodeNames)
    <3>1. left \in Seq(NodeNames) /\ <<>> \in Seq(NodeNames)
      BY <1>2 DEF Types
    <3> QED
      BY <1>1, <3>1
  <2> QED
    BY <1>1, <1>2, <1>3, <1>9, <2>1 DEF Types, overrideVars, runVars, toolVars
<1>11. RunsOK'
  <2>1. Len(stack') \in Nat /\ Len(stack') <= Len(stack)
    BY <1>2, <1>3 DEF Types
  <2> QED
    BY <1>1, <1>2, <1>3, <1>9, <2>1, RunsKept
<1>12. RecordsOK'
  <2> DEFINE now == Open("node") \ {top}
  <2>1. recordOf' = recordOf
    BY <1>1 DEF runVars
  <2>2. byRun' = {<<g.id, recordOf[g.id]>> : g \in now}
    <3>1. byRun = {<<g.id, recordOf[g.id]>> : g \in Open("node")}
      BY <1>2 DEF RecordsOK
    <3>2. byRun' = {b \in {<<g.id, recordOf[g.id]>> : g \in Open("node")} : b[1] # top.id}
      BY <1>1, <3>1
    <3>3. \A g \in Open("node") : g.id # top.id <=> g \in now
      BY <1>4
    <3> QED
      BY <3>2, <3>3
  <2>3. openByName' = {<<g.node, recordOf[g.id]>> : g \in now}
    <3>1. openByName = {<<g.node, recordOf[g.id]>> : g \in Open("node")}
      BY <1>2 DEF RecordsOK
    <3>2. \A g \in Open("node") : mine(recordOf[g.id]) <=> g = top
      BY <1>2, <1>4, <1>5, <1>6 DEF RunsOK
    <3>3. \A g \in Open("node") : ~mine(recordOf[g.id]) <=> g \in now
      BY <3>2
    <3> HIDE DEF mine
    <3> QED
      BY <1>1, <3>1, <3>3
  <2>4. \A g \in now : recordOf[g.id] # 0 /\ nodes'[recordOf[g.id]].node = g.node
    BY <1>4, <1>9
  <2>5. ASSUME NEW i \in 1 .. Len(nodes')
        PROVE  nodes'[i].status = "closed" \/ \E g \in now : recordOf[g.id] = i
    <3>1. nodes[i].status = "closed" \/ \E g \in Open("node") : recordOf[g.id] = i
      BY <1>2, <1>9 DEF RecordsOK
    <3> HIDE DEF mine
    <3>2. CASE mine(i)
      BY <1>9, <3>2
    <3>3. CASE ~mine(i)
      BY <1>4, <1>6, <1>9, <3>1, <3>3
    <3> QED
      BY <3>2, <3>3
  <2>6. Open("node")' = now
    BY <1>7
  <2> HIDE DEF now
  <2> QED
    BY <2>1, <2>2, <2>3, <2>4, <2>5, <2>6 DEF RecordsOK
<1>13. recordOf' = recordOf /\ started \in Nat
  BY <1>1, <1>2 DEF runVars, Types
<1>14. AnsweredOK'
  BY <1>1, <1>2, <1>9, <1>13, AnsweredKept
<1>15. ToolsOK'
  <2>1. \A t \in toolRuns : \E g \in Of(stack', {"node", "chain"}) : g.id = t[3]
    <3>1. Parent = top.id
      BY <1>1 DEF Parent, top
    <3> QED
      BY <1>1, <1>2, <1>3, <3>1 DEF ToolsOK
  <2> QED
    BY <1>1, <1>2, <1>7, <1>8, <1>9, <1>13, <2>1, ToolsKept
<1>16. DedupesOK' /\ PromptsOK'
  <2>1. Open("call")' = Open("call") /\ Open("wrapped")' = Open("wrapped")
    BY <1>7, <1>8
  <2> QED
    BY <1>1, <1>2, <2>1, DedupesKept, PromptsKept DEF overrideVars
<1> QED
  BY <1>3, <1>10, <1>11, <1>12, <1>14, <1>15, <1>16 DEF IInv

----------------------------------------------------------------------------
(* Models                                                                  *)

\* The nodes whose tools grow: all of those around a call, the innermost one of those
\* around a wrapped call.
LEMMA OwnersOfCall ==
    ASSUME IInv, stack # <<>>, Last(stack).kind \in {"node", "chain", "call"}
    PROVE  /\ Owners(Last(stack).node, Parent) \subseteq {recordOf[g.id] : g \in Open("node")}
           /\ Last(stack).kind \in {"node", "chain"} =>
                Owners(Last(stack).node, Parent) = {recordOf[g.id] : g \in Open("node")}
<1> DEFINE top == Last(stack)
           open == {recordOf[g.id] : g \in Open("node")}
<1>1. Types /\ StackOK /\ RunsOK /\ RecordsOK
  BY DEF IInv
<1>2. /\ top \in Frames /\ top.id \in 1 .. started /\ Parent = top.id
      /\ Len(stack) \in 1 .. Len(stack) /\ top = stack[Len(stack)]
      /\ started \in Nat
  BY <1>1, TopFrame DEF Parent, Types
<1>3. PICK inner \in Open("node") :
        inner.node = top.node /\ inner.id <= top.id /\ \A g \in Open("node") : g.id <= inner.id
  BY <1>1, InnermostNode
<1>4. \A g \in Open("node") : g.id \in 1 .. started /\ g.id <= top.id
  <2>1. \A g \in Open("node") : g.id \in 1 .. started
    BY <1>1, FramesOfStack DEF Open
  <2> QED
    BY <1>2, <1>3, <2>1
<1>5. CASE top.kind \in {"node", "chain"}
  <2>1. top \in Of(stack, {"node", "chain"})
    BY <1>1, <1>5, TopFrame
  <2>2. RecordsFrom[top.id] = {recordOf[g.id] : g \in {g \in Open("node") : g.id <= top.id}}
    BY <1>1, <2>1, RecordsOfStack
  <2>3. RecordsFrom[top.id] = open
    BY <1>4, <2>2
  <2>4. open # {}
    BY <1>3
  <2> QED
    BY <1>2, <2>3, <2>4 DEF Owners
<1>6. CASE top.kind = "call"
  <2>1. recordOf[top.id] = 0 /\ parentOf[top.id] = 0
    BY <1>1, <1>2, <1>6 DEF RunsOK
  <2>2. RecordsFrom[top.id] = {}
    <3> DEFINE F == RecordsFrom
    <3>1. F = [run \in 0 .. started |->
                 IF run = 0 THEN {} ELSE ({recordOf[run]} \ {0}) \cup F[parentOf[run]]]
      BY <1>1, <1>2, RecordsFromIs DEF RunsOK
    <3> HIDE DEF F
    <3>2. 0 \in 0 .. started /\ top.id \in 0 .. started /\ top.id # 0
      BY <1>2
    <3>3. F[0] = {} /\ F[top.id] = ({recordOf[top.id]} \ {0}) \cup F[parentOf[top.id]]
      BY <3>1, <3>2
    <3> QED
      BY <2>1, <3>3 DEF F
  <2>3. openByName = {<<g.node, recordOf[g.id]>> : g \in Open("node")}
    BY <1>1 DEF RecordsOK
  <2>4. <<top.node, recordOf[inner.id]>> \in openByName
    BY <1>3, <2>3
  <2>5. Fallback(top.node) = {o[2] : o \in {o \in openByName : o[1] = top.node}}
    BY <2>4 DEF Fallback
  <2>6. {o[2] : o \in {o \in openByName : o[1] = top.node}} \subseteq open
    BY <2>3
  <2>7. Owners(top.node, Parent) = Fallback(top.node)
    BY <1>2, <2>2 DEF Owners
  <2> QED
    BY <1>6, <2>5, <2>6, <2>7
<1> QED
  BY <1>5, <1>6

\* What on_chat_model_start of both handlers has in common for a call and for a wrapped call.
LEMMA ModelStartStep ==
    ASSUME IInv, NEW f, Fits(f), f.kind \in {"call", "wrapped"}, stack # <<>>, Push(f),
           RegisterTools(f.node, Parent), NoChainStart, asking' = asking \cup Around,
           UNCHANGED <<byRun, openByName, orphans, left, toolVars, answered, overrides>>,
           content' \in Seq(Prompts), Len(content) <= Len(content'), Len(content') <= started',
           f.message \in 1 .. Len(content'), calls' \in 0 .. Len(content'),
           applied' \in 0 .. calls', DedupesOK', PromptsOK'
    PROVE  IInv'
<1> DEFINE owners == Owners(f.node, Parent)
           open == {recordOf[g.id] : g \in Open("node")}
<1>1. /\ started \in Nat /\ started' = started + 1 /\ started' \in 0 .. MaxRuns
      /\ stack \in Seq(Frames) /\ stack' = Append(stack, f) /\ stack' \in Seq(Frames)
      /\ f \in Frames /\ f.id = started + 1 /\ nodes \in Seq(Records) /\ Len(nodes) \in Nat
      /\ Len(content') \in Nat
  BY BoundsAssumption DEF IInv, Types, Push, Fits
<1>2. StackOK'
  BY <1>1, StackGrows DEF IInv
<1>3. /\ Open("node")' = Open("node")
      /\ Of(stack', {"node", "chain"}) = Of(stack, {"node", "chain"})
  <2>1. \A kinds : Of(stack', kinds) = Of(stack, kinds) \cup (IF f.kind \in kinds THEN {f} ELSE {})
    BY <1>1, OfAppend
  <2> QED
    BY <2>1 DEF Open
<1>4. /\ owners \subseteq open
      /\ f.kind = "call" => owners = open
      /\ f.kind = "wrapped" => Around \subseteq asking
  <2>1. /\ f.node = Last(stack).node /\ Last(stack).kind \in {"node", "chain", "call"}
        /\ f.kind = "call" => Last(stack).kind \in {"node", "chain"}
        /\ f.kind = "wrapped" => Last(stack).kind = "call"
    BY DEF Fits
  <2>2. f.kind = "wrapped" => Open("call") # {}
    BY <2>1, TopFrame DEF Open, IInv
  <2> QED
    BY <2>1, <2>2, OwnersOfCall DEF IInv, ToolsOK
<1>5. \A g \in Open("node") : /\ g.id \in 1 .. started /\ recordOf[g.id] # 0
                              /\ nodes[recordOf[g.id]].node = g.node
                              /\ recordOf[g.id] \in 1 .. Len(nodes)
  <2>1. \A g \in Open("node") : g.id \in 1 .. started
    BY FramesOfStack DEF IInv, Open
  <2> QED
    BY <2>1 DEF IInv, RunsOK, RecordsOK
<1>6. /\ nodes' \in Seq(Records) /\ Len(nodes') = Len(nodes)
      /\ \A i \in 1 .. Len(nodes) :
           /\ nodes'[i].llm_calls = nodes[i].llm_calls /\ nodes'[i].node = nodes[i].node
           /\ nodes'[i].status = nodes[i].status /\ nodes'[i].tool_calls = nodes[i].tool_calls
           /\ nodes'[i].tools = IF i \in owners THEN nodes[i].tools \cup Offered ELSE nodes[i].tools
  <2>1. /\ DOMAIN nodes = 1 .. Len(nodes) /\ \A i \in 1 .. Len(nodes) : nodes[i] \in Records
        /\ nodes' = [i \in DOMAIN nodes |->
                       IF i \in owners THEN [nodes[i] EXCEPT !.tools = @ \cup Offered] ELSE nodes[i]]
    BY <1>1 DEF RegisterTools
  <2> HIDE DEF owners
  <2>2. ASSUME NEW i \in 1 .. Len(nodes)
        PROVE  /\ nodes'[i] \in Records
               /\ nodes'[i].llm_calls = nodes[i].llm_calls /\ nodes'[i].node = nodes[i].node
               /\ nodes'[i].status = nodes[i].status /\ nodes'[i].tool_calls = nodes[i].tool_calls
               /\ nodes'[i].tools = IF i \in owners THEN nodes[i].tools \cup Offered
                                    ELSE nodes[i].tools
    BY <2>1 DEF Records
  <2>3. nodes' \in Seq(Records) /\ Len(nodes') = Len(nodes)
    <3>1. Len(nodes) \in Nat /\ nodes' = [i \in 1 .. Len(nodes) |-> nodes'[i]]
      BY <1>1, <2>1
    <3> QED
      BY <2>2, <3>1, FunctionIsSeq
  <2> QED
    BY <2>2, <2>3
<1> HIDE DEF owners
<1>7. /\ RunsOK'
      /\ parentOf' \in Seq(Nat) /\ Len(parentOf') = started'
      /\ recordOf' \in Seq(Nat) /\ Len(recordOf') = started'
      /\ \A r \in 1 .. started : recordOf'[r] = recordOf[r]
      /\ recordOf'[started + 1] = 0
  <2>1. 0 \in 0 .. started /\ 0 \in 0 .. Len(nodes') /\ Len(nodes') \in Nat /\ Len(nodes) <= Len(nodes')
    BY <1>1, <1>6
  <2>2. parentOf' = Append(parentOf, 0) /\ recordOf' = Append(recordOf, 0)
    BY DEF NoChainStart
  <2>3. 0 = IF stack # <<>> /\ f.kind \in {"node", "chain"} THEN Last(stack).id ELSE 0
    OBVIOUS
  <2> QED
    BY <1>1, <2>1, <2>2, <2>3, RunsGrow DEF IInv
<1>8. Types'
  BY <1>1, <1>6, <1>7 DEF IInv, Types, toolVars
<1>9. RecordsOK'
  <2>1. \A g \in Open("node") : recordOf'[g.id] = recordOf[g.id]
    BY <1>5, <1>7
  <2>2. byRun' = {<<g.id, recordOf'[g.id]>> : g \in Open("node")}
    BY <2>1 DEF IInv, RecordsOK
  <2>3. openByName' = {<<g.node, recordOf'[g.id]>> : g \in Open("node")}
    BY <2>1 DEF IInv, RecordsOK
  <2>4. ASSUME NEW g \in Open("node")
        PROVE  recordOf'[g.id] # 0 /\ nodes'[recordOf'[g.id]].node = g.node
    <3>1. recordOf[g.id] # 0 /\ nodes[recordOf[g.id]].node = g.node
          /\ recordOf[g.id] \in 1 .. Len(nodes)
      BY <1>5
    <3> QED
      BY <1>6, <2>1, <3>1
  <2>5. ASSUME NEW i \in 1 .. Len(nodes')
        PROVE  nodes'[i].status = "closed" \/ \E g \in Open("node") : recordOf'[g.id] = i
    <3>1. i \in 1 .. Len(nodes) /\ nodes'[i].status = nodes[i].status
      BY <1>6
    <3>2. nodes[i].status = "closed" \/ \E g \in Open("node") : recordOf[g.id] = i
      BY <3>1 DEF IInv, RecordsOK
    <3> QED
      BY <2>1, <3>1, <3>2
  <2> QED
    BY <1>3, <2>2, <2>3, <2>4, <2>5 DEF RecordsOK
<1>10. \A r \in 1 .. started' : r \notin 1 .. started => recordOf'[r] = 0
  <2>1. \A r \in 1 .. started' : r \notin 1 .. started => r = started + 1
    BY <1>1
  <2> QED
    BY <1>7, <2>1
<1>11. AnsweredOK'
  <2>1. Types /\ RunsOK /\ AnsweredOK /\ UNCHANGED <<orphans, answered>>
        /\ started' \in Nat /\ started <= started'
    BY <1>1 DEF IInv
  <2> QED
    BY <1>6, <1>7, <1>10, <2>1, AnsweredKept
<1>12. ToolsOK'
  <2>1. Around = {g.id : g \in Open("node")} /\ Around' = Around
    <3>1. Around = {g.id : g \in Open("node")}
      BY AroundIs DEF IInv
    <3>2. Around' = {g.id : g \in Open("node")'}
      <4>1. DOMAIN stack' = 1 .. Len(stack')
        BY <1>1
      <4> QED
        BY <4>1 DEF Around, Open, Of
    <3> QED
      BY <1>3, <3>1, <3>2
  <2>2. Around \subseteq 1 .. started
    BY <1>5, <2>1
  <2>3. \A r : UsedIn(r)' = UsedIn(r)
    BY DEF UsedIn, toolVars
  <2>4. ASSUME NEW r \in 1 .. started', recordOf'[r] # 0
        PROVE  /\ nodes'[recordOf'[r]].tool_calls = Cardinality(UsedIn(r))
               /\ nodes'[recordOf'[r]].tools = (IF r \in asking' THEN Offered ELSE {})
                                                 \cup (IF UsedIn(r) # {} THEN {Tool} ELSE {})
    <3> DEFINE i == recordOf[r]
               used_ == IF UsedIn(r) # {} THEN {Tool} ELSE {}
    <3>1. r \in 1 .. started /\ recordOf'[r] = i
      BY <1>7, <1>10, <2>4
    <3>2. i \in 1 .. Len(nodes) /\ i # 0
      BY <2>4, <3>1 DEF IInv, RunsOK
    <3>3. /\ nodes[i].tool_calls = Cardinality(UsedIn(r))
          /\ nodes[i].tools = (IF r \in asking THEN Offered ELSE {}) \cup used_
      BY <3>1, <3>2 DEF IInv, ToolsOK
    <3>4. r \in Around <=> i \in open
      <4>1. \A g \in Open("node") : recordOf[g.id] = i => g.id = r
        BY <1>5, <3>1, <3>2 DEF IInv, RunsOK
      <4> QED
        BY <2>1, <4>1
    <3>5. asking' = asking \cup Around
      OBVIOUS
    <3>6. nodes'[i].tool_calls = nodes[i].tool_calls
          /\ nodes'[i].tools = IF i \in owners THEN nodes[i].tools \cup Offered ELSE nodes[i].tools
      BY <1>6, <3>2
    <3> HIDE DEF i, used_, open
    <3>7. nodes'[i].tools = (IF r \in asking' THEN Offered ELSE {}) \cup used_
      <4>1. CASE i \in owners
        BY <1>4, <3>3, <3>4, <3>5, <3>6, <4>1
      <4>2. CASE i \notin owners
        BY <1>4, <3>3, <3>4, <3>5, <3>6, <4>2
      <4> QED
        BY <4>1, <4>2
    <3> QED
      BY <3>1, <3>3, <3>6, <3>7 DEF used_
  <2>5. /\ orphanTools' = 0 /\ asking' \subseteq 1 .. started'
        /\ \A k \in 1 .. Len(used') : used'[k] \subseteq 1 .. started'
    BY <1>1, <2>2 DEF IInv, ToolsOK, toolVars
  <2>6. \A t \in toolRuns' : \E g \in Of(stack', {"node", "chain"}) : g.id = t[3]
    BY <1>3 DEF IInv, ToolsOK, toolVars
  <2> QED
    BY <2>1, <2>3, <2>4, <2>5, <2>6 DEF ToolsOK
<1> QED
  BY <1>2, <1>7, <1>8, <1>9, <1>11, <1>12 DEF IInv

LEMMA ChangedIsFinite ==
    ASSUME Types
    PROVE  IsFiniteSet(Changed) /\ Cardinality(Changed) \in Nat
<1>1. Len(answered) \in Nat /\ Changed \subseteq 1 .. Len(answered)
  BY DEF Types, Changed
<1>2. IsFiniteSet(1 .. Len(answered))
  BY <1>1, FS_Interval
<1>3. IsFiniteSet(Changed)
  BY <1>1, <1>2, FS_Subset
<1> QED
  BY <1>3, FS_CardinalityType

\* A text that replaces another one is a text.
LEMMA WantedIsPrompt ==
    ASSUME Types, NEW c, NEW prompt \in Prompts
    PROVE  Wanted(c, prompt) \in Prompts
BY DEF Types, Wanted, Prompts

\* A call is new to both handlers: it gets its text, and it is counted.
LEMMA CallStartStep ==
    ASSUME IInv, CallStarts
    PROVE  IInv'
<1> DEFINE message == Len(content) + 1
           f == Run("call", "model", Last(stack).node, message)
           text == IF f.node = Edited THEN Wanted(calls, Original) ELSE Original
           prompts == Append(content, Original)
<1>1. /\ Types /\ StackOK /\ DedupesOK /\ PromptsOK
      /\ stack # <<>> /\ Last(stack).kind \in {"node", "chain"} /\ Push(f)
      /\ OverrideStart(started + 1, f.node, message, prompts)
      /\ TrackerStart(started + 1, f.node, Parent, message)
      /\ asking' = asking \cup Around /\ UNCHANGED <<left, toolVars, answered>>
  BY DEF IInv, CallStarts, ModelStarts, Top, Run
<1>2. /\ f.kind = "call" /\ f.id = started + 1 /\ f.node = Last(stack).node /\ f.message = message
      /\ started \in Nat /\ Len(content) \in Nat /\ content \in Seq(Prompts) /\ calls \in Nat
      /\ applied \in Nat /\ stack \in Seq(Frames)
  BY <1>1 DEF Run, Types
<1>3. f \in Frames /\ started' = started + 1 /\ stack' = Append(stack, f) /\ started < MaxRuns
  <2>1. Last(stack).node \in NodeNames /\ started + 1 \in 1 .. MaxRuns
    BY <1>1, <1>2, TopFrame, BoundsAssumption DEF Push, Frames
  <2> QED
    BY <1>1, <1>2, <2>1 DEF Push, Run, Frames
<1>4. Fits(f)
  BY <1>1, <1>2, <1>3 DEF Fits
<1>5. Open("call") = {} /\ Open("wrapped") = {}
  BY <1>1, NoOpenCall
<1>6. Open("call")' = {f} /\ Open("wrapped")' = {}
  <2>1. \A kinds : Of(stack', kinds) = Of(stack, kinds) \cup (IF f.kind \in kinds THEN {f} ELSE {})
    BY <1>2, <1>3, OfAppend
  <2> QED
    BY <1>2, <1>5, <2>1 DEF Open
<1>7. seen = NoRuns /\ known = NoRuns /\ llmRuns = {}
  BY <1>1, <1>5 DEF DedupesOK, Dedupe, InEdited, NoRuns
<1>8. prompts \in Seq(Prompts) /\ Len(prompts) = message /\ prompts[message] = Original
      /\ message \in 1 .. message
  <2>1. Original \in Prompts
    BY DEF Prompts
  <2> QED
    BY <1>2, <2>1
<1> HIDE DEF f, message, prompts
<1>9. /\ content' = [prompts EXCEPT ![message] = text]
      /\ calls' = IF f.node = Edited THEN calls + 1 ELSE calls
      /\ applied' = IF text # Original THEN applied + 1 ELSE applied
      /\ known' = IF f.node = Edited THEN DedupeStart(known, f.id, <<Edited, message>>) ELSE known
      /\ overrides' = overrides
  <2>1. ~IsDuplicate(known, <<Edited, message>>)
    BY <1>7 DEF IsDuplicate, NoRuns
  <2>2. Wanted(calls, prompts[message]) = Wanted(calls, Original)
    BY <1>8
  <2> QED
    BY <1>1, <1>2, <1>8, <2>1, <2>2 DEF OverrideStart
<1>10. text \in Prompts /\ (f.node # Edited => text = Original)
  <2>1. Original \in Prompts
    BY DEF Prompts
  <2> QED
    BY <1>1, <2>1, WantedIsPrompt
<1> HIDE DEF text
<1>11. content' \in Seq(Prompts) /\ Len(content') = message /\ content'[message] = text
  BY <1>8, <1>9, <1>10
<1>12. DedupesOK'
  <2>1. /\ seen' = Dedupe({f}, {})
        /\ llmRuns' = {<<f.id, [node |-> f.node, prompt |-> content'[f.message]]>>}
    <3>1. ~IsDuplicate(seen, <<f.node, message>>)
      BY <1>7 DEF IsDuplicate, NoRuns
    <3> QED
      BY <1>1, <1>2, <1>7, <3>1 DEF TrackerStart, DedupeStart, NoRuns, Dedupe
  <2>2. known' = IF f.node = Edited THEN Dedupe({f}, {}) ELSE Dedupe({}, {})
    <3>1. ~IsDuplicate(known, <<Edited, message>>)
      BY <1>7 DEF IsDuplicate, NoRuns
    <3>2. f.node = Edited => DedupeStart(known, f.id, <<Edited, message>>) = Dedupe({f}, {})
      BY <1>2, <1>7, <3>1 DEF DedupeStart, NoRuns, Dedupe
    <3> QED
      BY <1>7, <1>9, <3>2 DEF NoRuns, Dedupe
  <2>3. /\ InEdited(Open("call")') = IF f.node = Edited THEN {f} ELSE {}
        /\ InEdited(Open("wrapped")') = {}
    BY <1>6 DEF InEdited
  <2> QED
    BY <1>6, <2>1, <2>2, <2>3 DEF DedupesOK
<1>13. PromptsOK'
  <2>1. EditedCalls' = EditedCalls /\ Changed' = Changed
    BY <1>1 DEF EditedCalls, Changed
  <2>2. ASSUME NEW c PROVE Wanted(c, Original)' = Wanted(c, Original)
    BY <1>9 DEF Wanted
  <2>3. /\ Len(EditedCalls) = calls - 0 /\ applied = Cardinality(Changed) + 0
        /\ \A k \in 1 .. Len(EditedCalls) : EditedCalls[k].entry.prompt = Wanted(k - 1, Original)
    BY <1>1, <1>5 DEF PromptsOK
  <2>4. f.node = Edited => calls' - 1 = calls /\ text = Wanted(calls' - 1, Original)
    BY <1>2, <1>9 DEF text
  <2>5. content'[f.message] =
          IF f.node = Edited THEN Wanted(calls' - 1, Original) ELSE Original
    BY <1>2, <1>10, <1>11, <2>4
  <2>6. Len(EditedCalls) = calls' - (IF f.node = Edited THEN 1 ELSE 0)
    BY <1>2, <1>9, <2>3
  <2>7. applied' = Cardinality(Changed) + (IF content'[f.message] # Original THEN 1 ELSE 0)
    <3>1. Cardinality(Changed) \in Nat
      BY <1>1, ChangedIsFinite
    <3> QED
      BY <1>2, <1>9, <1>11, <2>3, <3>1
  <2>8. Wanted(calls - 1, Original)' = Wanted(calls' - 1, Original)
    BY <1>9 DEF Wanted
  <2> QED
    BY <1>6, <2>1, <2>2, <2>3, <2>5, <2>6, <2>7, <2>8 DEF PromptsOK
<1>14. calls' \in 0 .. Len(content') /\ applied' \in 0 .. calls'
  <2>1. calls \in 0 .. Len(content) /\ applied \in 0 .. calls
    BY <1>1 DEF Types
  <2> QED
    BY <1>2, <1>9, <1>10, <1>11, <2>1 DEF message
<1>15. /\ Len(content) <= Len(content') /\ Len(content') <= started'
       /\ f.message \in 1 .. Len(content')
  <2>1. Len(content) <= started
    BY <1>1 DEF Types
  <2> QED
    BY <1>2, <1>3, <1>11, <2>1 DEF message
<1>16. /\ RegisterTools(f.node, Parent) /\ NoChainStart
       /\ UNCHANGED <<byRun, openByName, orphans>>
  BY <1>1 DEF TrackerStart
<1> QED
  BY <1>1, <1>2, <1>4, <1>9, <1>11, <1>12, <1>13, <1>14, <1>15, <1>16, ModelStartStep

LEMMA DuplicateIsAdded ==
    ASSUME NEW C, NEW W, NEW f
    PROVE  [Dedupe(C, W) EXCEPT !.duplicates = @ \cup {f.id}] = Dedupe(C, W \cup {f})
<1> DEFINE open == {[key |-> <<g.node, g.message>>, run |-> g.id] : g \in C}
           ids == {g.id : g \in W}
<1>1. {g.id : g \in W \cup {f}} = ids \cup {f.id}
  OBVIOUS
<1>2. /\ Dedupe(C, W) = [open |-> open, duplicates |-> ids]
      /\ Dedupe(C, W \cup {f}) = [open |-> open, duplicates |-> ids \cup {f.id}]
  BY <1>1 DEF Dedupe
<1> HIDE DEF open, ids
<1> QED
  BY <1>2

\* A wrapped call is a duplicate for both handlers.
LEMMA WrappedCallStartStep ==
    ASSUME IInv, WrappedCallStarts
    PROVE  IInv'
<1> DEFINE top == Last(stack)
           f == Run("wrapped", "model", top.node, top.message)
<1>1. /\ Types /\ StackOK /\ DedupesOK /\ PromptsOK
      /\ stack # <<>> /\ top.kind = "call" /\ Push(f)
      /\ OverrideStart(started + 1, f.node, top.message, content)
      /\ TrackerStart(started + 1, f.node, Parent, top.message)
      /\ asking' = asking \cup Around /\ UNCHANGED <<left, toolVars, answered>>
  BY DEF IInv, WrappedCallStarts, ModelStarts, Top, Run
<1>2. /\ f.kind = "wrapped" /\ f.id = started + 1 /\ f.node = top.node /\ f.message = top.message
      /\ started \in Nat /\ Len(content) \in Nat /\ content \in Seq(Prompts)
      /\ stack \in Seq(Frames)
  BY <1>1 DEF Run, Types
<1>3. top \in Open("call") /\ top \in Frames /\ top.message \in 1 .. Len(content)
  <2>1. top \in Open("call")
    BY <1>1, TopFrame DEF Open
  <2> QED
    BY <1>1, <2>1, FramesOfStack DEF Open
<1>4. f \in Frames /\ started' = started + 1 /\ stack' = Append(stack, f)
  <2>1. top.node \in NodeNames /\ started + 1 \in 1 .. MaxRuns /\ top.message \in Nat
    BY <1>1, <1>2, <1>3, BoundsAssumption DEF Push, Frames
  <2> QED
    BY <1>1, <1>2, <2>1 DEF Push, Run, Frames
<1>5. Fits(f)
  BY <1>1, <1>2, <1>4 DEF Fits
<1>6. Open("call")' = Open("call") /\ Open("wrapped")' = Open("wrapped") \cup {f}
  <2>1. \A kinds : Of(stack', kinds) = Of(stack, kinds) \cup (IF f.kind \in kinds THEN {f} ELSE {})
    BY <1>2, <1>4, OfAppend
  <2> QED
    BY <1>2, <2>1 DEF Open
<1> HIDE DEF f, top
<1>7. IsDuplicate(seen, <<f.node, top.message>>)
  <2>1. [key |-> <<top.node, top.message>>, run |-> top.id] \in seen.open
    BY <1>1, <1>3 DEF DedupesOK, Dedupe
  <2> QED
    BY <1>2, <2>1 DEF IsDuplicate
<1>8. f.node = Edited => IsDuplicate(known, <<Edited, top.message>>)
  <2> SUFFICES ASSUME f.node = Edited PROVE IsDuplicate(known, <<Edited, top.message>>)
    OBVIOUS
  <2>1. top \in InEdited(Open("call"))
    BY <1>2, <1>3 DEF InEdited
  <2>2. [key |-> <<top.node, top.message>>, run |-> top.id] \in known.open
    BY <1>1, <2>1 DEF DedupesOK, Dedupe
  <2>3. top.node = Edited
    BY <1>2
  <2> QED
    BY <2>2, <2>3 DEF IsDuplicate
<1>9. /\ content' = content /\ calls' = calls /\ applied' = applied /\ overrides' = overrides
      /\ known' = IF f.node = Edited THEN [known EXCEPT !.duplicates = @ \cup {f.id}] ELSE known
  <2>1. [content EXCEPT ![top.message] = content[top.message]] = content
    BY <1>2, <1>3
  <2> QED
    BY <1>1, <1>2, <1>8, <2>1 DEF OverrideStart, DedupeStart
<1>10. seen' = [seen EXCEPT !.duplicates = @ \cup {f.id}] /\ llmRuns' = llmRuns
  BY <1>1, <1>2, <1>7 DEF TrackerStart, DedupeStart
<1>11. DedupesOK'
  <2>1. /\ InEdited(Open("wrapped")')
             = InEdited(Open("wrapped")) \cup (IF f.node = Edited THEN {f} ELSE {})
        /\ InEdited(Open("call")') = InEdited(Open("call"))
    BY <1>6 DEF InEdited
  <2>2. seen' = Dedupe(Open("call"), Open("wrapped") \cup {f})
    BY <1>1, <1>10, DuplicateIsAdded DEF DedupesOK
  <2>3. known' = Dedupe(InEdited(Open("call")'), InEdited(Open("wrapped")'))
    <3>1. CASE f.node = Edited
      BY <1>1, <1>9, <2>1, <3>1, DuplicateIsAdded DEF DedupesOK
    <3>2. CASE f.node # Edited
      BY <1>1, <1>9, <2>1, <3>2 DEF DedupesOK
    <3> QED
      BY <3>1, <3>2
  <2>6. llmRuns' = {<<g.id, [node |-> g.node, prompt |-> content'[g.message]]>> :
                      g \in Open("call")'}
    BY <1>1, <1>6, <1>9, <1>10 DEF DedupesOK
  <2> QED
    BY <1>6, <2>2, <2>3, <2>6 DEF DedupesOK
<1>12. PromptsOK'
  <2>1. EditedCalls' = EditedCalls /\ Changed' = Changed
    BY <1>1 DEF EditedCalls, Changed
  <2>2. ASSUME NEW c PROVE Wanted(c, Original)' = Wanted(c, Original)
    BY <1>9 DEF Wanted
  <2>3. Wanted(calls - 1, Original)' = Wanted(calls - 1, Original)
    BY <1>9 DEF Wanted
  <2> QED
    BY <1>1, <1>6, <1>9, <2>1, <2>2, <2>3 DEF PromptsOK
<1>13. /\ content' \in Seq(Prompts) /\ Len(content) <= Len(content') /\ Len(content') <= started'
       /\ f.message \in 1 .. Len(content') /\ calls' \in 0 .. Len(content') /\ applied' \in 0 .. calls'
  <2>1. /\ calls \in 0 .. Len(content) /\ applied \in 0 .. calls /\ Len(content) <= started
    BY <1>1 DEF Types
  <2> QED
    BY <1>2, <1>3, <1>4, <1>9, <2>1
<1>14. /\ RegisterTools(f.node, Parent) /\ NoChainStart
       /\ UNCHANGED <<byRun, openByName, orphans>>
  BY <1>1 DEF TrackerStart
<1> QED
  BY <1>1, <1>2, <1>5, <1>9, <1>11, <1>12, <1>13, <1>14, ModelStartStep

\* finish forgets the call, or the duplicate.
LEMMA DedupeFinishIs ==
    ASSUME NEW C, NEW W, NEW f, \A g \in C \cup W : g.id = f.id => g = f, f \notin C \/ f \notin W
    PROVE  DedupeFinish(Dedupe(C, W), f.id) = Dedupe(C \ {f}, W \ {f})
<1> DEFINE d == Dedupe(C, W)
<1>1. /\ d.open = {[key |-> <<g.node, g.message>>, run |-> g.id] : g \in C}
      /\ d.duplicates = {g.id : g \in W}
      /\ d = [open |-> d.open, duplicates |-> d.duplicates]
  BY DEF Dedupe
<1> HIDE DEF d
<1>2. CASE f \in W
  <2>1. f.id \in d.duplicates /\ C \ {f} = C
    BY <1>1, <1>2
  <2>2. d.duplicates \ {f.id} = {g.id : g \in W \ {f}}
    BY <1>1, <1>2
  <2>3. DedupeFinish(d, f.id) = [open |-> d.open, duplicates |-> d.duplicates \ {f.id}]
    BY <1>1, <2>1 DEF DedupeFinish
  <2> QED
    BY <1>1, <2>1, <2>2, <2>3 DEF Dedupe, d
<1>3. CASE f \notin W
  <2>1. f.id \notin d.duplicates /\ W \ {f} = W
    BY <1>1, <1>3
  <2>2. {p \in d.open : p.run # f.id}
          = {[key |-> <<g.node, g.message>>, run |-> g.id] : g \in C \ {f}}
    BY <1>1
  <2>3. DedupeFinish(d, f.id)
          = [open |-> {p \in d.open : p.run # f.id}, duplicates |-> d.duplicates]
    BY <1>1, <2>1 DEF DedupeFinish
  <2> QED
    BY <1>1, <2>1, <2>2, <2>3 DEF Dedupe, d
<1> QED
  BY <1>2, <1>3

\* The open records, when the step changes neither them nor the nodes on the stack.
LEMMA RecordsKept ==
    ASSUME Types, StackOK, RunsOK, RecordsOK, UNCHANGED <<byRun, openByName, recordOf>>,
           Open("node")' = Open("node"), Len(nodes') = Len(nodes),
           \A i \in 1 .. Len(nodes) :
             nodes'[i].node = nodes[i].node /\ nodes'[i].status = nodes[i].status
    PROVE  RecordsOK'
<1>1. \A g \in Open("node") : recordOf[g.id] # 0 /\ recordOf[g.id] \in 1 .. Len(nodes)
  <2>1. \A g \in Open("node") : g.id \in 1 .. started
    BY FramesOfStack DEF Open
  <2> QED
    BY <2>1 DEF RunsOK, RecordsOK
<1>2. \A g \in Open("node") : recordOf'[g.id] # 0 /\ nodes'[recordOf'[g.id]].node = g.node
  BY <1>1 DEF RecordsOK
<1>3. \A i \in 1 .. Len(nodes') :
        nodes'[i].status = "closed" \/ \E g \in Open("node") : recordOf'[g.id] = i
  BY DEF RecordsOK
<1>4. /\ byRun' = {<<g.id, recordOf'[g.id]>> : g \in Open("node")}
      /\ openByName' = {<<g.node, recordOf'[g.id]>> : g \in Open("node")}
  BY DEF RecordsOK
<1> QED
  BY <1>2, <1>3, <1>4 DEF RecordsOK

\* What on_llm_end and on_llm_error of both handlers have in common for a call and for a
\* wrapped call.
LEMMA ModelEndStep ==
    ASSUME IInv, NEW failed \in BOOLEAN, ModelEnds(failed), stack # <<>>,
           Last(stack).kind \in {"call", "wrapped"}, nodes' \in Seq(Records),
           Len(nodes') = Len(nodes),
           \A i \in 1 .. Len(nodes) :
             /\ nodes'[i].node = nodes[i].node /\ nodes'[i].status = nodes[i].status
             /\ nodes'[i].tools = nodes[i].tools /\ nodes'[i].tool_calls = nodes[i].tool_calls
    PROVE  /\ StackOK' /\ RunsOK' /\ RecordsOK' /\ ToolsOK'
           /\ answered' \in Seq(Answers) => Types'
           /\ \A kinds : Of(stack', kinds) = Of(stack, kinds) \ {Last(stack)}
           /\ seen' = Dedupe(Open("call")', Open("wrapped")')
           /\ known' = Dedupe(InEdited(Open("call")'), InEdited(Open("wrapped")'))
<1> DEFINE top == Last(stack)
<1>1. /\ UNCHANGED <<overrides, calls, applied, byRun, openByName, left, content, runVars, toolVars,
                     asking>>
      /\ Pop /\ started' = started
      /\ known' = DedupeFinish(known, top.id) /\ seen' = DedupeFinish(seen, top.id)
  BY DEF ModelEnds, OverrideEnd, TrackerEnd, Pop
<1>2. Types /\ StackOK /\ RunsOK /\ RecordsOK /\ DedupesOK /\ PromptsOK /\ AnsweredOK /\ ToolsOK
  BY DEF IInv
<1>3. /\ StackOK'
      /\ stack' \in Seq(Frames) /\ Len(stack') = Len(stack) - 1
      /\ \A k \in 1 .. Len(stack') : stack'[k] = stack[k]
      /\ \A kinds : Of(stack', kinds) = Of(stack, kinds) \ {top}
      /\ \A f \in Of(stack, {"node", "chain", "call", "wrapped"}) : f.id = top.id => f = top
  BY <1>1, <1>2, StackShrinks
<1>4. /\ Open("node")' = Open("node") /\ Open("call")' = Open("call") \ {top}
      /\ Open("wrapped")' = Open("wrapped") \ {top}
      /\ Of(stack', {"node", "chain"}) = Of(stack, {"node", "chain"})
  <2>1. top \notin Open("node") /\ top \notin Of(stack, {"node", "chain"})
    BY DEF Open, Of
  <2>2. \A kind : Open(kind)' = Open(kind) \ {top}
    BY <1>3 DEF Open
  <2>3. Open("node") \ {top} = Open("node")
        /\ Of(stack, {"node", "chain"}) \ {top} = Of(stack, {"node", "chain"})
    BY <2>1
  <2> QED
    BY <1>3, <2>2, <2>3
<1>5. RunsOK'
  <2>1. Len(stack') \in Nat /\ Len(stack') <= Len(stack)
    BY <1>2, <1>3 DEF Types
  <2> QED
    BY <1>1, <1>2, <1>3, <2>1, RunsKept
<1>6. RecordsOK'
  <2>1. UNCHANGED <<byRun, openByName, recordOf>>
    BY <1>1 DEF runVars
  <2> QED
    BY <1>2, <1>4, <2>1, RecordsKept
<1>7. ToolsOK'
  <2>1. \A t \in toolRuns : \E g \in Of(stack', {"node", "chain"}) : g.id = t[3]
    BY <1>2, <1>4 DEF ToolsOK
  <2>2. recordOf' = recordOf /\ started \in Nat
    BY <1>1, <1>2 DEF runVars, Types
  <2>3. Around' = Around
    <3>1. Around = {g.id : g \in Open("node")}
      BY <1>2, AroundIs
    <3>2. DOMAIN stack' = 1 .. Len(stack')
      BY <1>3
    <3>3. Around' = {g.id : g \in Open("node")'}
      BY <3>2 DEF Around, Open, Of
    <3> QED
      BY <1>4, <3>1, <3>3
  <2>4. Open("call")' # {} => Around' \subseteq asking
    BY <1>2, <1>4, <2>3 DEF ToolsOK
  <2> QED
    BY <1>1, <1>2, <2>1, <2>2, <2>4, ToolsKept
<1>8. answered' \in Seq(Answers) => Types'
  BY <1>1, <1>2, <1>3 DEF Types, runVars, toolVars
<1>9. \A g \in Open("call") \cup Open("wrapped") : g.id = top.id => g = top
  <2>1. \A g \in Open("call") \cup Open("wrapped") : g \in Of(stack, {"node", "chain", "call", "wrapped"})
    BY DEF Open, Of
  <2> QED
    BY <1>3, <2>1
<1>10. top \notin Open("call") \/ top \notin Open("wrapped")
  BY DEF Open, Of
<1> HIDE DEF top
<1>11. seen' = Dedupe(Open("call")', Open("wrapped")')
  BY <1>1, <1>2, <1>4, <1>9, <1>10, DedupeFinishIs DEF DedupesOK
<1>12. known' = Dedupe(InEdited(Open("call")'), InEdited(Open("wrapped")'))
  <2> DEFINE C == InEdited(Open("call"))
             W == InEdited(Open("wrapped"))
  <2>1. (\A g \in C \cup W : g.id = top.id => g = top) /\ (top \notin C \/ top \notin W)
    BY <1>9, <1>10 DEF InEdited
  <2>2. InEdited(Open("call")') = C \ {top} /\ InEdited(Open("wrapped")') = W \ {top}
    BY <1>4 DEF InEdited
  <2>3. known' = DedupeFinish(Dedupe(C, W), top.id)
    BY <1>1, <1>2 DEF DedupesOK
  <2> HIDE DEF C, W
  <2> QED
    BY <2>1, <2>2, <2>3, DedupeFinishIs
<1> QED
  BY <1>3, <1>5, <1>6, <1>7, <1>8, <1>11, <1>12 DEF top

\* A wrapped call that ends is recorded nowhere.
LEMMA WrappedCallEndStep ==
    ASSUME IInv, WrappedCallEnds
    PROVE  IInv'
<1> DEFINE top == Last(stack)
<1>1. PICK failed \in BOOLEAN : ModelEnds(failed)
  BY DEF WrappedCallEnds
<1>2. stack # <<>> /\ top.kind = "wrapped" /\ answered' = answered
  BY DEF WrappedCallEnds, Top
<1>3. Types /\ StackOK /\ RunsOK /\ DedupesOK /\ PromptsOK /\ AnsweredOK
  BY DEF IInv
<1>4. UNCHANGED <<nodes, llmRuns, orphans>>
  <2>1. top \in Open("wrapped")
    BY <1>2, <1>3, TopFrame DEF Open
  <2>2. top.id \in seen.duplicates
    BY <1>3, <2>1 DEF DedupesOK, Dedupe
  <2> QED
    BY <1>1, <2>2 DEF ModelEnds, TrackerEnd
<1>5. nodes' \in Seq(Records) /\ answered' \in Seq(Answers)
  BY <1>2, <1>3, <1>4 DEF Types
<1>6. /\ StackOK' /\ RunsOK' /\ RecordsOK' /\ ToolsOK' /\ Types'
      /\ \A kinds : Of(stack', kinds) = Of(stack, kinds) \ {top}
      /\ seen' = Dedupe(Open("call")', Open("wrapped")')
      /\ known' = Dedupe(InEdited(Open("call")'), InEdited(Open("wrapped")'))
  BY <1>1, <1>2, <1>4, <1>5, ModelEndStep
<1>7. UNCHANGED <<content, overrides, calls, applied, started, recordOf>>
  BY <1>1 DEF ModelEnds, OverrideEnd, Pop, runVars
<1>8. Open("call")' = Open("call")
  <2>1. top \notin Open("call")
    BY <1>2 DEF Open, Of
  <2> QED
    BY <1>6, <2>1 DEF Open
<1>9. DedupesOK'
  BY <1>3, <1>4, <1>6, <1>7, <1>8 DEF DedupesOK
<1>10. PromptsOK'
  <2>1. EditedCalls' = EditedCalls /\ Changed' = Changed
    BY <1>2 DEF EditedCalls, Changed
  <2>2. ASSUME NEW c PROVE Wanted(c, Original)' = Wanted(c, Original)
    BY <1>7 DEF Wanted
  <2>3. Wanted(calls - 1, Original)' = Wanted(calls - 1, Original)
    BY <1>7 DEF Wanted
  <2> QED
    BY <1>3, <1>7, <1>8, <2>1, <2>2, <2>3 DEF PromptsOK
<1>11. AnsweredOK'
  <2>1. started \in Nat
    BY <1>3 DEF Types
  <2> QED
    BY <1>2, <1>3, <1>4, <1>7, <2>1, AnsweredKept
<1> QED
  BY <1>6, <1>9, <1>10, <1>11 DEF IInv

\* The only call on the stack.
LEMMA OnlyCall ==
    ASSUME Types, StackOK, stack # <<>>, Last(stack).kind = "call"
    PROVE  Open("call") = {Last(stack)} /\ Open("wrapped") = {}
<1>1. Len(stack) \in 1 .. Len(stack) /\ Last(stack) = stack[Len(stack)]
  BY TopFrame
<1>2. ASSUME NEW k \in 1 .. Len(stack), k # Len(stack) PROVE stack[k].kind \in {"node", "chain"}
  <2>1. k < Len(stack)
    BY <1>1, <1>2
  <2>2. Below(k, Len(stack))
    BY <1>1, <2>1 DEF StackOK
  <2> QED
    BY <1>1, <2>2 DEF Below
<1> QED
  BY <1>1, <1>2 DEF Open, Of

\* A call that ends goes into the record of the innermost node.
LEMMA CallEndStep ==
    ASSUME IInv, CallEnds
    PROVE  IInv'
<1> DEFINE top == Last(stack)
<1>1. PICK failed \in BOOLEAN :
        /\ ModelEnds(failed)
        /\ answered' = Append(answered,
             [run |-> Max(Around), node |-> top.node,
              entry |-> [prompt |-> content[top.message], failed |-> failed]])
  BY DEF CallEnds
<1>2. stack # <<>> /\ top.kind = "call"
  BY DEF CallEnds, Top
<1>3. Types /\ StackOK /\ RunsOK /\ RecordsOK /\ DedupesOK /\ PromptsOK /\ AnsweredOK
  BY DEF IInv
<1>4. Open("call") = {top} /\ Open("wrapped") = {}
  BY <1>2, <1>3, OnlyCall
<1>5. /\ top \in Frames /\ top.id \in 1 .. started /\ top.node \in NodeNames
      /\ top.message \in 1 .. Len(content) /\ started \in Nat
  <2>1. top \in Open("call")
    BY <1>4
  <2>2. top \in Frames /\ top.id \in 1 .. started /\ top.message \in 1 .. Len(content)
    BY <1>2, <1>3, <2>1, FramesOfStack DEF Open
  <2> QED
    BY <1>3, <2>2 DEF Frames, Types
<1>6. PICK inner \in Open("node") :
        /\ inner.node = top.node /\ inner.id <= top.id
        /\ \A g \in Open("node") : g.id <= inner.id /\ (g.node = inner.node => g = inner)
  BY <1>2, <1>3, InnermostNode
<1>7. inner.id \in 1 .. started /\ Max(Around) = inner.id
  <2>1. \A g \in Open("node") : g.id \in 1 .. started
    BY <1>3, FramesOfStack DEF Open
  <2>2. Around = {g.id : g \in Open("node")}
    BY <1>3, AroundIs
  <2>3. inner.id \in Around /\ \A x \in Around : x \in Nat /\ inner.id >= x
    BY <1>3, <1>6, <2>1, <2>2 DEF Types
  <2>4. \A x \in Around : (\A y \in Around : x >= y) => x = inner.id
    BY <2>3
  <2> QED
    BY <2>1, <2>3, <2>4 DEF Max
<1> DEFINE m == recordOf[inner.id]
           entry == [prompt |-> content[top.message], failed |-> failed]
           new == [run |-> inner.id, node |-> top.node, entry |-> entry]
<1>8. m \in 1 .. Len(nodes) /\ m # 0 /\ nodes[m].node = top.node
  <2>1. m # 0 /\ nodes[m].node = inner.node
    BY <1>3 DEF RecordsOK
  <2> QED
    BY <1>3, <1>6, <1>7, <2>1 DEF RunsOK
<1>9. /\ content[top.message] \in Prompts /\ entry \in Entries /\ new \in Answers
      /\ answered' = Append(answered, new) /\ answered \in Seq(Answers)
  <2>1. content \in Seq(Prompts) /\ answered \in Seq(Answers) /\ started <= MaxRuns
    BY <1>3, BoundsAssumption DEF Types
  <2>2. content[top.message] \in Prompts /\ inner.id \in 1 .. MaxRuns
    BY <1>5, <1>7, <2>1, BoundsAssumption
  <2>3. entry \in Entries
    BY <2>2 DEF Entries
  <2> QED
    BY <1>1, <1>5, <1>7, <2>1, <2>2, <2>3 DEF Answers
<1>10. /\ llmRuns' = {} /\ UNCHANGED orphans
       /\ nodes' = [i \in DOMAIN nodes |->
                      IF i = m THEN [nodes[i] EXCEPT !.llm_calls = Append(@, entry)] ELSE nodes[i]]
  <2> DEFINE call == [node |-> top.node, prompt |-> content[top.message]]
             owner == {o[2] : o \in {o \in openByName : o[1] = top.node}}
  <2>1. llmRuns = {<<top.id, call>>} /\ seen.duplicates = {}
    BY <1>3, <1>4 DEF DedupesOK, Dedupe
  <2>2. owner = {m}
    <3>1. openByName = {<<g.node, recordOf[g.id]>> : g \in Open("node")}
      BY <1>3 DEF RecordsOK
    <3> DEFINE named == {o \in openByName : o[1] = top.node}
    <3> HIDE DEF m
    <3>2. <<inner.node, m>> \in named
      BY <1>6, <3>1 DEF m
    <3>3. \A o \in named : o[2] = m
      BY <1>6, <3>1 DEF m
    <3> HIDE DEF named
    <3>4. {o[2] : o \in named} = {m}
      BY <3>2, <3>3
    <3> QED
      BY <3>4 DEF named
  <2>3. llmRuns' = {} /\ Finish(top.id, call, failed)
    <3>1. ~(\A l \in llmRuns : l[1] # top.id) /\ top.id \notin seen.duplicates
      BY <2>1
    <3>2. \E l \in llmRuns :
            l[1] = top.id /\ llmRuns' = llmRuns \ {l} /\ Finish(top.id, l[2], failed)
      BY <1>1, <3>1 DEF ModelEnds, TrackerEnd
    <3> HIDE DEF call
    <3> QED
      BY <2>1, <3>2
  <2>4. call.node = top.node /\ [prompt |-> call.prompt, failed |-> failed] = entry
    OBVIOUS
  <2> HIDE DEF call, entry, m
  <2>5. {o[2] : o \in {o \in openByName : o[1] = call.node}} = {m} /\ {m} # {}
    <3>1. {m} # {}
      OBVIOUS
    <3> QED
      BY <2>2, <2>4, <3>1
  <2>6. /\ nodes' = [i \in DOMAIN nodes |->
                       IF i \in {m} THEN [nodes[i] EXCEPT !.llm_calls = Append(@, entry)]
                       ELSE nodes[i]]
        /\ UNCHANGED orphans
    <3> HIDE DEF owner
    <3> QED
      BY <2>3, <2>4, <2>5 DEF Finish
  <2> QED
    BY <2>3, <2>6
<1> HIDE DEF entry
<1>11. /\ nodes' \in Seq(Records) /\ Len(nodes') = Len(nodes)
       /\ \A i \in 1 .. Len(nodes) :
            /\ nodes'[i].node = nodes[i].node /\ nodes'[i].status = nodes[i].status
            /\ nodes'[i].tools = nodes[i].tools /\ nodes'[i].tool_calls = nodes[i].tool_calls
            /\ nodes'[i].llm_calls = IF i = m THEN Append(nodes[i].llm_calls, entry)
                                     ELSE nodes[i].llm_calls
  <2>1. nodes \in Seq(Records) /\ Len(nodes) \in Nat /\ DOMAIN nodes = 1 .. Len(nodes)
        /\ \A i \in 1 .. Len(nodes) : nodes[i] \in Records
    BY <1>3 DEF Types
  <2> HIDE DEF m
  <2>2. ASSUME NEW i \in 1 .. Len(nodes)
        PROVE  /\ nodes'[i] \in Records
               /\ nodes'[i].node = nodes[i].node /\ nodes'[i].status = nodes[i].status
               /\ nodes'[i].tools = nodes[i].tools /\ nodes'[i].tool_calls = nodes[i].tool_calls
               /\ nodes'[i].llm_calls = IF i = m THEN Append(nodes[i].llm_calls, entry)
                                        ELSE nodes[i].llm_calls
    <3>1. nodes[i] \in Records /\ nodes[i].llm_calls \in Seq(Entries)
      BY <2>1 DEF Records
    <3>2. Append(nodes[i].llm_calls, entry) \in Seq(Entries)
      BY <1>9, <3>1
    <3> QED
      BY <1>10, <2>1, <3>1, <3>2 DEF Records
  <2>3. nodes' \in Seq(Records) /\ Len(nodes') = Len(nodes)
    <3>1. Len(nodes) \in Nat /\ nodes' = [i \in 1 .. Len(nodes) |-> nodes'[i]]
      BY <1>10, <2>1
    <3> QED
      BY <2>2, <3>1, FunctionIsSeq
  <2> QED
    BY <2>2, <2>3
<1> HIDE DEF new
<1>12. answered' \in Seq(Answers)
  BY <1>9
<1>13. /\ StackOK' /\ RunsOK' /\ RecordsOK' /\ ToolsOK' /\ Types'
       /\ \A kinds : Of(stack', kinds) = Of(stack, kinds) \ {top}
       /\ seen' = Dedupe(Open("call")', Open("wrapped")')
       /\ known' = Dedupe(InEdited(Open("call")'), InEdited(Open("wrapped")'))
  BY <1>1, <1>2, <1>11, <1>12, ModelEndStep
<1>14. UNCHANGED <<content, overrides, calls, applied, started, recordOf>>
  BY <1>1 DEF ModelEnds, OverrideEnd, Pop, runVars
<1>15. Open("call")' = {}
  BY <1>4, <1>13 DEF Open
<1>16. DedupesOK'
  BY <1>10, <1>13, <1>15 DEF DedupesOK
<1>17. /\ Len(answered) \in Nat /\ Len(answered') = Len(answered) + 1
       /\ answered'[Len(answered) + 1] = new
       /\ \A k \in 1 .. Len(answered) : answered'[k] = answered[k]
       /\ 1 .. Len(answered') = (1 .. Len(answered)) \cup {Len(answered) + 1}
  BY <1>9
<1>18. AnsweredOK'
  <2>1. Ended \in Seq(Entries) /\ Len(Ended) = Len(answered) /\ Ended' = Append(Ended, entry)
    <3>1. \A k \in 1 .. Len(answered) : answered[k] \in Answers
      BY <1>9
    <3>2. \A k \in 1 .. Len(answered) : answered[k].entry \in Entries
      BY <3>1 DEF Answers
    <3>3. Ended \in Seq(Entries) /\ Len(Ended) = Len(answered)
      BY <1>17, <3>2 DEF Ended
    <3>4. Ended' = [k \in 1 .. Len(answered) + 1 |-> answered'[k].entry]
      BY <1>17 DEF Ended
    <3>5. new.entry = entry
      BY DEF new
    <3>6. ASSUME NEW k \in 1 .. Len(answered) + 1
          PROVE  Ended'[k] = Append(Ended, entry)[k] /\ Ended'[k] \in Entries
      <4>1. Append(Ended, entry)[k] = IF k = Len(answered) + 1 THEN entry ELSE Ended[k]
        BY <1>9, <1>17, <3>3
      <4>2. k # Len(answered) + 1 => Ended[k] = answered[k].entry
        BY <1>17, <3>3 DEF Ended
      <4> QED
        BY <1>9, <1>17, <3>2, <3>4, <3>5, <4>1, <4>2
    <3>7. Ended' = [k \in 1 .. Len(answered) + 1 |-> Ended'[k]] /\ Len(answered) + 1 \in Nat
      BY <1>17, <3>4
    <3>8. Ended' \in Seq(Entries) /\ Len(Ended') = Len(answered) + 1
      BY <3>6, <3>7, FunctionIsSeq
    <3>9. Append(Ended, entry) \in Seq(Entries) /\ Len(Append(Ended, entry)) = Len(answered) + 1
      BY <1>9, <3>3
    <3> QED
      BY <3>3, <3>6, <3>8, <3>9, SeqEqual
  <2>2. \A r : Made(r)' = IF r = inner.id THEN Made(r) \cup {Len(answered) + 1} ELSE Made(r)
    <3>1. new.run = inner.id
      BY DEF new
    <3> QED
      BY <1>17, <3>1 DEF Made
  <2>3. \A r : Made(r) \subseteq 1 .. Len(Ended)
    BY <2>1 DEF Made
  <2>4. ASSUME NEW r \in 1 .. started, recordOf[r] # 0
        PROVE  nodes'[recordOf[r]].llm_calls = Sublist(Ended, Made(r))'
    <3>1. /\ recordOf[r] \in 1 .. Len(nodes)
          /\ nodes[recordOf[r]].llm_calls = Sublist(Ended, Made(r))
      BY <1>3, <2>4 DEF RunsOK, AnsweredOK
    <3>2. recordOf[r] = m <=> r = inner.id
      BY <1>3, <1>7, <1>8, <2>4 DEF RunsOK
    <3>3. Sublist(Ended, Made(r))'
            = IF r = inner.id THEN Append(Sublist(Ended, Made(r)), entry) ELSE Sublist(Ended, Made(r))
      <4>1. Sublist(Ended, Made(r))' = Sublist(Append(Ended, entry), Made(r)')
        BY <2>1
      <4>2. Sublist(Append(Ended, entry), Made(r)) = Sublist(Ended, Made(r))
        BY <1>9, <2>1, <2>3, SublistSkips
      <4>3. Sublist(Append(Ended, entry), Made(r) \cup {Len(Ended) + 1})
              = Append(Sublist(Ended, Made(r)), entry)
        BY <1>9, <2>1, <2>3, SublistTakes
      <4> QED
        BY <2>1, <2>2, <4>1, <4>2, <4>3
    <3> QED
      BY <1>11, <3>1, <3>2, <3>3
  <2>5. ASSUME NEW k \in 1 .. Len(answered')
        PROVE  /\ answered'[k].run \in 1 .. started /\ recordOf[answered'[k].run] # 0
               /\ nodes'[recordOf[answered'[k].run]].node = answered'[k].node
    <3>1. CASE k = Len(answered) + 1
      <4>1. answered'[k].run = inner.id /\ answered'[k].node = top.node
        BY <1>17, <3>1 DEF new
      <4> QED
        BY <1>7, <1>8, <1>11, <4>1
    <3>2. CASE k \in 1 .. Len(answered)
      <4>1. /\ answered[k].run \in 1 .. started /\ recordOf[answered[k].run] # 0
            /\ nodes[recordOf[answered[k].run]].node = answered[k].node
        BY <1>3, <3>2 DEF AnsweredOK
      <4>2. recordOf[answered[k].run] \in 1 .. Len(nodes)
        BY <1>3, <4>1 DEF RunsOK
      <4> QED
        BY <1>11, <1>17, <3>2, <4>1, <4>2
    <3> QED
      BY <1>17, <3>1, <3>2
  <2>6. orphans' = <<>>
    BY <1>3, <1>10 DEF AnsweredOK
  <2> QED
    BY <1>14, <2>4, <2>5, <2>6 DEF AnsweredOK
<1>19. PromptsOK'
  <2> DEFINE idx == {k \in 1 .. Len(answered) : answered[k].node = Edited}
             edited == top.node = Edited
             changed == content[top.message] # Original
  <2>1. calls \in Nat /\ applied \in Nat
    BY <1>3 DEF Types
  <2>2. /\ content[top.message] = IF edited THEN Wanted(calls - 1, Original) ELSE Original
        /\ Len(EditedCalls) = calls - (IF edited THEN 1 ELSE 0)
        /\ \A k \in 1 .. Len(EditedCalls) : EditedCalls[k].entry.prompt = Wanted(k - 1, Original)
        /\ applied = Cardinality(Changed) + (IF changed THEN 1 ELSE 0)
    BY <1>3, <1>4 DEF PromptsOK
  <2>3. new.node = top.node /\ new.entry.prompt = content[top.message]
    BY DEF new, entry
  <2>4. ASSUME NEW c PROVE Wanted(c, Original)' = Wanted(c, Original)
    BY <1>14 DEF Wanted
  <2>5. EditedCalls' = IF edited THEN Append(EditedCalls, new) ELSE EditedCalls
    <3>1. EditedCalls = Sublist(answered, idx)
      BY DEF EditedCalls
    <3>2. EditedCalls' = Sublist(answered', {k \in 1 .. Len(answered') : answered'[k].node = Edited})
      BY DEF EditedCalls
    <3>3. {k \in 1 .. Len(answered') : answered'[k].node = Edited}
            = IF edited THEN idx \cup {Len(answered) + 1} ELSE idx
      BY <1>17, <2>3
    <3>4. idx \subseteq 1 .. Len(answered)
      OBVIOUS
    <3> HIDE DEF idx, edited
    <3>5. /\ Sublist(Append(answered, new), idx) = Sublist(answered, idx)
          /\ Sublist(Append(answered, new), idx \cup {Len(answered) + 1})
               = Append(Sublist(answered, idx), new)
      <4>1. answered \in Seq(Answers) /\ new \in Answers
        BY <1>9
      <4>2. Sublist(Append(answered, new), idx) = Sublist(answered, idx)
        BY <3>4, <4>1, SublistSkips, Zenon
      <4>3. Sublist(Append(answered, new), idx \cup {Len(answered) + 1})
              = Append(Sublist(answered, idx), new)
        BY <3>4, <4>1, SublistTakes, Zenon
      <4> QED
        BY <4>2, <4>3
    <3> QED
      BY <1>9, <3>1, <3>2, <3>3, <3>5
  <2>6. EditedCalls \in Seq(Answers)
    <3>1. idx \subseteq 1 .. Len(answered) /\ EditedCalls = Sublist(answered, idx)
      BY DEF EditedCalls
    <3> HIDE DEF idx
    <3> QED
      BY <1>9, <3>1, SublistEnumerates
  <2>7. Len(EditedCalls') = calls - 0
    <3>1. Len(EditedCalls) \in Nat /\ Len(Append(EditedCalls, new)) = Len(EditedCalls) + 1
      BY <1>9, <2>6
    <3> QED
      BY <2>1, <2>2, <2>5, <3>1
  <2>8. ASSUME NEW k \in 1 .. Len(EditedCalls')
        PROVE  EditedCalls'[k].entry.prompt = Wanted(k - 1, Original)
    <3>1. CASE ~edited
      BY <2>2, <2>5, <3>1
    <3>2. CASE edited
      <4>1. /\ Len(EditedCalls) \in Nat /\ Len(Append(EditedCalls, new)) = Len(EditedCalls) + 1
            /\ Append(EditedCalls, new)[Len(EditedCalls) + 1] = new
            /\ \A i \in 1 .. Len(EditedCalls) : Append(EditedCalls, new)[i] = EditedCalls[i]
        BY <1>9, <2>6
      <4>2. EditedCalls' = Append(EditedCalls, new) /\ Len(EditedCalls) + 1 = calls
        BY <2>1, <2>2, <2>5, <3>2, <4>1
      <4>3. CASE k = Len(EditedCalls) + 1
        BY <2>2, <2>3, <3>2, <4>1, <4>2, <4>3
      <4>4. CASE k \in 1 .. Len(EditedCalls)
        BY <2>2, <4>1, <4>2, <4>4
      <4> QED
        BY <4>1, <4>2, <4>3, <4>4
    <3> QED
      BY <3>1, <3>2
  <2>9. Cardinality(Changed)' = Cardinality(Changed) + (IF changed THEN 1 ELSE 0)
    <3>1. Changed' = IF changed THEN Changed \cup {Len(answered) + 1} ELSE Changed
      BY <1>17, <2>3 DEF Changed
    <3>2. IsFiniteSet(Changed) /\ Cardinality(Changed) \in Nat /\ Len(answered) + 1 \notin Changed
      BY <1>3, <1>17, ChangedIsFinite DEF Changed
    <3>3. Cardinality(Changed \cup {Len(answered) + 1}) = Cardinality(Changed) + 1
      BY <3>2, FS_AddElement
    <3> HIDE DEF changed
    <3> QED
      BY <3>1, <3>2, <3>3
  <2> QED
    BY <1>14, <1>15, <2>1, <2>2, <2>4, <2>7, <2>8, <2>9 DEF PromptsOK
<1> QED
  BY <1>13, <1>16, <1>18, <1>19 DEF IInv

----------------------------------------------------------------------------
(* Tools                                                                   *)

\* A tool that starts is held until it ends.
LEMMA ToolStartStep ==
    ASSUME IInv, ToolStarts
    PROVE  IInv'
<1>1. /\ stack # <<>> /\ Last(stack).kind \in {"node", "chain"}
      /\ started < MaxRuns /\ started' = started + 1
      /\ toolRuns' = toolRuns \cup {<<started + 1, Last(stack).node, Parent>>}
      /\ NoChainStart
      /\ UNCHANGED <<stack, left, content, overrideVars, nodes, byRun, openByName, llmRuns, orphans,
                     seen, orphanTools, answered, used, asking>>
  BY DEF ToolStarts, Top
<1>2. /\ Types /\ StackOK /\ RunsOK /\ RecordsOK /\ DedupesOK /\ PromptsOK /\ AnsweredOK /\ ToolsOK
  BY DEF IInv
<1>3. started \in Nat /\ started' \in 0 .. MaxRuns /\ Len(stack) \in Nat
  BY <1>1, <1>2, BoundsAssumption DEF Types
<1>4. /\ parentOf' \in Seq(Nat) /\ Len(parentOf') = started'
      /\ recordOf' \in Seq(Nat) /\ Len(recordOf') = started'
      /\ \A r \in 1 .. started : recordOf'[r] = recordOf[r] /\ parentOf'[r] = parentOf[r]
      /\ recordOf'[started + 1] = 0 /\ parentOf'[started + 1] = 0
  <2>1. /\ parentOf \in Seq(Nat) /\ Len(parentOf) = started
        /\ recordOf \in Seq(Nat) /\ Len(recordOf) = started
        /\ parentOf' = Append(parentOf, 0) /\ recordOf' = Append(recordOf, 0)
    BY <1>1, <1>2 DEF NoChainStart, Types
  <2> QED
    BY <1>1, <1>3, <2>1
<1>5. 1 .. started' = (1 .. started) \cup {started + 1}
  BY <1>1, <1>3
<1>6. \A k \in 1 .. Len(stack) : stack[k].id \in 1 .. started
  <2>1. \A k \in 1 .. Len(stack) : stack[k] \in Of(stack, {stack[k].kind})
    BY DEF Of
  <2> QED
    BY <1>2, <2>1, FramesOfStack
<1>7. Types'
  <2>1. Len(content) <= started'
    BY <1>1, <1>2, <1>3 DEF Types
  <2> QED
    BY <1>1, <1>2, <1>3, <1>4, <2>1 DEF Types, overrideVars
<1>8. StackOK'
  <2>1. \A j \in 1 .. Len(stack) : FrameOK(j)'
    BY <1>1, <1>2, <1>3, <1>6 DEF StackOK, FrameOK
  <2>2. \A i, j \in 1 .. Len(stack) : i < j => Below(i, j)'
    BY <1>1, <1>2 DEF StackOK, Below
  <2> QED
    BY <1>1, <2>1, <2>2 DEF StackOK
<1>9. RunsOK'
  <2>1. \A r \in 1 .. started' : recordOf'[r] \in 0 .. Len(nodes') /\ parentOf'[r] \in 0 .. r - 1
    <3>1. \A r \in 1 .. started : recordOf'[r] \in 0 .. Len(nodes') /\ parentOf'[r] \in 0 .. r - 1
      BY <1>1, <1>2, <1>4 DEF RunsOK
    <3>2. 0 \in 0 .. Len(nodes') /\ 0 \in 0 .. (started + 1) - 1
      BY <1>1, <1>2, <1>3 DEF Types
    <3> QED
      BY <1>4, <1>5, <3>1, <3>2
  <2>2. \A r, s \in 1 .. started' : recordOf'[r] = recordOf'[s] /\ recordOf'[r] # 0 => r = s
    BY <1>2, <1>4, <1>5 DEF RunsOK
  <2>3. \A k \in 1 .. Len(stack') :
          /\ parentOf'[stack'[k].id] =
               IF k > 1 /\ stack'[k].kind \in {"node", "chain"} THEN stack'[k - 1].id ELSE 0
          /\ stack'[k].kind # "node" => recordOf'[stack'[k].id] = 0
    BY <1>1, <1>2, <1>4, <1>6 DEF RunsOK
  <2> QED
    BY <2>1, <2>2, <2>3 DEF RunsOK
<1>10. /\ \A kind : Open(kind)' = Open(kind)
       /\ Around' = Around
  BY <1>1 DEF Open, Of, Around
<1>11. RecordsOK'
  <2>1. \A g \in Open("node") : recordOf'[g.id] = recordOf[g.id]
    <3>1. \A g \in Open("node") : g.id \in 1 .. started
      BY <1>2, FramesOfStack DEF Open
    <3> QED
      BY <1>4, <3>1
  <2>2. byRun' = {<<g.id, recordOf'[g.id]>> : g \in Open("node")}
    BY <1>1, <1>2, <2>1 DEF RecordsOK
  <2>3. openByName' = {<<g.node, recordOf'[g.id]>> : g \in Open("node")}
    BY <1>1, <1>2, <2>1 DEF RecordsOK
  <2>4. \A g \in Open("node") : recordOf'[g.id] # 0 /\ nodes'[recordOf'[g.id]].node = g.node
    BY <1>1, <1>2, <2>1 DEF RecordsOK
  <2>5. \A i \in 1 .. Len(nodes') :
          nodes'[i].status = "closed" \/ \E g \in Open("node") : recordOf'[g.id] = i
    BY <1>1, <1>2, <2>1 DEF RecordsOK
  <2> QED
    BY <1>10, <2>2, <2>3, <2>4, <2>5 DEF RecordsOK
<1>12. \A r \in 1 .. started' : r \notin 1 .. started => recordOf'[r] = 0
  BY <1>4, <1>5
<1>13. AnsweredOK'
  <2>1. UNCHANGED <<orphans, answered>> /\ started' \in Nat /\ started <= started'
    BY <1>1, <1>3
  <2> QED
    BY <1>1, <1>2, <1>4, <1>12, <2>1, AnsweredKept
<1>14. ToolsOK'
  <2>1. \A t \in toolRuns' : \E g \in Of(stack', {"node", "chain"}) : g.id = t[3]
    <3>1. Last(stack) \in Of(stack, {"node", "chain"}) /\ Parent = Last(stack).id
      BY <1>1, <1>2, TopFrame DEF Parent
    <3>2. \A t \in toolRuns' : t \in toolRuns \/ t[3] = Last(stack).id
      BY <1>1, <3>1
    <3> QED
      BY <1>1, <1>2, <3>1, <3>2 DEF ToolsOK
  <2>2. asking' \subseteq 1 .. started' /\ \A k \in 1 .. Len(used') : used'[k] \subseteq 1 .. started'
    BY <1>1, <1>2, <1>5 DEF ToolsOK
  <2>3. \A r : UsedIn(r)' = UsedIn(r)
    BY <1>1 DEF UsedIn
  <2>4. ASSUME NEW r \in 1 .. started', recordOf'[r] # 0
        PROVE  /\ nodes'[recordOf'[r]].tool_calls = Cardinality(UsedIn(r))
               /\ nodes'[recordOf'[r]].tools = (IF r \in asking' THEN Offered ELSE {})
                                                 \cup (IF UsedIn(r) # {} THEN {Tool} ELSE {})
    <3>1. r \in 1 .. started /\ recordOf'[r] = recordOf[r]
      BY <1>4, <1>12, <2>4
    <3> QED
      BY <1>1, <1>2, <2>4, <3>1 DEF ToolsOK
  <2>5. orphanTools' = 0 /\ (Open("call")' # {} => Around' \subseteq asking')
    BY <1>1, <1>2, <1>10 DEF ToolsOK
  <2> QED
    BY <2>1, <2>2, <2>3, <2>4, <2>5 DEF ToolsOK
<1>15. DedupesOK' /\ PromptsOK'
  BY <1>1, <1>2, <1>10, DedupesKept, PromptsKept DEF overrideVars
<1> QED
  BY <1>7, <1>8, <1>9, <1>11, <1>13, <1>14, <1>15 DEF IInv

\* A tool that ends is in the records of the nodes it ran in.
LEMMA ToolEndStep ==
    ASSUME IInv, ToolEnds
    PROVE  IInv'
<1>1. PICK t \in toolRuns :
        FinishTool(t[1], t[2], t[3]) /\ used' = Append(used, {r \in Around : r <= t[3]})
  BY DEF ToolEnds
<1>2. UNCHANGED <<stack, left, started, content, overrideVars, byRun, openByName, llmRuns, orphans,
                  seen, runVars, answered, asking>>
  BY DEF ToolEnds
<1>3. /\ Types /\ StackOK /\ RunsOK /\ RecordsOK /\ DedupesOK /\ PromptsOK /\ AnsweredOK /\ ToolsOK
  BY DEF IInv
<1>4. PICK f \in Of(stack, {"node", "chain"}) : f.id = t[3]
  BY <1>3 DEF ToolsOK
<1> DEFINE in == {r \in Around : r <= f.id}
           owners == Owners(t[2], t[3])
<1>5. in \subseteq 1 .. started /\ used' = Append(used, in) /\ in \subseteq Around
      /\ Around = {g.id : g \in Open("node")}
  <2>1. Around = {g.id : g \in Open("node")}
    BY <1>3, AroundIs
  <2>2. \A g \in Open("node") : g.id \in 1 .. started
    BY <1>3, FramesOfStack DEF Open
  <2> QED
    BY <1>1, <1>4, <2>1, <2>2
<1>6. owners = {recordOf[r] : r \in in} /\ in # {}
  <2>1. RecordsFrom[f.id] = {recordOf[g.id] : g \in {g \in Open("node") : g.id <= f.id}}
    BY <1>3, RecordsOfStack
  <2>2. RecordsFrom[f.id] = {recordOf[r] : r \in in}
    BY <1>5, <2>1
  <2>3. in # {}
    <3>1. stack # <<>> /\ 1 \in 1 .. Len(stack) /\ Len(stack) \in Nat
      <4>1. PICK k \in 1 .. Len(stack) : stack[k] = f
        BY <1>3, FramesOfStack
      <4> QED
        BY <1>3, <4>1, EmptySeq DEF Types
    <3>2. stack[1] \in Open("node")
      BY <1>3, <3>1 DEF StackOK, FrameOK, Open, Of
    <3>3. PICK k \in 1 .. Len(stack) : stack[k] = f
      BY <1>3, FramesOfStack
    <3>4. \A g \in Of(stack, {"node", "chain"}) \cup Open("node") : g.id \in Nat
      BY <1>3, FramesOfStack DEF Open, Types
    <3>5. stack[1].id <= f.id
      <4>1. k = 1 \/ 1 < k
        BY <3>1
      <4>2. 1 < k => stack[1].id < stack[k].id
        BY <1>3, <3>1 DEF StackOK, Below
      <4> QED
        BY <3>2, <3>3, <3>4, <4>1, <4>2
    <3> QED
      BY <1>5, <3>2, <3>5
  <2> QED
    BY <1>4, <2>2, <2>3 DEF Owners
<1>7. /\ nodes' = [i \in DOMAIN nodes |->
                     IF i \in owners
                     THEN [nodes[i] EXCEPT !.tool_calls = @ + 1, !.tools = @ \cup {Tool}]
                     ELSE nodes[i]]
      /\ orphanTools' = 0 /\ toolRuns' \subseteq toolRuns
  <2>1. owners # {}
    BY <1>6
  <2>2. orphanTools = 0
    BY <1>3 DEF ToolsOK
  <2> QED
    BY <1>1, <2>1, <2>2 DEF FinishTool
<1> HIDE DEF owners
<1>8. /\ nodes' \in Seq(Records) /\ Len(nodes') = Len(nodes)
      /\ \A i \in 1 .. Len(nodes) :
           /\ nodes'[i].node = nodes[i].node /\ nodes'[i].status = nodes[i].status
           /\ nodes'[i].llm_calls = nodes[i].llm_calls
           /\ nodes'[i].tool_calls = IF i \in owners THEN nodes[i].tool_calls + 1
                                     ELSE nodes[i].tool_calls
           /\ nodes'[i].tools = IF i \in owners THEN nodes[i].tools \cup {Tool} ELSE nodes[i].tools
  <2>1. nodes \in Seq(Records) /\ Len(nodes) \in Nat /\ DOMAIN nodes = 1 .. Len(nodes)
        /\ \A i \in 1 .. Len(nodes) : nodes[i] \in Records
    BY <1>3 DEF Types
  <2>2. ASSUME NEW i \in 1 .. Len(nodes)
        PROVE  /\ nodes'[i] \in Records
               /\ nodes'[i].node = nodes[i].node /\ nodes'[i].status = nodes[i].status
               /\ nodes'[i].llm_calls = nodes[i].llm_calls
               /\ nodes'[i].tool_calls = IF i \in owners THEN nodes[i].tool_calls + 1
                                         ELSE nodes[i].tool_calls
               /\ nodes'[i].tools = IF i \in owners THEN nodes[i].tools \cup {Tool}
                                    ELSE nodes[i].tools
    <3>1. nodes[i] \in Records
      BY <2>1
    <3>2. CASE i \in owners
      <4>1. nodes'[i] = [nodes[i] EXCEPT !.tool_calls = @ + 1, !.tools = @ \cup {Tool}]
        BY <1>7, <2>1, <3>2
      <4>2. nodes[i].tool_calls + 1 \in Nat
            /\ nodes[i].tools \cup {Tool} \in SUBSET (Offered \cup {Tool})
        BY <3>1 DEF Records
      <4> QED
        BY <3>1, <3>2, <4>1, <4>2 DEF Records
    <3>3. CASE i \notin owners
      <4>1. nodes'[i] = nodes[i]
        BY <1>7, <2>1, <3>3
      <4> QED
        BY <3>1, <3>3, <4>1
    <3> QED
      BY <3>2, <3>3
  <2>3. nodes' \in Seq(Records) /\ Len(nodes') = Len(nodes)
    <3>1. Len(nodes) \in Nat /\ nodes' = [i \in 1 .. Len(nodes) |-> nodes'[i]]
      BY <1>7, <2>1
    <3> QED
      BY <2>2, <3>1, FunctionIsSeq
  <2> QED
    BY <2>2, <2>3
<1> HIDE DEF in
<1>9. /\ used \in Seq(SUBSET (1 .. MaxRuns)) /\ used' \in Seq(SUBSET (1 .. MaxRuns))
      /\ Len(used) \in Nat /\ Len(used') = Len(used) + 1 /\ used'[Len(used) + 1] = in
      /\ \A k \in 1 .. Len(used) : used'[k] = used[k]
      /\ 1 .. Len(used') = (1 .. Len(used)) \cup {Len(used) + 1}
  <2>1. used \in Seq(SUBSET (1 .. MaxRuns)) /\ started \in Nat /\ started <= MaxRuns
    BY <1>3, BoundsAssumption DEF Types
  <2>2. in \in SUBSET (1 .. MaxRuns)
    BY <1>5, <2>1, BoundsAssumption
  <2> QED
    BY <1>5, <2>1, <2>2
<1>10. Types'
  BY <1>2, <1>3, <1>8, <1>9 DEF Types, overrideVars, runVars
<1>11. StackOK'
  BY <1>2, <1>3 DEF StackOK, FrameOK, Below
<1>12. RunsOK'
  <2>1. Len(stack') \in Nat /\ Len(stack') <= Len(stack)
    BY <1>2, <1>3 DEF Types
  <2> QED
    BY <1>2, <1>3, <1>8, <2>1, RunsKept
<1>13. (\A kind : Open(kind)' = Open(kind)) /\ Around' = Around
  BY <1>2 DEF Open, Of, Around
<1>14. RecordsOK'
  <2>1. UNCHANGED <<byRun, openByName, recordOf>>
    BY <1>2 DEF runVars
  <2> QED
    BY <1>3, <1>8, <1>13, <2>1, RecordsKept
<1>15. AnsweredOK'
  <2>1. recordOf' = recordOf /\ started' = started /\ started \in Nat /\ UNCHANGED <<orphans, answered>>
    BY <1>2, <1>3 DEF runVars, Types
  <2>2. started <= started' /\ \A r \in 1 .. started : recordOf'[r] = recordOf[r]
    BY <2>1
  <2> QED
    BY <1>3, <1>8, <2>1, <2>2, AnsweredKept
<1>16. ToolsOK'
  <2>1. recordOf' = recordOf /\ started' = started /\ asking' = asking /\ stack' = stack
    BY <1>2 DEF runVars
  <2>2. \A r : UsedIn(r)' = IF r \in in THEN UsedIn(r) \cup {Len(used) + 1} ELSE UsedIn(r)
    BY <1>9 DEF UsedIn
  <2>3. \A r : IsFiniteSet(UsedIn(r)) /\ Cardinality(UsedIn(r)) \in Nat
               /\ Len(used) + 1 \notin UsedIn(r)
    <3>1. IsFiniteSet(1 .. Len(used)) /\ \A r : UsedIn(r) \subseteq 1 .. Len(used)
      BY <1>9, FS_Interval DEF UsedIn
    <3>2. Len(used) + 1 \notin 1 .. Len(used)
      BY <1>9
    <3> QED
      BY <3>1, <3>2, FS_Subset, FS_CardinalityType
  <2>4. ASSUME NEW r \in 1 .. started, recordOf[r] # 0
        PROVE  /\ nodes'[recordOf[r]].tool_calls = Cardinality(UsedIn(r)')
               /\ nodes'[recordOf[r]].tools = (IF r \in asking THEN Offered ELSE {})
                                                \cup (IF UsedIn(r)' # {} THEN {Tool} ELSE {})
    <3> DEFINE i == recordOf[r]
    <3>1. /\ i \in 1 .. Len(nodes) /\ nodes[i].tool_calls = Cardinality(UsedIn(r))
          /\ nodes[i].tools = (IF r \in asking THEN Offered ELSE {})
                                \cup (IF UsedIn(r) # {} THEN {Tool} ELSE {})
      BY <1>3, <2>4 DEF RunsOK, ToolsOK
    <3>2. i \in owners <=> r \in in
      BY <1>3, <1>5, <1>6, <2>4 DEF RunsOK
    <3> HIDE DEF i
    <3>3. CASE r \in in
      <4>1. UsedIn(r)' = UsedIn(r) \cup {Len(used) + 1} /\ UsedIn(r)' # {}
        BY <2>2, <3>3
      <4>2. Cardinality(UsedIn(r)') = Cardinality(UsedIn(r)) + 1
        BY <2>3, <4>1, FS_AddElement
      <4>3. nodes'[i].tool_calls = nodes[i].tool_calls + 1 /\ nodes'[i].tools = nodes[i].tools \cup {Tool}
        BY <1>8, <3>1, <3>2, <3>3
      <4> QED
        BY <3>1, <4>1, <4>2, <4>3 DEF i
    <3>4. CASE r \notin in
      BY <1>8, <2>2, <3>1, <3>2, <3>4 DEF i
    <3> QED
      BY <3>3, <3>4
  <2>5. \A k \in 1 .. Len(used') : used'[k] \subseteq 1 .. started
    BY <1>3, <1>5, <1>9 DEF ToolsOK
  <2>6. /\ \A x \in toolRuns' : \E g \in Of(stack, {"node", "chain"}) : g.id = x[3]
        /\ asking \subseteq 1 .. started
        /\ Open("call")' # {} => Around' \subseteq asking
    BY <1>3, <1>7, <1>13 DEF ToolsOK
  <2> QED
    BY <1>7, <2>1, <2>4, <2>5, <2>6 DEF ToolsOK
<1>17. DedupesOK' /\ PromptsOK'
  BY <1>2, <1>3, <1>13, DedupesKept, PromptsKept DEF overrideVars
<1> QED
  BY <1>10, <1>11, <1>12, <1>14, <1>15, <1>16, <1>17 DEF IInv

----------------------------------------------------------------------------
(* The invariant                                                           *)

\* Nothing has happened.
LEMMA InitIsIInv == ASSUME Init PROVE IInv
<1>1. /\ stack = <<>> /\ started = 0 /\ content = <<>> /\ calls = 0 /\ applied = 0
      /\ known = NoRuns /\ nodes = <<>> /\ byRun = {} /\ openByName = {} /\ llmRuns = {}
      /\ orphans = <<>> /\ seen = NoRuns /\ parentOf = <<>> /\ recordOf = <<>>
      /\ toolRuns = {} /\ orphanTools = 0 /\ answered = <<>> /\ used = <<>> /\ asking = {}
  BY DEF Init
<1>2. \A S : <<>> \in Seq(S)
  OBVIOUS
<1>3. Len(<<>>) = 0 /\ 1 .. 0 = {}
  OBVIOUS
<1>4. Types
  <2>1. Path \in Seq(NodeNames) /\ Edited \in NodeNames
    <3>1. Path \in Seq(STRING) /\ Edited \in Range(Path)
      BY PathAssumption, EditedAssumption
    <3>2. Len(Path) \in Nat /\ Path = [i \in 1 .. Len(Path) |-> Path[i]] /\ DOMAIN Path = 1 .. Len(Path)
      BY <3>1
    <3>3. \A i \in 1 .. Len(Path) : Path[i] \in NodeNames
      BY <3>2 DEF NodeNames, Range
    <3> QED
      BY <3>1, <3>2, <3>3, FunctionIsSeq DEF NodeNames
  <2>2. left \in Seq(NodeNames)
    <3>1. <<Edited>> \in Seq(NodeNames)
      BY <2>1
    <3> QED
      BY <2>1, <3>1 DEF Init
  <2>3. \A c \in DOMAIN overrides : overrides[c] \in Texts
    <3>1. CASE overrides = <<>>
      BY <3>1
    <3>2. CASE overrides \in UNION {[K -> Texts] : K \in SUBSET (0 .. MaxCall)}
      <4>1. PICK K \in SUBSET (0 .. MaxCall) : overrides \in [K -> Texts]
        BY <3>2
      <4> QED
        BY <4>1
    <3> QED
      BY <3>1, <3>2 DEF Init
  <2> QED
    BY <1>1, <1>2, <1>3, <2>2, <2>3, BoundsAssumption DEF Types
<1>5. (\A kinds : Of(stack, kinds) = {}) /\ \A kind : Open(kind) = {}
  BY <1>1, <1>3 DEF Of, Open
<1>6. StackOK /\ RunsOK
  BY <1>1, <1>3 DEF StackOK, RunsOK
<1>7. RecordsOK
  BY <1>1, <1>3, <1>5 DEF RecordsOK
<1>8. DedupesOK
  <2>1. InEdited({}) = {} /\ Dedupe({}, {}) = NoRuns
    BY DEF InEdited, Dedupe, NoRuns
  <2> QED
    BY <1>1, <1>5, <2>1 DEF DedupesOK
<1>9. PromptsOK
  <2>1. Len(EditedCalls) = 0
    <3>1. {k \in 1 .. Len(answered) : answered[k].node = Edited} = {}
      BY <1>1, <1>3
    <3>2. EditedCalls = <<>>
      BY <1>1, <1>2, <3>1, EmptySublist DEF EditedCalls
    <3> QED
      BY <1>3, <3>2
  <2>2. Cardinality(Changed) = 0
    <3>1. Changed = {}
      BY <1>1, <1>3 DEF Changed
    <3> QED
      BY <3>1, FS_EmptySet
  <2>3. /\ (IF \E f \in Open("call") : f.node = Edited THEN 1 ELSE 0) = 0
        /\ (IF \E f \in Open("call") : content[f.message] # Original THEN 1 ELSE 0) = 0
    BY <1>5
  <2>4. 0 = 0 - 0 /\ 0 = 0 + 0
    OBVIOUS
  <2>5. \A k \in 1 .. Len(EditedCalls) : EditedCalls[k].entry.prompt = Wanted(k - 1, Original)
    BY <1>3, <2>1
  <2>6. /\ Len(EditedCalls)
             = calls - (IF \E f \in Open("call") : f.node = Edited THEN 1 ELSE 0)
        /\ applied = Cardinality(Changed)
                       + (IF \E f \in Open("call") : content[f.message] # Original THEN 1 ELSE 0)
    BY <1>1, <2>1, <2>2, <2>3, <2>4
  <2> QED
    BY <1>5, <2>5, <2>6 DEF PromptsOK
<1>10. AnsweredOK
  BY <1>1, <1>3 DEF AnsweredOK
<1>11. ToolsOK
  BY <1>1, <1>3, <1>5 DEF ToolsOK
<1> QED
  BY <1>4, <1>6, <1>7, <1>8, <1>9, <1>10, <1>11 DEF IInv

\* A node of the path starts.
LEMMA NodeStartStep ==
    ASSUME IInv, NodeStarts
    PROVE  IInv'
<1> DEFINE f == Run("node", Head(left), Head(left), 0)
<1>1. stack = <<>> /\ left # <<>> /\ left \in Seq(NodeNames)
  BY DEF IInv, Types, NodeStarts
<1>2. Head(left) \in NodeNames /\ Tail(left) \in Seq(NodeNames)
  BY <1>1
<1>3. f.kind = "node" /\ f.id = started + 1 /\ f.name = Head(left) /\ f.node = Head(left)
  BY DEF Run
<1>4. Push(f) /\ left' = Tail(left) /\ ChainStart(f.id, f.name, f.node, Parent)
      /\ UNCHANGED <<content, overrideVars, llmRuns, orphans, seen, toolVars, answered, asking>>
  BY <1>1, <1>3 DEF NodeStarts, Parent
<1>5. Fits(f)
  BY <1>1, <1>2, <1>4, BoundsAssumption DEF IInv, Types, Fits, Frames, Run, Push
<1> HIDE DEF f
<1> QED
  BY <1>2, <1>3, <1>4, <1>5, ChainStartStep

\* The node of a graph inside the node starts.
LEMMA InnerNodeStartStep ==
    ASSUME IInv, InnerNodeStarts
    PROVE  IInv'
<1> DEFINE f == Run("node", Inner, Inner, 0)
<1>1. stack # <<>> /\ Last(stack).kind \in {"node", "chain"} /\ Last(stack).node # Inner
      /\ left \in Seq(NodeNames)
  BY DEF IInv, Types, InnerNodeStarts, Top
<1>2. f.kind = "node" /\ f.id = started + 1 /\ f.name = Inner /\ f.node = Inner
  BY DEF Run
<1>3. Push(f) /\ left' = left /\ ChainStart(f.id, f.name, f.node, Parent)
      /\ UNCHANGED <<content, overrideVars, llmRuns, orphans, seen, toolVars, answered, asking>>
  BY <1>2 DEF InnerNodeStarts
<1>4. Fits(f)
  BY <1>1, <1>3, BoundsAssumption DEF IInv, Types, Fits, Frames, Run, Push, NodeNames
<1> HIDE DEF f
<1> QED
  BY <1>1, <1>2, <1>3, <1>4, ChainStartStep

\* A chain inside the node starts.
LEMMA InsideChainStartStep ==
    ASSUME IInv, ChainStarts
    PROVE  IInv'
<1>1. PICK name \in {Last(stack).node, "RunnableSequence"} :
        /\ Push(Run("chain", name, Last(stack).node, 0))
        /\ ChainStart(started + 1, name, Last(stack).node, Parent)
  BY DEF ChainStarts
<1> DEFINE f == Run("chain", name, Last(stack).node, 0)
<1>2. stack # <<>> /\ Last(stack).kind = "node" /\ left \in Seq(NodeNames) /\ left' = left
      /\ UNCHANGED <<content, overrideVars, llmRuns, orphans, seen, toolVars, answered, asking>>
  BY DEF IInv, Types, ChainStarts, Top
<1>3. f.kind = "chain" /\ f.id = started + 1 /\ f.name = name /\ f.node = Last(stack).node
  BY DEF Run
<1>4. Push(f) /\ ChainStart(f.id, f.name, f.node, Parent)
  BY <1>1, <1>3
<1>5. Fits(f)
  <2>1. Last(stack) \in Frames
    BY <1>2, TopFrame DEF IInv
  <2>2. Last(stack).node \in NodeNames
    BY <2>1 DEF Frames
  <2> QED
    BY <1>2, <1>4, <2>2, BoundsAssumption DEF IInv, Types, Fits, Frames, Run, Push
<1> HIDE DEF f
<1> QED
  BY <1>2, <1>3, <1>4, <1>5, ChainStartStep

\* A step that changes nothing.
LEMMA StutterStep ==
    ASSUME IInv, UNCHANGED vars
    PROVE  IInv'
<1>1. /\ UNCHANGED <<stack, left, started, content, overrideVars, nodes, byRun, openByName, llmRuns>>
      /\ UNCHANGED <<orphans, seen, runVars, toolVars, answered, asking>>
  BY DEF vars
<1>2. (\A kind : Open(kind)' = Open(kind)) /\ Around' = Around
      /\ Of(stack', {"node", "chain"}) = Of(stack, {"node", "chain"})
  BY <1>1 DEF Open, Of, Around
<1>3. Types' /\ StackOK' /\ RunsOK' /\ RecordsOK'
  <2>1. Types' /\ RecordsOK'
    BY <1>1, <1>2 DEF IInv, Types, RecordsOK, overrideVars, runVars, toolVars
  <2>2. StackOK'
    BY <1>1 DEF IInv, StackOK, FrameOK, Below
  <2>3. RunsOK'
    BY <1>1 DEF IInv, RunsOK, runVars
  <2> QED
    BY <2>1, <2>2, <2>3
<1>4. DedupesOK' /\ PromptsOK'
  BY <1>1, <1>2, DedupesKept, PromptsKept DEF IInv, overrideVars
<1>5. AnsweredOK' /\ ToolsOK'
  <2>1. Ended' = Ended /\ \A r : Made(r)' = Made(r) /\ UsedIn(r)' = UsedIn(r)
    BY <1>1 DEF Ended, Made, UsedIn, toolVars
  <2>2. AnsweredOK'
    BY <1>1, <2>1 DEF IInv, AnsweredOK, runVars
  <2>3. ToolsOK'
    BY <1>1, <1>2, <2>1 DEF IInv, ToolsOK, runVars, toolVars
  <2> QED
    BY <2>2, <2>3
<1> QED
  BY <1>3, <1>4, <1>5 DEF IInv

\* The invariant is inductive.
LEMMA Invariance == Spec => []IInv
<1>1. Init => IInv
  BY InitIsIInv
<1>2. IInv /\ [Next]_vars => IInv'
  <2> SUFFICES ASSUME IInv, [Next]_vars PROVE IInv'
    OBVIOUS
  <2>1. CASE NodeStarts \/ InnerNodeStarts \/ ChainStarts \/ ChainEnds
    BY <2>1, NodeStartStep, InnerNodeStartStep, InsideChainStartStep, ChainEndStep
  <2>2. CASE ToolStarts \/ ToolEnds
    BY <2>2, ToolStartStep, ToolEndStep
  <2>3. CASE CallStarts \/ WrappedCallStarts \/ WrappedCallEnds \/ CallEnds
    BY <2>3, CallStartStep, WrappedCallStartStep, WrappedCallEndStep, CallEndStep
  <2>4. CASE UNCHANGED vars
    BY <2>4, StutterStep
  <2> QED
    BY <2>1, <2>2, <2>3, <2>4 DEF Next
<1> QED
  BY <1>1, <1>2, PTL DEF Spec

----------------------------------------------------------------------------
(* The properties                                                          *)

(* Every variable has its type: an index that the tracker keeps for a run  *)
(* or for a name (_by_run, _open_by_name, _record_of) is that of a record, *)
(* a run's parent was started before it, and the prompts are counted once  *)
(* (PromptOverride.calls and .applied).                                    *)
THEOREM TypesHold == Spec => []TypeOK
<1>1. IInv => TypeOK
  <2> SUFFICES ASSUME IInv PROVE TypeOK
    OBVIOUS
  <2>1. /\ Types /\ StackOK /\ RunsOK /\ RecordsOK /\ DedupesOK
        /\ started \in Nat /\ started <= MaxRuns /\ MaxRuns \in Nat
        /\ Len(content) \in Nat /\ Len(content) <= started
    BY BoundsAssumption DEF IInv, Types
  <2>2. Len(stack) <= started
    <3>1. CASE stack = <<>>
      BY <2>1, <3>1
    <3>2. CASE stack # <<>>
      <4>1. Len(stack) \in 1 .. Len(stack) /\ Len(stack) \in Nat /\ Last(stack) = stack[Len(stack)]
        BY <2>1, <3>2, TopFrame DEF Types
      <4>2. stack[Len(stack)].id \in 1 .. started
        BY <2>1, <3>2, <4>1, TopFrame
      <4> QED
        BY <2>1, <4>1, <4>2 DEF StackOK, FrameOK
    <3> QED
      BY <3>1, <3>2
  <2>3. \A kind : \A f \in Open(kind) : f \in Frames /\ f.id \in 1 .. MaxRuns /\ f.node \in NodeNames
    BY <2>1, FramesOfStack DEF Open, Frames
  <2>4. \A kind \in {"call", "wrapped"} : \A f \in Open(kind) : f.message \in 1 .. MaxRuns
    <3> SUFFICES ASSUME NEW kind \in {"call", "wrapped"}, NEW f \in Open(kind)
                 PROVE  f.message \in 1 .. MaxRuns
      OBVIOUS
    <3>1. f \in Of(stack, {kind}) /\ f.kind \in {kind}
      BY <2>1, FramesOfStack DEF Open
    <3>2. f.message \in 1 .. Len(content)
      BY <2>1, <3>1, FramesOfStack
    <3> QED
      BY <2>1, <3>2
  <2>5. ASSUME NEW C, NEW W, C \subseteq Open("call"), W \subseteq Open("wrapped")
        PROVE  Dedupe(C, W) \in Dedupes
    <3>1. \A f \in C : [key |-> <<f.node, f.message>>, run |-> f.id]
                         \in [key : NodeNames \X (1 .. MaxRuns), run : 1 .. MaxRuns]
      BY <2>3, <2>4, <2>5
    <3>2. \A f \in W : f.id \in 1 .. MaxRuns
      BY <2>3, <2>5
    <3> QED
      BY <3>1, <3>2 DEF Dedupe, Dedupes, NodeNames
  <2>6. known \in Dedupes /\ seen \in Dedupes
    <3>1. \A F : InEdited(F) \subseteq F
      BY DEF InEdited
    <3> QED
      BY <2>1, <2>5, <3>1 DEF DedupesOK
  <2>7. /\ DOMAIN nodes = 1 .. Len(nodes) /\ Len(nodes) \in Nat
        /\ \A i \in 1 .. Len(nodes) : nodes[i].node \in NodeNames
                                      /\ nodes[i].status \in {"running", "closed"}
    <3>1. nodes \in Seq(Records)
      BY <2>1 DEF Types
    <3>2. /\ DOMAIN nodes = 1 .. Len(nodes) /\ Len(nodes) \in Nat
          /\ \A i \in 1 .. Len(nodes) : nodes[i] \in Records
      BY <3>1
    <3> QED
      BY <3>2 DEF Records
  <2>8. \A f \in Open("node") : recordOf[f.id] \in 1 .. Len(nodes)
    <3>1. \A f \in Open("node") : f.id \in 1 .. started /\ recordOf[f.id] # 0
      BY <2>1, FramesOfStack DEF Open, RecordsOK
    <3> QED
      BY <2>1, <2>7, <3>1 DEF RunsOK
  <2>9. byRun \subseteq (1 .. MaxRuns) \X DOMAIN nodes
    BY <2>1, <2>3, <2>7, <2>8 DEF RecordsOK
  <2>10. openByName \subseteq NodeNames \X DOMAIN nodes
    BY <2>1, <2>3, <2>7, <2>8 DEF RecordsOK
  <2>11. \A run \in 1 .. started : recordOf[run] \in {0} \cup DOMAIN nodes /\ parentOf[run] < run
    BY <2>1, <2>7 DEF RunsOK
  <2>12. \A l \in llmRuns : l[1] \in 1 .. MaxRuns
    BY <2>1, <2>3 DEF DedupesOK
  <2> QED
    BY <2>1, <2>2, <2>6, <2>7, <2>9, <2>10, <2>11, <2>12 DEF TypeOK, Types, Prompts, NodeNames
<1> QED
  BY <1>1, Invariance, PTL

(* A call that ended is in the record of the node that made it, once and   *)
(* in order, with its edited prompt, and in no other (_finish_llm,         *)
(* DuplicateRuns).                                                         *)
THEOREM CallsAreRecordedOnce == Spec => []EveryCallIsRecordedOnce
<1>1. IInv => EveryCallIsRecordedOnce
  <2> SUFFICES ASSUME IInv PROVE EveryCallIsRecordedOnce
    OBVIOUS
  <2>1. /\ AnsweredOK /\ started \in Nat /\ DOMAIN recordOf = 1 .. started
        /\ DOMAIN answered = 1 .. Len(answered)
    BY DEF IInv, Types
  <2>2. /\ [k \in DOMAIN answered |-> answered[k].entry] = Ended
        /\ \A r : {k \in DOMAIN answered : answered[k].run = r} = Made(r)
    BY <2>1 DEF Ended, Made
  <2> QED
    BY <2>1, <2>2 DEF EveryCallIsRecordedOnce, AnsweredOK
<1> QED
  BY <1>1, Invariance, PTL

(* A tool call is in the record of each node that it ran in, once, and in  *)
(* no other (_owners, _finish_tool, _register_tools).                      *)
THEOREM ToolsHaveTheirOwners == Spec => []ToolsAreUnderTheirNodes
<1>1. IInv => ToolsAreUnderTheirNodes
  <2> SUFFICES ASSUME IInv PROVE ToolsAreUnderTheirNodes
    OBVIOUS
  <2>1. /\ ToolsOK /\ started \in Nat /\ DOMAIN recordOf = 1 .. started
        /\ DOMAIN used = 1 .. Len(used)
    BY DEF IInv, Types
  <2>2. \A r : {k \in DOMAIN used : r \in used[k]} = UsedIn(r)
    BY <2>1 DEF UsedIn
  <2> QED
    BY <2>1, <2>2 DEF ToolsAreUnderTheirNodes, ToolsOK
<1> QED
  BY <1>1, Invariance, PTL

(* Between two nodes no record, no call and no key of DuplicateRuns is     *)
(* open in either handler (_close, finish).                                *)
THEOREM NothingStaysOpen == Spec => []NothingIsLeftOpen
<1>1. IInv => NothingIsLeftOpen
  <2> SUFFICES ASSUME IInv, stack = <<>> PROVE NothingIsLeftOpen
    BY DEF NothingIsLeftOpen
  <2>1. \A kind : Open(kind) = {}
    BY DEF Open, Of
  <2>2. InEdited({}) = {} /\ Dedupe({}, {}) = NoRuns
    BY DEF InEdited, Dedupe, NoRuns
  <2>3. known = NoRuns /\ seen = NoRuns /\ llmRuns = {}
    BY <2>1, <2>2 DEF IInv, DedupesOK
  <2>4. byRun = {} /\ openByName = {} /\ \A i \in 1 .. Len(nodes) : nodes[i].status = "closed"
    BY <2>1 DEF IInv, RecordsOK
  <2>5. DOMAIN nodes = 1 .. Len(nodes)
    BY DEF IInv, Types
  <2> QED
    BY <2>3, <2>4, <2>5 DEF NothingIsLeftOpen
<1> QED
  BY <1>1, Invariance, PTL

(* Each call of the edited node is sent the text of its number, or that of *)
(* call 0, and `applied` counts the calls that were changed                *)
(* (PromptOverride.on_chat_model_start).                                   *)
THEOREM EditsReachTheModel == Spec => []EditedPromptReachesTheModel
<1>1. IInv => EditedPromptReachesTheModel
  <2> SUFFICES ASSUME IInv PROVE EditedPromptReachesTheModel
    OBVIOUS
  <2>1. /\ Types /\ PromptsOK /\ answered \in Seq(Answers) /\ Len(answered) \in Nat
        /\ DOMAIN answered = 1 .. Len(answered)
    BY DEF IInv, Types
  <2>2. Sublist(answered, {k \in DOMAIN answered : answered[k].node = Edited}) = EditedCalls
    BY <2>1 DEF EditedCalls
  <2>3. EditedCalls \in Seq(Answers)
    <3> DEFINE idx == {k \in 1 .. Len(answered) : answered[k].node = Edited}
    <3>1. idx \subseteq 1 .. Len(answered) /\ EditedCalls = Sublist(answered, idx)
      BY DEF EditedCalls
    <3> HIDE DEF idx
    <3> QED
      BY <2>1, <3>1, SublistEnumerates
  <2>4. DOMAIN EditedCalls = 1 .. Len(EditedCalls)
    BY <2>3
  <2>5. ASSUME NEW k \in DOMAIN EditedCalls
        PROVE  IF k - 1 \in DOMAIN overrides THEN EditedCalls[k].entry.prompt = overrides[k - 1]
               ELSE 0 \in DOMAIN overrides => EditedCalls[k].entry.prompt = overrides[0]
    <3>1. EditedCalls[k].entry.prompt = Wanted(k - 1, Original)
      BY <2>1, <2>4 DEF PromptsOK
    <3> QED
      BY <3>1 DEF Wanted
  <2>6. ASSUME stack = <<>>
        PROVE  applied = Cardinality({k \in DOMAIN answered : answered[k].entry.prompt # Original})
    <3>1. Open("call") = {}
      BY <2>6 DEF Open, Of
    <3>2. applied = Cardinality(Changed) + 0
      BY <2>1, <3>1 DEF PromptsOK
    <3>3. applied = Cardinality(Changed)
      <4>1. Cardinality(Changed) \in Nat
        BY <2>1, ChangedIsFinite
      <4> QED
        BY <3>2, <4>1
    <3>4. {k \in DOMAIN answered : answered[k].entry.prompt # Original} = Changed
      BY <2>1 DEF Changed
    <3> QED
      BY <3>3, <3>4
  <2> QED
    BY <2>2, <2>5, <2>6 DEF EditedPromptReachesTheModel
<1> QED
  BY <1>1, Invariance, PTL

=============================================================================
