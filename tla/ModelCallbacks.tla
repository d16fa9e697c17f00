--------------------------- MODULE ModelCallbacks ---------------------------
(***************************************************************************)
(* What the debug routes hang on a run (src/src/workflow/observability):   *)
(* PromptOverride, which edits the prompts of one node, and DebugTracker,  *)
(* which records every node and every model call; each of them has its own *)
(* DuplicateRuns.                                                          *)
(*                                                                         *)
(* The run itself is the environment: LangGraph runs the nodes of Path one *)
(* after the other, or the edited node alone (a run without edits carries  *)
(* no PromptOverride; here it carries one that has nothing to say).  A     *)
(* node may run chains inside it, and the node of a graph of its own       *)
(* (Inner, as the agents of LangChain do); it calls a model, and once more *)
(* for each fallback provider, and tools, several at a time.  A leased     *)
(* model may call the model it wraps with the same message objects, once   *)
(* per key, which announces the same call again.  `stack` holds what is    *)
(* running; every start and end is one step, with both handlers' callbacks *)
(* in it: the run waits for them, and PromptOverride is run_inline, hence  *)
(* first.  The masking of the snapshot is left out.                        *)
(*                                                                         *)
(* The handlers take any run LangGraph may make, and so does the module:   *)
(* tools side by side and graphs inside a node are what DebugTracker has   *)
(* code for and its tests exercise; no node of this repository runs them.  *)
(***************************************************************************)
EXTENDS Naturals, Sequences, SequencesExt, FiniteSets, Lists

CONSTANTS
    Path,        \* the nodes of the run, in order
    Inner,       \* the node of a graph inside a node
    Edited,      \* the node whose prompts are edited
    Texts,       \* what an edited prompt may say
    MaxCall,     \* highest number of a call that may have its own prompt
    MaxTools,    \* bound on the tools that are run
    MaxRuns      \* bound on the runs that are started

Original == "original"

\* The tools a call of a model offers it: the schema of its structured output; and the
\* tool that is run.
Offered == {"schema"}
Tool == "tool"

ASSUME PathAssumption == Path \in Seq(STRING)

\* The routes refuse to replay a node that the run did not reach.
ASSUME EditedAssumption == Edited \in Range(Path)

ASSUME BoundsAssumption == MaxCall \in Nat /\ MaxTools \in Nat /\ MaxRuns \in Nat

VARIABLES
    stack,       \* the runs in progress, the innermost one last
    left,        \* the nodes that have not run
    started,     \* how many runs were started; a run's id is its number
    content,     \* the system prompt of each message list, by creation
    overrides,   \* PromptOverride.overrides, for the system message
    calls, applied,         \* PromptOverride.calls and .applied
    known,                  \* PromptOverride._dedupe
    nodes,       \* DebugTracker._nodes
    byRun,       \* DebugTracker._by_run: <<run, index in nodes>>
    openByName,  \* DebugTracker._open_by_name: <<name, index in nodes>>
    llmRuns,     \* DebugTracker._llm_runs: <<run, call as announced>>
    orphans,     \* DebugTracker._orphan_llm
    seen,        \* DebugTracker._dedupe
    parentOf,    \* DebugTracker._parent_of, 0 for none, by run
    recordOf,    \* DebugTracker._record_of, 0 for none, by run
    toolRuns,    \* DebugTracker._tool_runs: <<run, node, parent>>
    orphanTools, \* DebugTracker._orphan_tools
    answered,    \* history: the calls that ended, as the model saw them, and the run of
                 \* the node that made each of them
    used,        \* history: of each tool call that ended, the nodes it ran in
    asking       \* history: the nodes in which a model was called

overrideVars == <<overrides, calls, applied, known>>
toolVars == <<toolRuns, orphanTools, used>>
runVars == <<parentOf, recordOf>>
vars == <<stack, left, started, content, overrideVars, nodes, byRun, openByName, llmRuns,
          orphans, seen, runVars, toolVars, answered, asking>>

----------------------------------------------------------------------------
(* DuplicateRuns: the open runs by key, and the runs known to be duplicates *)

NoRuns == [open |-> {}, duplicates |-> {}]

\* Mutant: every start opens a call.
IsDuplicateMutant(d, key) == FALSE

IsDuplicate(d, key) == \E p \in d.open : p.key = key

DedupeStart(d, run, key) ==
    IF IsDuplicate(d, key) THEN [d EXCEPT !.duplicates = @ \cup {run}]
    ELSE [d EXCEPT !.open = @ \cup {[key |-> key, run |-> run]}]

\* Mutant: a call that ended stays open.
DedupeFinishMutant(d, run) == [d EXCEPT !.duplicates = @ \ {run}]

\* finish, whose answer is run \in d.duplicates.
DedupeFinish(d, run) ==
    IF run \in d.duplicates THEN [d EXCEPT !.duplicates = @ \ {run}]
    ELSE [d EXCEPT !.open = {p \in @ : p.run # run}]

----------------------------------------------------------------------------
(* PromptOverride *)

\* Mutant: only a call with a text of its own is edited.
WantedMutant(call, prompt) == IF call \in DOMAIN overrides THEN overrides[call] ELSE prompt

\* The text of a call: its own, or that of call 0 (repeat_first), or `prompt`, as it was.
Wanted(call, prompt) ==
    IF call \in DOMAIN overrides THEN overrides[call]
    ELSE IF 0 \in DOMAIN overrides THEN overrides[0] ELSE prompt

\* on_chat_model_start: a call of the edited node that was not announced yet gets its text.
OverrideStart(run, node, message, prompts) ==
    LET key == <<Edited, message>>
        new == node = Edited /\ ~IsDuplicate(known, key)
        text == IF new THEN Wanted(calls, prompts[message]) ELSE prompts[message]
    IN /\ content' = [prompts EXCEPT ![message] = text]
       /\ known' = IF node = Edited THEN DedupeStart(known, run, key) ELSE known
       /\ calls' = IF new THEN calls + 1 ELSE calls
       /\ applied' = IF text # prompts[message] THEN applied + 1 ELSE applied
       /\ UNCHANGED overrides

\* on_llm_end and on_llm_error.
OverrideEnd(run) ==
    /\ known' = DedupeFinish(known, run)
    /\ UNCHANGED <<overrides, calls, applied>>

----------------------------------------------------------------------------
(* DebugTracker *)

Record(node) ==
    [node |-> node, status |-> "running", llm_calls |-> <<>>, tools |-> {}, tool_calls |-> 0]

\* on_chain_start: a run that has its node's name and is not inside another one.
ChainStart(run, name, node, parent) ==
    /\ parentOf' = Append(parentOf, parent)
    /\ IF name = node /\ \A o \in openByName : o[1] # name
       THEN /\ nodes' = Append(nodes, Record(name))
            /\ byRun' = byRun \cup {<<run, Len(nodes) + 1>>}
            /\ openByName' = openByName \cup {<<name, Len(nodes) + 1>>}
            /\ recordOf' = Append(recordOf, Len(nodes) + 1)
       ELSE recordOf' = Append(recordOf, 0) /\ UNCHANGED <<nodes, byRun, openByName>>

\* The other runs are in neither dict.
NoChainStart == parentOf' = Append(parentOf, 0) /\ recordOf' = Append(recordOf, 0)

\* Mutant: the name alone closes the record.
CloseMutant(run, name) ==
    /\ nodes' = [i \in DOMAIN nodes |-> IF <<name, i>> \in openByName
                                        THEN [nodes[i] EXCEPT !.status = "closed"] ELSE nodes[i]]
    /\ byRun' = {b \in byRun : b[1] # run}
    /\ openByName' = {o \in openByName : o[1] # name}

\* _close, for "ok" and for "error": a run without a record of its own closes nothing.
Close(run, name) ==
    /\ nodes' = [i \in DOMAIN nodes |-> IF <<run, i>> \in byRun
                                        THEN [nodes[i] EXCEPT !.status = "closed"] ELSE nodes[i]]
    /\ byRun' = {b \in byRun : b[1] # run}
    /\ openByName' = {o \in openByName : <<run, o[2]>> \notin byRun}

\* The records of a run and of the runs it is in.
RecordsFrom[run \in 0 .. started] ==
    IF run = 0 THEN {} ELSE ({recordOf[run]} \ {0}) \cup RecordsFrom[parentOf[run]]

\* The record of the open node of that name, or else the one that was opened last.
Fallback(node) ==
    LET open == {o[2] : o \in openByName}
        named == {o[2] : o \in {o \in openByName : o[1] = node}}
    IN IF named # {} THEN named ELSE {i \in open : \A j \in open : j <= i}

\* Mutant: only the innermost record.
OwnersMutant(node, parent) ==
    LET found == RecordsFrom[parent] IN {i \in found : \A j \in found : j <= i}

\* _owners.
Owners(node, parent) ==
    IF RecordsFrom[parent] # {} THEN RecordsFrom[parent] ELSE Fallback(node)

\* _register_tools: also for an announcement that is a duplicate.
RegisterTools(node, parent) ==
    nodes' = [i \in DOMAIN nodes |->
                IF i \in Owners(node, parent) THEN [nodes[i] EXCEPT !.tools = @ \cup Offered]
                ELSE nodes[i]]

\* on_chat_model_start, after PromptOverride has put the text in its place.
TrackerStart(run, node, parent, message) ==
    LET key == <<node, message>>
        call == [node |-> node, prompt |-> content'[message]]
    IN /\ RegisterTools(node, parent)
       /\ llmRuns' = IF IsDuplicate(seen, key) THEN llmRuns ELSE llmRuns \cup {<<run, call>>}
       /\ seen' = DedupeStart(seen, run, key)
       /\ NoChainStart
       /\ UNCHANGED <<byRun, openByName, orphans>>

\* _finish_llm: into the record of the node that is open now.
Finish(run, call, failed) ==
    LET entry == [prompt |-> call.prompt, failed |-> failed]
        owner == {o[2] : o \in {o \in openByName : o[1] = call.node}}
    IN IF owner = {}
       THEN orphans' = Append(orphans, entry) /\ UNCHANGED nodes
       ELSE /\ nodes' = [i \in DOMAIN nodes |->
                           IF i \in owner THEN [nodes[i] EXCEPT !.llm_calls = Append(@, entry)]
                           ELSE nodes[i]]
            /\ UNCHANGED orphans

\* on_llm_end and on_llm_error.
TrackerEnd(run, failed) ==
    /\ seen' = DedupeFinish(seen, run)
    /\ IF run \in seen.duplicates \/ \A l \in llmRuns : l[1] # run
       THEN UNCHANGED <<nodes, llmRuns, orphans>>
       ELSE \E l \in llmRuns :
              /\ l[1] = run
              /\ llmRuns' = llmRuns \ {l}
              /\ Finish(run, l[2], failed)
    /\ UNCHANGED <<byRun, openByName>>

\* _finish_tool: the call is in the record of each node it ran in, and so is the tool.
FinishTool(run, node, parent) ==
    LET owners == Owners(node, parent)
    IN /\ nodes' = [i \in DOMAIN nodes |->
                       IF i \in owners
                       THEN [nodes[i] EXCEPT !.tool_calls = @ + 1, !.tools = @ \cup {Tool}]
                       ELSE nodes[i]]
       /\ orphanTools' = IF owners = {} THEN orphanTools + 1 ELSE orphanTools
       /\ toolRuns' = {t \in toolRuns : t[1] # run}

----------------------------------------------------------------------------
(* The run *)

Run(kind, name, node, message) ==
    [kind |-> kind, id |-> started + 1, name |-> name, node |-> node, message |-> message]

Push(run) ==
    /\ started < MaxRuns
    /\ started' = started + 1
    /\ stack' = Append(stack, run)

Pop == stack' = Front(stack) /\ UNCHANGED started

Top(kinds) == stack # <<>> /\ Last(stack).kind \in kinds

\* A whole run, which edits nothing, or a replay: the edited node alone.
Init ==
    /\ stack = <<>> /\ started = 0 /\ content = <<>>
    /\ \/ left = Path /\ overrides = <<>>
       \/ left = <<Edited>> /\ overrides \in UNION {[K -> Texts] : K \in SUBSET (0 .. MaxCall)}
    /\ calls = 0 /\ applied = 0 /\ known = NoRuns
    /\ nodes = <<>> /\ byRun = {} /\ openByName = {} /\ llmRuns = {} /\ orphans = <<>>
    /\ seen = NoRuns
    /\ parentOf = <<>> /\ recordOf = <<>> /\ toolRuns = {} /\ orphanTools = 0
    /\ answered = <<>> /\ used = <<>> /\ asking = {}

\* What is running inside of the innermost run, and in which nodes.
Parent == IF stack = <<>> THEN 0 ELSE Last(stack).id
Around == {stack[k].id : k \in {k \in DOMAIN stack : stack[k].kind = "node"}}

NodeStarts ==
    /\ stack = <<>> /\ left # <<>>
    /\ Push(Run("node", Head(left), Head(left), 0))
    /\ left' = Tail(left)
    /\ ChainStart(started + 1, Head(left), Head(left), 0)
    /\ UNCHANGED <<content, overrideVars, llmRuns, orphans, seen, toolVars, answered, asking>>

\* The node of a graph that the node runs.
InnerNodeStarts ==
    /\ Top({"node", "chain"}) /\ Last(stack).node # Inner
    /\ Push(Run("node", Inner, Inner, 0))
    /\ ChainStart(started + 1, Inner, Inner, Parent)
    /\ UNCHANGED <<left, content, overrideVars, llmRuns, orphans, seen, toolVars, answered, asking>>

\* A chain inside the node, which may have the node's name.
ChainStarts ==
    /\ Top({"node"})
    /\ \E name \in {Last(stack).node, "RunnableSequence"} :
         /\ Push(Run("chain", name, Last(stack).node, 0))
         /\ ChainStart(started + 1, name, Last(stack).node, Parent)
    /\ UNCHANGED <<left, content, overrideVars, llmRuns, orphans, seen, toolVars, answered, asking>>

\* on_chain_end or on_chain_error; a node that raised is the last one of the run.
ChainEnds ==
    /\ Top({"node", "chain"}) /\ \A t \in toolRuns : t[3] # Parent
    /\ Close(Last(stack).id, Last(stack).name)
    /\ left' \in {left} \cup (IF Len(stack) = 1 THEN {<<>>} ELSE {})
    /\ Pop
    /\ UNCHANGED <<content, overrideVars, llmRuns, orphans, seen, runVars, toolVars, answered, asking>>

\* Both handlers hear that a model is called with the list `message` of `prompts`.
ModelStarts(kind, message, prompts) ==
    LET node == Last(stack).node
    IN /\ Push(Run(kind, "model", node, message))
       /\ OverrideStart(started + 1, node, message, prompts)
       /\ TrackerStart(started + 1, node, Parent, message)
       /\ asking' = asking \cup Around
       /\ UNCHANGED <<left, toolVars, answered>>

\* A provider is asked: its prompt is built anew from the dict of the node.
CallStarts ==
    /\ Top({"node", "chain"})
    /\ ModelStarts("call", Len(content) + 1, Append(content, Original))

\* The leased model calls the one it wraps, with the same messages.
WrappedCallStarts ==
    /\ Top({"call"})
    /\ ModelStarts("wrapped", Last(stack).message, content)

\* on_llm_end or on_llm_error, of either.
ModelEnds(failed) ==
    /\ OverrideEnd(Last(stack).id)
    /\ TrackerEnd(Last(stack).id, failed)
    /\ Pop
    /\ UNCHANGED <<left, content, runVars, toolVars, asking>>

WrappedCallEnds ==
    /\ Top({"wrapped"})
    /\ \E failed \in BOOLEAN : ModelEnds(failed)
    /\ UNCHANGED answered

CallEnds ==
    /\ Top({"call"})
    /\ \E failed \in BOOLEAN :
         /\ ModelEnds(failed)
         /\ answered' = Append(answered,
                [run |-> Max(Around), node |-> Last(stack).node,
                 entry |-> [prompt |-> content[Last(stack).message], failed |-> failed]])

\* A tool runs beside the innermost run, and beside other tools.
ToolStarts ==
    /\ Top({"node", "chain"})
    /\ Cardinality(toolRuns) + Len(used) < MaxTools
    /\ started < MaxRuns /\ started' = started + 1
    /\ toolRuns' = toolRuns \cup {<<started + 1, Last(stack).node, Parent>>}
    /\ NoChainStart
    /\ UNCHANGED <<stack, left, content, overrideVars, nodes, byRun, openByName, llmRuns, orphans,
                   seen, orphanTools, answered, used, asking>>

\* on_tool_end or on_tool_error.
ToolEnds ==
    /\ \E t \in toolRuns :
         /\ FinishTool(t[1], t[2], t[3])
         /\ used' = Append(used, {r \in Around : r <= t[3]})
    /\ UNCHANGED <<stack, left, started, content, overrideVars, byRun, openByName, llmRuns, orphans,
                   seen, runVars, answered, asking>>

Next ==
    \/ NodeStarts \/ InnerNodeStarts \/ ChainStarts \/ ChainEnds \/ ToolStarts \/ ToolEnds
    \/ CallStarts \/ WrappedCallStarts \/ WrappedCallEnds \/ CallEnds

Spec == Init /\ [][Next]_vars

----------------------------------------------------------------------------
(* Properties *)

Dedupes ==
    [open : SUBSET [key : (Range(Path) \cup {Inner}) \X (1 .. MaxRuns), run : 1 .. MaxRuns],
     duplicates : SUBSET (1 .. MaxRuns)]

(* Every variable has its type, every index of the tracker is the index of *)
(* a record, and no message list is counted as two calls.                  *)
TypeOK ==
    /\ started \in 0 .. MaxRuns /\ Len(stack) <= started
    /\ content \in Seq(Texts \cup {Original})
    /\ calls \in 0 .. Len(content) /\ applied \in 0 .. calls
    /\ known \in Dedupes /\ seen \in Dedupes
    /\ \A i \in DOMAIN nodes : /\ nodes[i].node \in Range(Path) \cup {Inner}
                               /\ nodes[i].status \in {"running", "closed"}
    /\ byRun \subseteq (1 .. MaxRuns) \X DOMAIN nodes
    /\ openByName \subseteq (Range(Path) \cup {Inner}) \X DOMAIN nodes
    /\ \A run \in 1 .. started : recordOf[run] \in {0} \cup DOMAIN nodes /\ parentOf[run] < run
    /\ \A l \in llmRuns : l[1] \in 1 .. MaxRuns

(* The record of a node holds each call that ended once, however often it  *)
(* was announced, when the node itself made it, in order, with the prompt  *)
(* the model was sent (the edited one) and how the call ended; no call is  *)
(* left outside the nodes (llm_calls_outside_nodes).                       *)
EveryCallIsRecordedOnce ==
    LET ended == [k \in DOMAIN answered |-> answered[k].entry]
    IN /\ \A run \in DOMAIN recordOf : recordOf[run] # 0 =>
            LET made == {k \in DOMAIN answered : answered[k].run = run}
            IN nodes[recordOf[run]].llm_calls = Sublist(ended, made)
       /\ \A k \in DOMAIN answered :
            LET record == recordOf[answered[k].run]
            IN record # 0 /\ nodes[record].node = answered[k].node
       /\ orphans = <<>>

(* A tool call is in the record of the node that made it and of every node *)
(* around that one, once, also when several tools run at a time, and in no *)
(* other; none is left outside the nodes.  The tools of a record are those *)
(* that models were offered, and those that were run, inside of it: so an  *)
(* agent's node shows what the graph inside it could use and did use.      *)
ToolsAreUnderTheirNodes ==
    /\ orphanTools = 0
    /\ \A run \in DOMAIN recordOf : recordOf[run] # 0 =>
         LET record == nodes[recordOf[run]]
             made == {k \in DOMAIN used : run \in used[k]}
         IN /\ record.tool_calls = Cardinality(made)
            /\ record.tools = (IF run \in asking THEN Offered ELSE {})
                                 \cup (IF made # {} THEN {Tool} ELSE {})

(* Between two nodes neither handler holds anything open: a key of         *)
(* DuplicateRuns left behind would hide a later call whose messages take   *)
(* the freed identities, and a record left open would take the calls of a  *)
(* later one.                                                              *)
NothingIsLeftOpen ==
    stack = <<>> =>
        /\ known = NoRuns /\ seen = NoRuns
        /\ byRun = {} /\ openByName = {} /\ llmRuns = {}
        /\ \A i \in DOMAIN nodes : nodes[i].status = "closed"

(* An edited prompt is what the model gets: each call of the edited node   *)
(* is sent the text of its own number, whatever was announced twice before *)
(* it, and a call without one (a fallback provider's) that of the first    *)
(* call; and `applied`, which the routes answer as overrides_applied,      *)
(* counts the calls whose prompt was changed.                              *)
EditedPromptReachesTheModel ==
    LET edited == Sublist(answered, {k \in DOMAIN answered : answered[k].node = Edited})
    IN /\ \A k \in DOMAIN edited :
            IF k - 1 \in DOMAIN overrides THEN edited[k].entry.prompt = overrides[k - 1]
            ELSE 0 \in DOMAIN overrides => edited[k].entry.prompt = overrides[0]
       /\ stack = <<>> =>
            applied = Cardinality({k \in DOMAIN answered : answered[k].entry.prompt # Original})

=============================================================================
