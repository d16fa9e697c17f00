----------------------------- MODULE DebugReplay -----------------------------
(***************************************************************************)
(* The replay of one node of a stored run: run_single_node                 *)
(* (workflow/debug_replay.py), as _replay_certificate_node                 *)
(* (api/routes/debug_routes.py) calls it, over the checkpoints that        *)
(* LangGraph keeps of the run of debug_graph (workflow/graph/graph.py).    *)
(*                                                                         *)
(* A thread is the sequence of its snapshots, the oldest one first: `next` *)
(* as in LangGraph, `values` what has been written so far, by writer.  A   *)
(* run has one turn, hence turn 0, and six snapshots at most, so that      *)
(* MAX_HISTORY (2000) cuts nothing off; REPLAY_BLOCKED_NODES is empty.     *)
(* What keeps a run in the store and puts it out is DebugRuns' subject:    *)
(* here a registered run may be dropped at any moment.                     *)
(***************************************************************************)
EXTENDS Naturals, Sequences, SequencesExt, FiniteSets

CONSTANTS
    None,
    Runs,        \* the runs of one admin
    Replays,     \* requests with a `custom` part
    Outputs      \* what a node other than the guardrail may write

ASSUME IdsAssumption == Runs \cap Replays = {} /\ None \notin Runs \cup Replays

START == "__start__"
Nodes == {"security_guardrail", "nr10_agent", "nr35_agent", "consolidation"}
Writers == Nodes \cup {START}
Values == UNION {[W -> Runs \cup Outputs \cup {"safe", "unsafe"}] : W \in SUBSET Writers}

ASSUME NoneAssumption == None \notin Values \cup {404, 409}

VARIABLES
    threads,     \* the snapshots of each thread, <<>> when there is none
    phase,       \* of a run: "idle", "running", "over"
    registered,  \* the runs DebugRunStore holds
    pc,          \* where each replay is
    target, node, occurrence,   \* what it asks for
    turn,        \* its copy of the run's snapshots
    outcome,     \* the status and `next` it will answer, or None
    began,       \* history: the values each node of a run began with, or None
    ran          \* history: the nodes a replay ran, with the values they began with

askVars == <<target, node, occurrence>>
vars == <<threads, phase, registered, pc, askVars, turn, outcome, began, ran>>

NoValues == [writer \in {} |-> None]

Init ==
    /\ threads = [t \in Runs \cup Replays |-> <<>>]
    /\ phase = [r \in Runs |-> "idle"]
    /\ registered = {}
    /\ pc = [p \in Replays |-> "idle"]
    /\ target = [p \in Replays |-> None]
    /\ node = [p \in Replays |-> None]
    /\ occurrence = [p \in Replays |-> 0]
    /\ turn = [p \in Replays |-> <<>>]
    /\ outcome = [p \in Replays |-> None]
    /\ began = [r \in Runs |-> [n \in Nodes |-> None]]
    /\ ran = [p \in Replays |-> <<>>]

----------------------------------------------------------------------------
(* The graph *)

Writes(n) == IF n = "security_guardrail" THEN {"safe", "unsafe"} ELSE Outputs

\* The edges, and _check_security.
Successor(n, values) ==
    CASE n = START -> <<"security_guardrail">>
      [] n = "security_guardrail" ->
            IF n \in DOMAIN values /\ values[n] = "safe" THEN <<"nr10_agent">> ELSE <<"consolidation">>
      [] n = "nr10_agent" -> <<"nr35_agent">>
      [] n = "nr35_agent" -> <<"consolidation">>
      [] n = "consolidation" -> <<>>

Snapshot(next, values) == [next |-> next, values |-> values]

\* The snapshot once n has written.
Wrote(n, values) == Snapshot(Successor(n, values), values)

\* Mutant: what the node writes is lost.
PutMutant(values, n, output) == [w \in DOMAIN values \cup {n} |-> IF w = n THEN None ELSE values[w]]

Put(values, n, output) == [w \in DOMAIN values \cup {n} |-> IF w = n THEN output ELSE values[w]]

----------------------------------------------------------------------------
(* A validation of the debug route, as far as its thread goes *)

\* ainvoke: the checkpoint of the input and the one with the input written.
Validate(r) ==
    /\ phase[r] = "idle"
    /\ phase' = [phase EXCEPT ![r] = "running"]
    /\ LET input == Put(NoValues, START, r)
       IN threads' = [threads EXCEPT ![r] = <<Snapshot(<<START>>, NoValues), Wrote(START, input)>>]
    /\ UNCHANGED <<registered, pc, askVars, turn, outcome, began, ran>>

\* The node that is next runs on the values of the last snapshot.
Begins(r, n) ==
    /\ phase[r] = "running" /\ Last(threads[r]).next = <<n>>
    /\ began' = [began EXCEPT ![r][n] = Last(threads[r]).values]

NodeReturns(r, n) ==
    /\ Begins(r, n)
    /\ \E output \in Writes(n) :
         threads' = [threads EXCEPT ![r] = Append(@, Wrote(n, Put(Last(@).values, n, output)))]
    /\ UNCHANGED <<phase, registered, pc, askVars, turn, outcome, ran>>

\* A node that raises leaves no snapshot: the last one still says it is next.
NodeRaises(r, n) ==
    /\ Begins(r, n)
    /\ phase' = [phase EXCEPT ![r] = "raised"]
    /\ UNCHANGED <<threads, registered, pc, askVars, turn, outcome, ran>>

\* debug_runs.add, at the end of either.
Register(r) ==
    /\ \/ phase[r] = "raised"
       \/ phase[r] = "running" /\ Last(threads[r]).next = <<>>
    /\ phase' = [phase EXCEPT ![r] = "over"]
    /\ registered' = registered \cup {r}
    /\ UNCHANGED <<threads, pc, askVars, turn, outcome, began, ran>>

\* _drop, for the limits or the age, in some other request; then its await.
Drop(r) ==
    /\ r \in registered
    /\ registered' = registered \ {r}
    /\ UNCHANGED <<threads, phase, pc, askVars, turn, outcome, began, ran>>

ThreadDeleted(r) ==
    /\ phase[r] = "over" /\ r \notin registered /\ threads[r] # <<>>
    /\ threads' = [threads EXCEPT ![r] = <<>>]
    /\ UNCHANGED <<phase, registered, pc, askVars, turn, outcome, began, ran>>

----------------------------------------------------------------------------
(* A replay *)

Goto(p, where) == pc' = [pc EXCEPT ![p] = where]

Result(status, next) == [status |-> status, next |-> next]

\* exists() (each await may be overtaken, as in DebugRuns): a run that is not in the store is a 404.
Ask(p) ==
    /\ pc[p] = "idle"
    /\ \E r \in Runs, n \in Nodes \cup {START, "unknown"}, k \in 0 .. 1 :
         /\ target' = [target EXCEPT ![p] = r]
         /\ node' = [node EXCEPT ![p] = n]
         /\ occurrence' = [occurrence EXCEPT ![p] = k]
         /\ IF r \in registered
            THEN Goto(p, "reading") /\ UNCHANGED outcome
            ELSE Goto(p, "done") /\ outcome' = [outcome EXCEPT ![p] = Result(404, <<>>)]
    /\ UNCHANGED <<threads, phase, registered, turn, began, ran>>

\* The snapshots from which node n was run, and the one with k of them before it.
Candidates(snapshots, n) == {i \in DOMAIN snapshots : snapshots[i].next = <<n>>}

Target(snapshots, n, k) ==
    LET candidates == Candidates(snapshots, n)
    IN  CHOOSE i \in candidates : Cardinality({j \in candidates : j < i}) = k

\* Mutant: as if the snapshot of the input had not been kept.
HasPreviousMutant(snapshots, i) == i > 2 /\ Len(snapshots[i - 1].next) = 1

\* previous is the snapshot of the node that ran before.
HasPrevious(snapshots, i) == i > 1 /\ Len(snapshots[i - 1].next) = 1

\* What run_single_node refuses before it makes a copy.
Refusal(snapshots, n, k) ==
    IF snapshots = <<>> \/ k >= Cardinality(Candidates(snapshots, n)) THEN 404
    ELSE IF HasPrevious(snapshots, Target(snapshots, n, k)) THEN None ELSE 409

\* _turns, and the checks of what it gave.
ReadHistory(p) ==
    /\ pc[p] = "reading"
    /\ turn' = [turn EXCEPT ![p] = threads[target[p]]]
    /\ LET refusal == Refusal(turn'[p], node[p], occurrence[p])
       IN IF refusal = None
          THEN Goto(p, "copying") /\ UNCHANGED outcome
          ELSE Goto(p, "done") /\ outcome' = [outcome EXCEPT ![p] = Result(refusal, <<>>)]
    /\ UNCHANGED <<threads, phase, registered, askVars, began, ran>>

\* Mutant: the node is run on the run's own thread.
CopyIdMutant(p) == target[p]

CopyId(p) == p

\* Mutant: the state the run ended with, for the one the node began with.
RestoredMutant(snapshots, i) == Wrote(snapshots[i - 1].next[1], Last(snapshots).values)

\* What is written to the copy, as the node before the target would have written it.
Restored(snapshots, i) == Wrote(snapshots[i - 1].next[1], snapshots[i].values)

\* aupdate_state(copy, target.values, as_node=previous.next[0]), and the test that
\* this leads to the node.
CopyState(p) ==
    /\ pc[p] = "copying"
    /\ LET restored == Restored(turn[p], Target(turn[p], node[p], occurrence[p]))
       IN /\ threads' = [threads EXCEPT ![CopyId(p)] = Append(@, restored)]
          /\ IF restored.next = <<node[p]>>
             THEN Goto(p, "running") /\ UNCHANGED outcome
             ELSE Goto(p, "cleaning") /\ outcome' = [outcome EXCEPT ![p] = Result(409, <<>>)]
    /\ UNCHANGED <<phase, registered, askVars, turn, began, ran>>

\* The checkpointer raises instead.
CopyFails(p) ==
    /\ pc[p] = "copying"
    /\ outcome' = [outcome EXCEPT ![p] = Result(500, <<>>)]
    /\ Goto(p, "cleaning")
    /\ UNCHANGED <<threads, phase, registered, askVars, turn, began, ran>>

\* Where ainvoke goes on from.
Entry(p) == Last(threads[CopyId(p)])

\* It stops after the node, or with what the node raises.
NodeRuns(p) ==
    /\ pc[p] = "running"
    /\ ran' = [ran EXCEPT ![p] = Append(@, [node |-> Entry(p).next[1], values |-> Entry(p).values])]
    /\ Goto(p, "cleaning")
    /\ \/ \E output \in Writes(node[p]) :
            LET after == Wrote(node[p], Put(Entry(p).values, node[p], output))
            IN /\ threads' = [threads EXCEPT ![CopyId(p)] = Append(@, after)]
               /\ outcome' = [outcome EXCEPT ![p] = Result(200, after.next)]
       \/ outcome' = [outcome EXCEPT ![p] = Result(500, <<>>)] /\ UNCHANGED threads
    /\ UNCHANGED <<phase, registered, askVars, turn, began>>

\* finally: a deletion that raises is only logged, and the answer is given.
CleanUp(p) ==
    /\ pc[p] = "cleaning"
    /\ threads' \in {threads, [threads EXCEPT ![CopyId(p)] = <<>>]}
    /\ turn' = [turn EXCEPT ![p] = <<>>]
    /\ Goto(p, "done")
    /\ UNCHANGED <<phase, registered, askVars, outcome, began, ran>>

----------------------------------------------------------------------------

RunStep(r) ==
    \/ Validate(r) \/ Register(r) \/ Drop(r) \/ ThreadDeleted(r)
    \/ \E n \in Nodes : NodeReturns(r, n) \/ NodeRaises(r, n)

ReplayStep(p) ==
    \/ Ask(p) \/ ReadHistory(p) \/ CopyState(p) \/ CopyFails(p) \/ NodeRuns(p) \/ CleanUp(p)

Next == (\E r \in Runs : RunStep(r)) \/ (\E p \in Replays : ReplayStep(p))

Spec == Init /\ [][Next]_vars

----------------------------------------------------------------------------
(* Properties *)

Nexts == {<<>>} \cup {<<w>> : w \in Writers}
Snapshots == [next : Nexts, values : Values]
Results == [status : {200, 404, 409, 500}, next : Nexts]

(* Types of the threads and of the replays' locals. *)
TypeOK ==
    /\ threads \in [Runs \cup Replays -> Seq(Snapshots)]
    /\ phase \in [Runs -> {"idle", "running", "raised", "over"}]
    /\ registered \subseteq Runs
    /\ pc \in [Replays -> {"idle", "reading", "copying", "running", "cleaning", "done"}]
    /\ target \in [Replays -> Runs \cup {None}]
    /\ node \in [Replays -> Nodes \cup {START, "unknown", None}]
    /\ occurrence \in [Replays -> 0 .. 1]
    /\ turn \in [Replays -> Seq(Snapshots)]
    /\ outcome \in [Replays -> Results \cup {None}]
    /\ began \in [Runs -> [Nodes -> Values \cup {None}]]
    /\ ran \in [Replays -> Seq([node : Nodes, values : Values])]

(* What a replay shows is what the run would have shown: it runs the node  *)
(* it was asked for and no other, once, on the very values the run's own   *)
(* node began with, whatever that node wrote then, whether it returned or  *)
(* raised, and although the run may be dropped or replayed by others       *)
(* meanwhile.                                                              *)
ReplayRepeatsTheRun ==
    \A p \in Replays :
        ran[p] # <<>> => ran[p] = <<[node |-> node[p], values |-> began[target[p]][node[p]]]>>

(* The step at most deletes what is kept of runs that are over.            *)
OnlyDeleted ==
    \A r \in Runs : phase[r] = "over" /\ threads'[r] # threads[r] =>
        threads'[r] = <<>> /\ r \notin registered

(* A replay leaves no mark on the run it repeats: once a run is over its   *)
(* history never changes, and goes only after the run has left the store,  *)
(* so that it can be replayed any number of times.                         *)
RunIsUntouched == [][OnlyDeleted]_vars

(* What the step answers to replay p is true of the run.                   *)
AnswerIsRight(p) ==
    /\ outcome'[p].status \in {404, 409} =>
         \/ target'[p] \notin registered
         \/ occurrence'[p] > 0 \/ node'[p] \notin Nodes
         \/ began[target'[p]][node'[p]] = None
    /\ outcome'[p].status = 200 =>
         /\ began[target[p]][node[p]] # None
         /\ \E output \in Writes(node[p]) :
              outcome'[p].next =
                  Successor(node[p], Put(began[target[p]][node[p]], node[p], output))

(* And that of every replay it answers.                                    *)
AnsweredRightly == \A p \in Replays : outcome'[p] # outcome[p] => AnswerIsRight(p)

(* The refusals say what they say: an admin who asks for a node that ran   *)
(* in a run the store has kept is not turned away, the first node and one  *)
(* that raised included; and the answer to one that was run names the node *)
(* the graph would have gone on with.                                      *)
RefusedOnlyIfItDidNotRun == [][AnsweredRightly]_vars

=============================================================================
