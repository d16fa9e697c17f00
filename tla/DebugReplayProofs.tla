--------------------------- MODULE DebugReplayProofs ---------------------------
(***************************************************************************)
(* Proofs about the replay of one node, for any number of runs and of      *)
(* replays of them at the same time, and for anything a node may write.    *)
(***************************************************************************)
EXTENDS DebugReplay, FiniteSetTheorems, TLAPS

(* Where in a run a snapshot belongs, by what it has next.                 *)
Rank(next) ==
    CASE next = <<START>> -> 0
      [] next = <<"security_guardrail">> -> 1
      [] next = <<"nr10_agent">> -> 2
      [] next = <<"nr35_agent">> -> 3
      [] next = <<"consolidation">> -> 4
      [] next = <<>> -> 5

(* The snapshots of a run: from the input on, each is what the node next   *)
(* in the one before has led to, and no node is next twice.                *)
History(snapshots) ==
    /\ snapshots \in Seq(Snapshots)
    /\ Len(snapshots) > 1
    /\ snapshots[1].next = <<START>>
    /\ \A i, j \in 1 .. Len(snapshots) :
         i < j => Rank(snapshots[i].next) < Rank(snapshots[j].next)
    /\ \A i \in 2 .. Len(snapshots) : \E w \in Writers :
         /\ snapshots[i - 1].next = <<w>>
         /\ snapshots[i].next = Successor(w, snapshots[i].values)

(* The nodes of a run began with the values of the snapshots that have     *)
(* them next; the last of these has not begun yet unless `ended`.  `row`   *)
(* is the run's row of began.                                              *)
Begun(row, snapshots, ended) ==
    /\ \A i \in 1 .. Len(snapshots), n \in Nodes :
         snapshots[i].next = <<n>> /\ (i < Len(snapshots) \/ ended)
             => row[n] = snapshots[i].values
    /\ \A n \in Nodes :
         row[n] # None => \E i \in 1 .. Len(snapshots) : snapshots[i].next = <<n>>

(* A run has a thread from its first node on until it has left the store.  *)
RunInv(r) ==
    /\ phase[r] = "idle" => threads[r] = <<>> /\ \A n \in Nodes : began[r][n] = None
    /\ r \in registered => phase[r] = "over"
    /\ phase[r] \in {"running", "raised"} \/ r \in registered => threads[r] # <<>>
    /\ threads[r] # <<>> => History(threads[r]) /\ Begun(began[r], threads[r], phase[r] # "running")

(* A replay holds a history of the run it asked for, which is over; its    *)
(* own thread is empty until it has been given the state its node began    *)
(* with.                                                                   *)
ReplayInv(p) ==
    /\ pc[p] \in {"idle", "reading", "copying"} => threads[p] = <<>>
    /\ pc[p] \in {"idle", "reading", "copying", "running"} => ran[p] = <<>>
    /\ pc[p] \in {"reading", "copying", "running"} =>
         target[p] \in Runs /\ phase[target[p]] = "over"
    /\ pc[p] = "copying" =>
         /\ History(turn[p]) /\ Begun(began[target[p]], turn[p], TRUE)
         /\ Refusal(turn[p], node[p], occurrence[p]) = None
    /\ pc[p] = "running" =>
         /\ node[p] \in Nodes /\ began[target[p]][node[p]] \in Values
         /\ threads[p] = <<Snapshot(<<node[p]>>, began[target[p]][node[p]])>>
    /\ ran[p] # <<>> =>
         /\ target[p] \in Runs /\ phase[target[p]] = "over" /\ node[p] \in Nodes
         /\ ran[p] = <<[node |-> node[p], values |-> began[target[p]][node[p]]]>>

IInv ==
    /\ TypeOK
    /\ \A r \in Runs : RunInv(r)
    /\ \A p \in Replays : ReplayInv(p)

----------------------------------------------------------------------------
(* The graph and its snapshots *)

(* A node is followed by one that comes later, or by none.                 *)
LEMMA SuccessorIs ==
    ASSUME NEW n \in Writers, NEW values
    PROVE  /\ Successor(n, values) \in Nexts
           /\ Rank(<<n>>) \in 0 .. 4 /\ Rank(Successor(n, values)) \in 1 .. 5
           /\ Rank(<<n>>) < Rank(Successor(n, values))
<1>1. \A v, w : <<v>> = <<w>> => v = w
  OBVIOUS
<1>2. \A w : <<w>> # <<>>
  OBVIOUS
<1>3. /\ Rank(<<START>>) = 0 /\ Rank(<<"security_guardrail">>) = 1
      /\ Rank(<<"nr10_agent">>) = 2 /\ Rank(<<"nr35_agent">>) = 3
      /\ Rank(<<"consolidation">>) = 4 /\ Rank(<<>>) = 5
  BY <1>1, <1>2 DEF Rank, START
<1> QED
  BY <1>3 DEF Nexts, Successor, Writers, Nodes, START

(* What a writer adds to some values makes values again.                   *)
LEMMA PutIs ==
    ASSUME NEW values \in Values, NEW n \in Writers,
           NEW output \in Runs \cup Outputs \cup {"safe", "unsafe"}
    PROVE  Put(values, n, output) \in Values
<1> DEFINE X == Runs \cup Outputs \cup {"safe", "unsafe"}
<1>1. PICK W \in SUBSET Writers : values \in [W -> X]
  BY DEF Values
<1> HIDE DEF X
<1>2. Put(values, n, output) \in [W \cup {n} -> X]
  BY <1>1 DEF Put, X
<1>3. W \cup {n} \in SUBSET Writers
  OBVIOUS
<1> QED
  BY <1>2, <1>3 DEF Values, X

LEMMA NoValuesIsEmpty == NoValues \in Values
<1>1. NoValues \in [{} -> Runs \cup Outputs \cup {"safe", "unsafe"}]
  BY DEF NoValues
<1> QED
  BY <1>1 DEF Values

(* Every snapshot has a place.                                             *)
LEMMA RankIs ==
    ASSUME NEW h \in Seq(Snapshots), NEW i \in 1 .. Len(h)
    PROVE  Rank(h[i].next) \in 0 .. 5
<1>1. h[i] \in Snapshots
  OBVIOUS
<1>2. h[i].next \in Nexts
  BY <1>1 DEF Nexts, Snapshots
<1>3. \A w \in Writers : Rank(<<w>>) \in 0 .. 4
  BY SuccessorIs
<1>4. Rank(<<>>) = 5
  <2>1. \A w : <<w>> # <<>>
    OBVIOUS
  <2> QED
    BY <2>1 DEF Rank
<1> QED
  BY <1>2, <1>3, <1>4 DEF Nexts

(* A history goes on with what the node that is next has led to.           *)
LEMMA HistoryGrows ==
    ASSUME NEW h, History(h), NEW n \in Nodes, Last(h).next = <<n>>, NEW values \in Values
    PROVE  History(Append(h, Wrote(n, values)))
<1> DEFINE s == Wrote(n, values)
           g == Append(h, s)
           m == Len(h)
<1>1. n \in Writers /\ s.next = Successor(n, values) /\ s.values = values
  BY DEF Wrote, Snapshot, Writers
<1>2. s \in Snapshots
  <2>1. Successor(n, values) \in Nexts
    BY <1>1, SuccessorIs
  <2> QED
    BY <2>1 DEF Wrote, Snapshot, Snapshots
<1>3. /\ h \in Seq(Snapshots) /\ m \in Nat /\ m > 1 /\ h[m].next = <<n>>
      /\ h[1].next = <<START>>
  BY DEF History, Last
<1> HIDE DEF s
<1>4. /\ g \in Seq(Snapshots) /\ Len(g) = m + 1 /\ g[m + 1] = s
      /\ \A i \in 1 .. m : g[i] = h[i]
  BY <1>2, <1>3
<1> HIDE DEF g
<1>5. Rank(<<n>>) \in 0 .. 4 /\ Rank(s.next) \in 1 .. 5 /\ Rank(<<n>>) < Rank(s.next)
  BY <1>1, SuccessorIs
<1>6. ASSUME NEW i \in 1 .. Len(g), NEW j \in 1 .. Len(g), i < j
      PROVE  Rank(g[i].next) < Rank(g[j].next)
  <2>1. i \in 1 .. m
    BY <1>3, <1>4, <1>6
  <2>2. CASE j \in 1 .. m
    BY <1>4, <1>6, <2>1, <2>2 DEF History
  <2>3. CASE j = m + 1 /\ i = m
    BY <1>3, <1>4, <1>5, <2>3
  <2>4. CASE j = m + 1 /\ i < m
    <3>1. Rank(h[i].next) < Rank(h[m].next)
      <4>1. \A k, l \in 1 .. m : k < l => Rank(h[k].next) < Rank(h[l].next)
        BY DEF History
      <4>2. m \in 1 .. m
        BY <1>3
      <4> HIDE DEF m
      <4> QED
        BY <2>1, <2>4, <4>1, <4>2
    <3>2. Rank(h[i].next) \in 0 .. 5
      BY <1>3, <2>1, RankIs
    <3> QED
      BY <1>3, <1>4, <1>5, <2>1, <2>4, <3>1, <3>2
  <2> QED
    BY <1>3, <1>4, <2>1, <2>2, <2>3, <2>4
<1>7. ASSUME NEW i \in 2 .. Len(g)
      PROVE  \E w \in Writers : g[i - 1].next = <<w>> /\ g[i].next = Successor(w, g[i].values)
  <2>1. CASE i \in 2 .. m
    <3>1. i - 1 \in 1 .. m /\ i \in 1 .. m
      BY <1>3, <2>1
    <3> QED
      BY <1>4, <2>1, <3>1 DEF History
  <2>2. CASE i = m + 1
    <3>1. i - 1 = m /\ m \in 1 .. m
      BY <1>3, <2>2
    <3> QED
      BY <1>1, <1>3, <1>4, <2>2, <3>1
  <2> QED
    BY <1>3, <1>4, <2>1, <2>2
<1>8. Len(g) > 1 /\ g[1].next = <<START>>
  BY <1>3, <1>4
<1>9. History(g)
  BY <1>4, <1>6, <1>7, <1>8 DEF History
<1> QED
  BY <1>9 DEF g, s

(* The input makes the first two snapshots.                                *)
LEMMA HistoryStarts ==
    ASSUME NEW r \in Runs
    PROVE  LET input == Put(NoValues, START, r)
           IN  History(<<Snapshot(<<START>>, NoValues), Wrote(START, input)>>)
<1> DEFINE input == Put(NoValues, START, r)
           a == Snapshot(<<START>>, NoValues)
           b == Wrote(START, input)
           h == <<a, b>>
<1>1. START \in Writers /\ input \in Values
  BY NoValuesIsEmpty, PutIs DEF Writers
<1>2. a \in Snapshots /\ a.next = <<START>>
  BY <1>1, NoValuesIsEmpty DEF Nexts, Snapshot, Snapshots
<1>3. b \in Snapshots /\ b.next = Successor(START, input) /\ b.values = input
  <2>1. Successor(START, input) \in Nexts
    BY <1>1, SuccessorIs
  <2> HIDE DEF input
  <2> QED
    BY <1>1, <2>1 DEF Wrote, Snapshot, Snapshots
<1> HIDE DEF input, a, b
<1>4. h \in Seq(Snapshots) /\ Len(h) = 2 /\ h[1] = a /\ h[2] = b
  BY <1>2, <1>3
<1> HIDE DEF h
<1>5. Rank(a.next) < Rank(b.next)
  BY <1>1, <1>2, <1>3, SuccessorIs
<1>6. \A i, j \in 1 .. Len(h) : i < j => i = 1 /\ j = 2
  BY <1>4
<1>7. \A i \in 2 .. Len(h) : i = 2 /\ i - 1 = 1
  BY <1>4
<1>8. History(h)
  BY <1>1, <1>2, <1>3, <1>4, <1>5, <1>6, <1>7 DEF History
<1> QED
  BY <1>8 DEF h, a, b, input

(* The node that is next begins, and what the others began with remains.   *)
LEMMA BegunGrows ==
    ASSUME NEW h, History(h), NEW row \in [Nodes -> Values \cup {None}], Begun(row, h, FALSE),
           NEW n \in Nodes, Last(h).next = <<n>>
    PROVE  Begun([row EXCEPT ![n] = Last(h).values], h, TRUE)
<1> DEFINE after == [row EXCEPT ![n] = Last(h).values]
           m == Len(h)
<1>1. m \in Nat /\ m \in 1 .. m /\ Last(h) = h[m] /\ h[m].next = <<n>>
  BY DEF History, Last
<1>2. \A i \in 1 .. m : h[i].next = <<n>> => i = m
  <2>1. \A i \in 1 .. m : Rank(h[i].next) \in 0 .. 5
    BY RankIs DEF History
  <2>2. \A i, j \in 1 .. m : i < j => Rank(h[i].next) < Rank(h[j].next)
    BY DEF History
  <2> QED
    BY <1>1, <2>1, <2>2
<1>3. \A v, w : <<v>> = <<w>> => v = w
  OBVIOUS
<1>4. after[n] = h[m].values /\ \A w \in Nodes : w # n => after[w] = row[w]
  BY <1>1
<1> HIDE DEF after
<1>5. ASSUME NEW i \in 1 .. m, NEW w \in Nodes, h[i].next = <<w>>
      PROVE  after[w] = h[i].values
  <2>1. CASE w = n
    BY <1>2, <1>4, <1>5, <2>1
  <2>2. CASE w # n
    <3>1. i # m
      BY <1>1, <1>3, <1>5, <2>2
    <3>2. i < m
      BY <1>1, <3>1
    <3> QED
      BY <1>4, <1>5, <2>2, <3>2 DEF Begun
  <2> QED
    BY <2>1, <2>2
<1>6. ASSUME NEW w \in Nodes, after[w] # None
      PROVE  \E i \in 1 .. m : h[i].next = <<w>>
  <2>1. CASE w = n
    BY <1>1, <2>1
  <2>2. CASE w # n
    BY <1>4, <1>6, <2>2 DEF Begun
  <2> QED
    BY <2>1, <2>2
<1>7. Begun(after, h, TRUE)
  BY <1>5, <1>6 DEF Begun
<1> QED
  BY <1>7 DEF after

(* A node is next in one snapshot at most, which is the target, and        *)
(* writing its values as the node before brings it back.                   *)
LEMMA CandidatesAre ==
    ASSUME NEW h, History(h), NEW n, NEW i \in 1 .. Len(h), h[i].next = <<n>>
    PROVE  /\ Candidates(h, n) = {i} /\ Cardinality(Candidates(h, n)) = 1
           /\ Target(h, n, 0) = i
<1>1. \A j \in 1 .. Len(h) : h[j].next = <<n>> => j = i
  <2>1. \A j \in 1 .. Len(h) : Rank(h[j].next) \in 0 .. 5
    BY RankIs DEF History
  <2>2. \A j, k \in 1 .. Len(h) : j < k => Rank(h[j].next) < Rank(h[k].next)
    BY DEF History
  <2> QED
    BY <2>1, <2>2
<1>2. DOMAIN h = 1 .. Len(h)
  BY DEF History
<1>3. Candidates(h, n) = {i}
  BY <1>1, <1>2 DEF Candidates
<1>4. Cardinality({i}) = 1 /\ {j \in {i} : j < i} = {} /\ Cardinality({}) = 0
  <2>1. {j \in {i} : j < i} = {}
    OBVIOUS
  <2> QED
    BY <2>1, FS_Singleton, FS_EmptySet
<1>5. Target(h, n, 0) = i
  BY <1>3, <1>4 DEF Target
<1> QED
  BY <1>3, <1>4, <1>5

LEMMA TargetIs ==
    ASSUME NEW h, History(h), NEW n, NEW k \in 0 .. 1, Refusal(h, n, k) = None
    PROVE  \E i \in 2 .. Len(h) :
             /\ Target(h, n, k) = i /\ h[i].next = <<n>> /\ Restored(h, i) = h[i]
             /\ n \in Nodes
<1>1. h # <<>> /\ k < Cardinality(Candidates(h, n)) /\ HasPrevious(h, Target(h, n, k))
  <2>1. 404 # None /\ 409 # None
    BY NoneAssumption
  <2>2. Candidates(h, n) \subseteq 1 .. Len(h)
    BY DEF Candidates, History
  <2>3. Cardinality(Candidates(h, n)) \in Nat
    <3>1. IsFiniteSet(1 .. Len(h))
      BY FS_Interval DEF History
    <3>2. IsFiniteSet(Candidates(h, n))
      BY <2>2, <3>1, FS_Subset
    <3> QED
      BY <3>2, FS_CardinalityType
  <2> QED
    BY <2>1, <2>3 DEF Refusal
<1>2. PICK i \in 1 .. Len(h) : h[i].next = <<n>>
  <2>1. Candidates(h, n) # {}
    BY <1>1, FS_EmptySet
  <2> QED
    BY <2>1 DEF Candidates, History
<1>3. k = 0 /\ Target(h, n, k) = i /\ i > 1
  BY <1>1, <1>2, CandidatesAre DEF HasPrevious
<1>4. i \in 2 .. Len(h) /\ 1 \in 1 .. Len(h)
  BY <1>3 DEF History
<1>5. PICK w \in Writers : h[i - 1].next = <<w>> /\ h[i].next = Successor(w, h[i].values)
  BY <1>4 DEF History
<1>6. h[i] = Snapshot(h[i].next, h[i].values) /\ h[i].next \in Nexts
  <2>1. h[i] \in Snapshots
    BY <1>2 DEF History
  <2> QED
    BY <2>1 DEF Nexts, Snapshots, Snapshot
<1>7. Restored(h, i) = h[i]
  <2>1. h[i - 1].next[1] = w
    BY <1>5
  <2> QED
    BY <1>5, <1>6, <2>1 DEF Restored, Wrote
<1>8. n \in Nodes
  <2>1. h[1].next = <<START>> /\ i # 1
    BY <1>3 DEF History
  <2>2. Candidates(h, START) = {1}
    BY <1>4, <2>1, CandidatesAre
  <2>3. n # START
    BY <1>2, <2>1, <2>2 DEF Candidates, History
  <2>4. n \in Writers
    <3>1. \A v : <<v>> = <<n>> => v = n
      OBVIOUS
    <3>2. <<n>> # <<>>
      OBVIOUS
    <3> QED
      BY <1>2, <1>6, <3>1, <3>2 DEF Nexts
  <2> QED
    BY <2>3, <2>4 DEF Writers
<1> QED
  BY <1>2, <1>3, <1>4, <1>7, <1>8

(* Who asks for a node that began in the run is not refused.               *)
LEMMA NotRefused ==
    ASSUME NEW h, History(h), NEW n \in Nodes, NEW row, row[n] # None, NEW e, Begun(row, h, e)
    PROVE  Refusal(h, n, 0) = None
<1>1. PICK i \in 1 .. Len(h) : h[i].next = <<n>>
  BY DEF Begun
<1>2. Cardinality(Candidates(h, n)) = 1 /\ Target(h, n, 0) = i
  BY <1>1, CandidatesAre
<1>3. i # 1
  <2>1. \A v, w : <<v>> = <<w>> => v = w
    OBVIOUS
  <2> QED
    BY <1>1, <2>1 DEF History, Nodes, START
<1>4. i \in 2 .. Len(h)
  BY <1>3 DEF History
<1>5. PICK w \in Writers : h[i - 1].next = <<w>>
  BY <1>4 DEF History
<1>6. HasPrevious(h, i)
  BY <1>4, <1>5 DEF HasPrevious
<1>7. h # <<>>
  BY DEF History
<1> QED
  BY <1>2, <1>6, <1>7 DEF Refusal

----------------------------------------------------------------------------
(* What a step leaves alone *)

LEMMA RunKept ==
    ASSUME NEW r \in Runs, RunInv(r), threads'[r] = threads[r], phase'[r] = phase[r],
           began'[r] = began[r], r \in registered' => r \in registered
    PROVE  RunInv(r)'
BY DEF RunInv

(* What a replay knows of its run stays true, since the run is over.       *)
LEMMA ReplayKept ==
    ASSUME NEW p \in Replays, ReplayInv(p), threads'[p] = threads[p], pc'[p] = pc[p],
           target'[p] = target[p], node'[p] = node[p], occurrence'[p] = occurrence[p],
           turn'[p] = turn[p], ran'[p] = ran[p],
           \A r \in Runs : phase[r] = "over" => phase'[r] = "over" /\ began'[r] = began[r]
    PROVE  ReplayInv(p)'
<1>1. target[p] \in Runs /\ phase[target[p]] = "over"
        => phase'[target[p]] = "over" /\ began'[target[p]] = began[target[p]]
  OBVIOUS
<1> QED
  BY <1>1 DEF ReplayInv

----------------------------------------------------------------------------
(* The steps of a run *)

LEMMA InitInv == Init => IInv
<1> SUFFICES ASSUME Init PROVE IInv
  OBVIOUS
<1> USE DEF Init
<1>1. <<>> \in Seq(Snapshots)
  OBVIOUS
<1>2. TypeOK
  BY <1>1 DEF TypeOK
<1>3. ASSUME NEW r \in Runs PROVE RunInv(r)
  BY DEF RunInv
<1>4. ASSUME NEW p \in Replays PROVE ReplayInv(p)
  BY DEF ReplayInv
<1> QED
  BY <1>2, <1>3, <1>4 DEF IInv

(* A run's step that writes its thread, its phase or what its nodes began  *)
(* with keeps the invariant if it does so for that run.                    *)
LEMMA RunStepInv ==
    ASSUME IInv, NEW r \in Runs, TypeOK', RunInv(r)',
           phase[r] = "over" => phase'[r] = "over" /\ began'[r] = began[r],
           \A q \in (Runs \cup Replays) \ {r} : threads'[q] = threads[q],
           \A q \in Runs \ {r} :
             /\ phase'[q] = phase[q] /\ began'[q] = began[q]
             /\ q \in registered' => q \in registered,
           UNCHANGED <<pc, askVars, turn, ran>>
    PROVE  IInv'
<1>1. ASSUME NEW q \in Runs PROVE RunInv(q)'
  <2>1. CASE q # r
    BY <2>1, RunKept DEF IInv
  <2> QED
    BY <2>1
<1>2. ASSUME NEW p \in Replays PROVE ReplayInv(p)'
  <2>1. p # r
    BY IdsAssumption
  <2>2. \A q \in Runs : phase[q] = "over" => phase'[q] = "over" /\ began'[q] = began[q]
    OBVIOUS
  <2> QED
    BY <2>1, <2>2, ReplayKept DEF IInv, askVars
<1> QED
  BY <1>1, <1>2 DEF IInv

LEMMA ValidateInv ==
    ASSUME IInv, NEW r \in Runs, Validate(r)
    PROVE  IInv'
<1> DEFINE h == <<Snapshot(<<START>>, NoValues), Wrote(START, Put(NoValues, START, r))>>
<1>1. History(h)
  BY HistoryStarts
<1>2. /\ threads' = [threads EXCEPT ![r] = h] /\ phase' = [phase EXCEPT ![r] = "running"]
      /\ phase[r] = "idle"
      /\ UNCHANGED <<registered, pc, askVars, turn, outcome, began, ran>>
  BY DEF Validate
<1>3. threads[r] = <<>> /\ (\A n \in Nodes : began[r][n] = None) /\ r \notin registered
  BY <1>2 DEF IInv, RunInv
<1> HIDE DEF h
<1>4. threads'[r] = h /\ phase'[r] = "running" /\ h # <<>> /\ h \in Seq(Snapshots)
  BY <1>1, <1>2 DEF IInv, TypeOK, History
<1>5. TypeOK'
  BY <1>2, <1>4 DEF IInv, TypeOK, askVars
<1>6. \A i \in 1 .. Len(h), n \in Nodes : ~(h[i].next = <<n>> /\ i < Len(h))
  <2>1. Len(h) = 2 /\ h[1].next = <<START>>
    BY <1>1 DEF h, Snapshot
  <2>2. \A v, w : <<v>> = <<w>> => v = w
    OBVIOUS
  <2> QED
    BY <2>1, <2>2 DEF Nodes, START
<1>7. Begun(began[r], h, FALSE)
  BY <1>3, <1>6 DEF Begun
<1>8. RunInv(r)'
  BY <1>1, <1>2, <1>3, <1>4, <1>7 DEF RunInv
<1> QED
  BY <1>2, <1>5, <1>8, RunStepInv DEF IInv, TypeOK

(* The node that is next begins, by NodeReturns or NodeRaises.             *)
LEMMA BeginsInv ==
    ASSUME IInv, NEW r \in Runs, NEW n \in Nodes, Begins(r, n)
    PROVE  /\ phase[r] = "running" /\ History(threads[r]) /\ Last(threads[r]).next = <<n>>
           /\ Last(threads[r]).values \in Values
           /\ began' \in [Runs -> [Nodes -> Values \cup {None}]]
           /\ \A q \in Runs \ {r} : began'[q] = began[q]
           /\ Begun(began'[r], threads[r], TRUE)
<1>1. /\ phase[r] = "running" /\ Last(threads[r]).next = <<n>>
      /\ began' = [began EXCEPT ![r][n] = Last(threads[r]).values]
  BY DEF Begins
<1>2. History(threads[r]) /\ Begun(began[r], threads[r], FALSE)
  BY <1>1 DEF IInv, RunInv
<1>3. Last(threads[r]).values \in Values
  <2>1. threads[r][Len(threads[r])] \in Snapshots
    BY <1>2 DEF History
  <2> QED
    BY <2>1 DEF Last, Snapshots
<1>4. began[r] \in [Nodes -> Values \cup {None}]
  BY DEF IInv, TypeOK
<1>5. /\ began'[r] = [began[r] EXCEPT ![n] = Last(threads[r]).values]
      /\ \A q \in Runs \ {r} : began'[q] = began[q]
      /\ began' \in [Runs -> [Nodes -> Values \cup {None}]]
  BY <1>1, <1>3 DEF IInv, TypeOK
<1>6. Begun(began'[r], threads[r], TRUE)
  BY <1>1, <1>2, <1>4, <1>5, BegunGrows
<1> QED
  BY <1>1, <1>2, <1>3, <1>5, <1>6

LEMMA NodeReturnsInv ==
    ASSUME IInv, NEW r \in Runs, NEW n \in Nodes, NodeReturns(r, n)
    PROVE  IInv'
<1> DEFINE h == threads[r]
<1>1. /\ phase[r] = "running" /\ History(h) /\ Last(h).next = <<n>>
      /\ Last(h).values \in Values
      /\ began' \in [Runs -> [Nodes -> Values \cup {None}]]
      /\ \A q \in Runs \ {r} : began'[q] = began[q]
      /\ Begun(began'[r], h, TRUE)
  BY BeginsInv DEF NodeReturns
<1>2. PICK output \in Writes(n) :
        threads' = [threads EXCEPT ![r] = Append(@, Wrote(n, Put(Last(@).values, n, output)))]
  BY DEF NodeReturns
<1> DEFINE values == Put(Last(h).values, n, output)
           g == Append(h, Wrote(n, values))
<1>3. UNCHANGED <<phase, registered, pc, askVars, turn, outcome, ran>>
  BY DEF NodeReturns
<1>4. values \in Values
  <2>1. n \in Writers /\ output \in Runs \cup Outputs \cup {"safe", "unsafe"}
    BY DEF Writers, Writes
  <2> QED
    BY <1>1, <2>1, PutIs
<1>5. threads' = [threads EXCEPT ![r] = g] /\ threads'[r] = g
  BY <1>2 DEF IInv, TypeOK
<1> HIDE DEF values
<1>6. History(g)
  BY <1>1, <1>4, HistoryGrows
<1>7. h \in Seq(Snapshots) /\ Len(g) = Len(h) + 1 /\ \A i \in 1 .. Len(h) : g[i] = h[i]
  BY <1>1 DEF History
<1> HIDE DEF g
<1>8. g \in Seq(Snapshots) /\ g # <<>>
  BY <1>6 DEF History
<1>9. Begun(began'[r], g, FALSE)
  <2>1. \A i \in 1 .. Len(g) : i < Len(g) => i \in 1 .. Len(h) /\ g[i] = h[i]
    BY <1>7
  <2>2. \A i \in 1 .. Len(h) : i \in 1 .. Len(g) /\ g[i] = h[i]
    BY <1>7
  <2>3. /\ \A i \in 1 .. Len(h), w \in Nodes : h[i].next = <<w>> => began'[r][w] = h[i].values
        /\ \A w \in Nodes : began'[r][w] # None => \E i \in 1 .. Len(h) : h[i].next = <<w>>
    BY <1>1 DEF Begun
  <2> QED
    BY <2>1, <2>2, <2>3 DEF Begun
<1>10. TypeOK'
  BY <1>1, <1>3, <1>5, <1>8 DEF IInv, TypeOK, askVars
<1>11. RunInv(r)'
  BY <1>1, <1>3, <1>5, <1>6, <1>8, <1>9 DEF IInv, RunInv
<1> QED
  BY <1>1, <1>3, <1>5, <1>10, <1>11, RunStepInv DEF IInv, TypeOK

LEMMA NodeRaisesInv ==
    ASSUME IInv, NEW r \in Runs, NEW n \in Nodes, NodeRaises(r, n)
    PROVE  IInv'
<1>1. /\ phase[r] = "running" /\ History(threads[r])
      /\ began' \in [Runs -> [Nodes -> Values \cup {None}]]
      /\ \A q \in Runs \ {r} : began'[q] = began[q]
      /\ Begun(began'[r], threads[r], TRUE)
  BY BeginsInv DEF NodeRaises
<1>2. /\ phase' = [phase EXCEPT ![r] = "raised"] /\ phase'[r] = "raised"
      /\ UNCHANGED <<threads, registered, pc, askVars, turn, outcome, ran>>
  BY DEF NodeRaises, IInv, TypeOK
<1>3. TypeOK'
  BY <1>1, <1>2 DEF IInv, TypeOK, askVars
<1>4. RunInv(r)'
  BY <1>1, <1>2 DEF IInv, RunInv
<1>5. \A q \in Runs \ {r} : phase'[q] = phase[q]
  BY <1>2 DEF IInv, TypeOK
<1> QED
  BY <1>1, <1>2, <1>3, <1>4, <1>5, RunStepInv

LEMMA RegisterInv ==
    ASSUME IInv, NEW r \in Runs, Register(r)
    PROVE  IInv'
<1>1. /\ phase' = [phase EXCEPT ![r] = "over"] /\ phase'[r] = "over"
      /\ registered' = registered \cup {r}
      /\ UNCHANGED <<threads, pc, askVars, turn, outcome, began, ran>>
  BY DEF Register, IInv, TypeOK
<1>2. TypeOK'
  BY <1>1 DEF IInv, TypeOK, askVars
<1>3. threads[r] # <<>> /\ History(threads[r]) /\ Begun(began[r], threads[r], phase[r] # "running")
  BY DEF Register, IInv, RunInv
<1>4. Begun(began[r], threads[r], TRUE)
  <2>1. CASE phase[r] = "raised"
    BY <1>3, <2>1
  <2>2. CASE phase[r] = "running" /\ Last(threads[r]).next = <<>>
    <3>1. \A w : <<w>> # <<>>
      OBVIOUS
    <3>2. \A i \in 1 .. Len(threads[r]) : i < Len(threads[r]) \/ threads[r][i].next = <<>>
      BY <1>3, <2>2 DEF Last, History
    <3> QED
      BY <1>3, <2>2, <3>1, <3>2 DEF Begun
  <2> QED
    BY <2>1, <2>2 DEF Register
<1>5. RunInv(r)'
  BY <1>1, <1>3, <1>4 DEF RunInv
<1> QED
  BY <1>1, <1>2, <1>5, RunStepInv DEF IInv, TypeOK

LEMMA DropInv ==
    ASSUME IInv, NEW r \in Runs, Drop(r) \/ ThreadDeleted(r)
    PROVE  IInv'
<1>1. /\ phase[r] = "over" /\ registered' \subseteq registered
      /\ threads' = threads \/ (threads' = [threads EXCEPT ![r] = <<>>] /\ r \notin registered')
      /\ UNCHANGED <<phase, pc, askVars, turn, outcome, began, ran>>
  BY DEF Drop, ThreadDeleted, IInv, RunInv
<1>2. \A q \in (Runs \cup Replays) \ {r} : threads'[q] = threads[q]
  BY <1>1 DEF IInv, TypeOK
<1>3. TypeOK'
  <2>1. <<>> \in Seq(Snapshots)
    OBVIOUS
  <2>2. threads' \in [Runs \cup Replays -> Seq(Snapshots)]
    <3>1. threads \in [Runs \cup Replays -> Seq(Snapshots)]
      BY DEF IInv, TypeOK
    <3> QED
      BY <1>1, <2>1, <3>1
  <2> QED
    BY <1>1, <2>2 DEF IInv, TypeOK, askVars
<1>4. RunInv(r)'
  <2>1. CASE threads' = threads
    BY <1>1, <2>1, RunKept DEF IInv
  <2>2. CASE threads' = [threads EXCEPT ![r] = <<>>] /\ r \notin registered'
    <3>1. threads'[r] = <<>>
      BY <2>2 DEF IInv, TypeOK
    <3> QED
      BY <1>1, <2>2, <3>1 DEF RunInv
  <2> QED
    BY <1>1, <2>1, <2>2
<1> QED
  BY <1>1, <1>2, <1>3, <1>4, RunStepInv

----------------------------------------------------------------------------
(* The steps of a replay *)

(* Where a replay goes, and what it answers, is of the right type.         *)
LEMMA GotoIs ==
    ASSUME IInv, NEW p \in Replays, Goto(p, "reading") \/ Goto(p, "copying")
                 \/ Goto(p, "running") \/ Goto(p, "cleaning") \/ Goto(p, "done")
    PROVE  /\ pc' \in [Replays -> {"idle", "reading", "copying", "running", "cleaning", "done"}]
           /\ \A q \in Replays \ {p} : pc'[q] = pc[q]
BY DEF IInv, TypeOK, Goto

LEMMA AnswerIs ==
    ASSUME IInv, NEW p \in Replays, NEW status \in {200, 404, 409, 500}, NEW next \in Nexts,
           outcome' = [outcome EXCEPT ![p] = Result(status, next)]
    PROVE  outcome' \in [Replays -> Results \cup {None}]
<1>1. Result(status, next) \in Results
  BY DEF Result, Results
<1> QED
  BY <1>1 DEF IInv, TypeOK

(* A replay's step keeps the invariant if it does so for that replay.      *)
LEMMA ReplayStepInv ==
    ASSUME IInv, NEW p \in Replays, TypeOK', ReplayInv(p)',
           \A q \in (Runs \cup Replays) \ {p} : threads'[q] = threads[q],
           \A q \in Replays \ {p} :
             /\ pc'[q] = pc[q] /\ turn'[q] = turn[q] /\ ran'[q] = ran[q]
             /\ target'[q] = target[q] /\ node'[q] = node[q] /\ occurrence'[q] = occurrence[q],
           UNCHANGED <<phase, registered, began>>
    PROVE  IInv'
<1>1. ASSUME NEW r \in Runs PROVE RunInv(r)'
  <2>1. r # p
    BY IdsAssumption
  <2> QED
    BY <2>1, RunKept DEF IInv
<1>2. ASSUME NEW q \in Replays PROVE ReplayInv(q)'
  <2>1. CASE q # p
    BY <2>1, ReplayKept DEF IInv
  <2> QED
    BY <2>1
<1> QED
  BY <1>1, <1>2 DEF IInv

LEMMA AskInv ==
    ASSUME IInv, NEW p \in Replays, Ask(p)
    PROVE  IInv'
<1>1. PICK r \in Runs, n \in Nodes \cup {START, "unknown"}, k \in 0 .. 1 :
        /\ target' = [target EXCEPT ![p] = r]
        /\ node' = [node EXCEPT ![p] = n]
        /\ occurrence' = [occurrence EXCEPT ![p] = k]
        /\ IF r \in registered
           THEN Goto(p, "reading") /\ UNCHANGED outcome
           ELSE Goto(p, "done") /\ outcome' = [outcome EXCEPT ![p] = Result(404, <<>>)]
  BY DEF Ask
<1>2. pc[p] = "idle" /\ UNCHANGED <<threads, phase, registered, turn, began, ran>>
  BY DEF Ask
<1>3. target'[p] = r /\ node'[p] = n /\ occurrence'[p] = k
  BY <1>1 DEF IInv, TypeOK
<1>4. pc'[p] \in {"reading", "done"} /\ (pc'[p] = "reading" => r \in registered)
  BY <1>1 DEF Goto, IInv, TypeOK
<1>5. TypeOK'
  <2>1. outcome' \in [Replays -> Results \cup {None}]
    <3>1. outcome \in [Replays -> Results \cup {None}] /\ <<>> \in Nexts
      BY DEF IInv, TypeOK, Nexts
    <3> QED
      BY <1>1, <3>1, AnswerIs
  <2>2. pc' \in [Replays -> {"idle", "reading", "copying", "running", "cleaning", "done"}]
    BY <1>1, GotoIs
  <2>3. /\ target' \in [Replays -> Runs \cup {None}] /\ occurrence' \in [Replays -> 0 .. 1]
        /\ node' \in [Replays -> Nodes \cup {START, "unknown", None}]
    BY <1>1 DEF IInv, TypeOK
  <2> QED
    BY <1>2, <2>1, <2>2, <2>3 DEF IInv, TypeOK
<1>6. threads[p] = <<>> /\ ran[p] = <<>> /\ (r \in registered => phase[r] = "over")
  BY <1>2 DEF IInv, RunInv, ReplayInv
<1>7. ReplayInv(p)'
  BY <1>2, <1>3, <1>4, <1>6 DEF ReplayInv
<1>8. \A q \in Replays \ {p} :
        /\ pc'[q] = pc[q] /\ target'[q] = target[q] /\ node'[q] = node[q]
        /\ occurrence'[q] = occurrence[q]
  BY <1>1 DEF IInv, TypeOK, Goto
<1> QED
  BY <1>2, <1>5, <1>7, <1>8, ReplayStepInv

LEMMA ReadHistoryInv ==
    ASSUME IInv, NEW p \in Replays, ReadHistory(p)
    PROVE  IInv'
<1> DEFINE h == threads[target[p]]
           refusal == Refusal(h, node[p], occurrence[p])
<1>1. /\ pc[p] = "reading" /\ turn' = [turn EXCEPT ![p] = h] /\ turn'[p] = h
      /\ UNCHANGED <<threads, phase, registered, askVars, began, ran>>
  BY DEF ReadHistory, IInv, TypeOK
<1>2. \/ refusal = None /\ Goto(p, "copying") /\ UNCHANGED outcome
      \/ /\ refusal # None /\ Goto(p, "done")
         /\ outcome' = [outcome EXCEPT ![p] = Result(refusal, <<>>)]
  BY <1>1 DEF ReadHistory, askVars
<1>3. /\ target[p] \in Runs /\ phase[target[p]] = "over" /\ threads[p] = <<>> /\ ran[p] = <<>>
      /\ h # <<>> => History(h) /\ Begun(began[target[p]], h, TRUE)
  BY <1>1 DEF IInv, ReplayInv, RunInv
<1>4. refusal = None => h # <<>>
  BY NoneAssumption DEF Refusal
<1>5. refusal \in {None, 404, 409}
  BY DEF Refusal
<1> HIDE DEF refusal
<1>6. h \in Seq(Snapshots)
  BY <1>3 DEF IInv, TypeOK
<1>7. TypeOK'
  <2>1. outcome' \in [Replays -> Results \cup {None}]
    <3>1. outcome \in [Replays -> Results \cup {None}] /\ <<>> \in Nexts
      BY DEF IInv, TypeOK, Nexts
    <3> QED
      BY <1>2, <1>5, <3>1, AnswerIs
  <2>2. pc' \in [Replays -> {"idle", "reading", "copying", "running", "cleaning", "done"}]
    BY <1>2, GotoIs
  <2> QED
    BY <1>1, <1>6, <2>1, <2>2 DEF IInv, TypeOK, askVars
<1>8. pc'[p] \in {"copying", "done"} /\ (pc'[p] = "copying" => refusal = None)
  BY <1>2 DEF IInv, TypeOK, Goto
<1>9. ReplayInv(p)'
  BY <1>1, <1>3, <1>4, <1>8 DEF ReplayInv, askVars, refusal
<1>10. \A q \in Replays \ {p} : pc'[q] = pc[q] /\ turn'[q] = turn[q]
  BY <1>1, <1>2 DEF IInv, TypeOK, Goto
<1> QED
  BY <1>1, <1>7, <1>9, <1>10, ReplayStepInv DEF askVars

(* A replay that has not been refused has a target, the snapshot its node  *)
(* began with, and the copy gets that snapshot.                            *)
LEMMA CopyingInv ==
    ASSUME IInv, NEW p \in Replays, pc[p] = "copying"
    PROVE  /\ threads[p] = <<>> /\ ran[p] = <<>> /\ node[p] \in Nodes
           /\ target[p] \in Runs /\ phase[target[p]] = "over"
           /\ began[target[p]][node[p]] \in Values
           /\ Restored(turn[p], Target(turn[p], node[p], occurrence[p])) =
                Snapshot(<<node[p]>>, began[target[p]][node[p]])
<1> DEFINE h == turn[p]
           row == began[target[p]]
<1>1. /\ History(h) /\ Begun(row, h, TRUE)
      /\ Refusal(h, node[p], occurrence[p]) = None /\ occurrence[p] \in 0 .. 1
  <2>1. occurrence[p] \in 0 .. 1
    BY DEF IInv, TypeOK
  <2> QED
    BY <2>1 DEF IInv, ReplayInv
<1> HIDE DEF h, row
<1>2. PICK i \in 2 .. Len(h) :
        /\ Target(h, node[p], occurrence[p]) = i /\ h[i].next = <<node[p]>>
        /\ Restored(h, i) = h[i] /\ node[p] \in Nodes
  BY <1>1, TargetIs
<1>3. i \in 1 .. Len(h) /\ h[i] \in Snapshots
  BY <1>1, <1>2 DEF History
<1>4. row[node[p]] = h[i].values
  BY <1>1, <1>2, <1>3 DEF Begun
<1>5. h[i] = Snapshot(<<node[p]>>, row[node[p]]) /\ row[node[p]] \in Values
  BY <1>2, <1>3, <1>4 DEF Nexts, Snapshots, Snapshot
<1> QED
  BY <1>2, <1>5 DEF IInv, ReplayInv, h, row

LEMMA CopyInv ==
    ASSUME IInv, NEW p \in Replays, CopyState(p) \/ CopyFails(p)
    PROVE  IInv'
<1> DEFINE s == Snapshot(<<node[p]>>, began[target[p]][node[p]])
<1>1. pc[p] = "copying" /\ UNCHANGED <<phase, registered, askVars, turn, began, ran>>
  BY DEF CopyState, CopyFails
<1>2. /\ threads[p] = <<>> /\ ran[p] = <<>> /\ node[p] \in Nodes
      /\ target[p] \in Runs /\ phase[target[p]] = "over"
      /\ began[target[p]][node[p]] \in Values
      /\ Restored(turn[p], Target(turn[p], node[p], occurrence[p])) = s
  BY <1>1, CopyingInv
<1>3. s \in Snapshots /\ s.next = <<node[p]>>
  BY <1>2 DEF Nexts, Snapshot, Snapshots, Writers
<1>4. \/ /\ threads' = [threads EXCEPT ![p] = <<s>>]
         /\ Goto(p, "running") /\ UNCHANGED outcome
      \/ /\ Goto(p, "cleaning") /\ UNCHANGED threads
         /\ outcome' = [outcome EXCEPT ![p] = Result(500, <<>>)]
  <2>1. CASE CopyState(p)
    <3>1. threads' = [threads EXCEPT ![p] = Append(@, s)]
      BY <1>2, <2>1 DEF CopyState, CopyId
    <3>2. threads' = [threads EXCEPT ![p] = <<s>>]
      BY <1>2, <3>1
    <3> QED
      BY <1>2, <1>3, <2>1, <3>2 DEF CopyState
  <2>2. CASE CopyFails(p)
    BY <2>2 DEF CopyFails
  <2> QED
    BY <2>1, <2>2
<1> HIDE DEF s
<1>5. <<s>> \in Seq(Snapshots)
  BY <1>3
<1>6. TypeOK'
  <2>1. outcome' \in [Replays -> Results \cup {None}]
    <3>1. outcome \in [Replays -> Results \cup {None}] /\ <<>> \in Nexts
      BY DEF IInv, TypeOK, Nexts
    <3> QED
      BY <1>4, <3>1, AnswerIs
  <2>2. threads' \in [Runs \cup Replays -> Seq(Snapshots)]
    <3>1. threads \in [Runs \cup Replays -> Seq(Snapshots)]
      BY DEF IInv, TypeOK
    <3> QED
      BY <1>4, <1>5, <3>1
  <2>3. pc' \in [Replays -> {"idle", "reading", "copying", "running", "cleaning", "done"}]
    BY <1>4, GotoIs
  <2> QED
    BY <1>1, <2>1, <2>2, <2>3 DEF IInv, TypeOK, askVars
<1>7. \/ pc'[p] = "running" /\ threads'[p] = <<s>>
      \/ pc'[p] = "cleaning" /\ threads'[p] = threads[p]
  BY <1>4 DEF IInv, TypeOK, Goto
<1>8. ReplayInv(p)'
  BY <1>1, <1>2, <1>7 DEF ReplayInv, askVars, s
<1>9. /\ \A q \in (Runs \cup Replays) \ {p} : threads'[q] = threads[q]
      /\ \A q \in Replays \ {p} : pc'[q] = pc[q]
  BY <1>4 DEF IInv, TypeOK, Goto
<1> QED
  BY <1>1, <1>6, <1>8, <1>9, ReplayStepInv DEF askVars

LEMMA NodeRunsInv ==
    ASSUME IInv, NEW p \in Replays, NodeRuns(p)
    PROVE  IInv'
<1> DEFINE n == node[p]
           v == began[target[p]][n]
           s == Snapshot(<<n>>, v)
<1>1. /\ pc[p] = "running" /\ Goto(p, "cleaning")
      /\ UNCHANGED <<phase, registered, askVars, turn, began>>
  BY DEF NodeRuns
<1>2. /\ target[p] \in Runs /\ phase[target[p]] = "over" /\ n \in Nodes /\ v \in Values
      /\ threads[p] = <<s>> /\ ran[p] = <<>>
  BY <1>1 DEF IInv, ReplayInv
<1>3. s \in Snapshots /\ s.next = <<n>> /\ s.values = v
  BY <1>2 DEF Snapshot, Snapshots, Nexts, Writers
<1>4. Entry(p) = s /\ s.next[1] = n
  BY <1>2, <1>3 DEF Entry, CopyId, Last
<1>5. ran' = [ran EXCEPT ![p] = Append(@, [node |-> n, values |-> v])]
  BY <1>3, <1>4 DEF NodeRuns
<1>6. \/ UNCHANGED threads /\ outcome' = [outcome EXCEPT ![p] = Result(500, <<>>)]
      \/ \E output \in Writes(n) :
           LET after == Wrote(n, Put(v, n, output))
           IN /\ threads' = [threads EXCEPT ![p] = Append(@, after)]
              /\ outcome' = [outcome EXCEPT ![p] = Result(200, after.next)]
  BY <1>3, <1>4 DEF NodeRuns, CopyId
<1> HIDE DEF s, v, n
<1>7. /\ threads' \in [Runs \cup Replays -> Seq(Snapshots)]
      /\ outcome' \in [Replays -> Results \cup {None}]
      /\ \A q \in (Runs \cup Replays) \ {p} : threads'[q] = threads[q]
  <2>1. /\ threads \in [Runs \cup Replays -> Seq(Snapshots)]
        /\ outcome \in [Replays -> Results \cup {None}]
    BY DEF IInv, TypeOK
  <2>2. CASE UNCHANGED threads /\ outcome' = [outcome EXCEPT ![p] = Result(500, <<>>)]
    <3>1. <<>> \in Nexts
      BY DEF Nexts
    <3>2. outcome' \in [Replays -> Results \cup {None}]
      <4>1. Result(500, <<>>) \in Results
        BY <3>1 DEF Result, Results
      <4> QED
        BY <2>1, <2>2, <4>1
    <3> QED
      BY <2>1, <2>2, <3>2
  <2>3. ASSUME NEW after \in Snapshots,
               threads' = [threads EXCEPT ![p] = Append(@, after)],
               outcome' = [outcome EXCEPT ![p] = Result(200, after.next)]
        PROVE  /\ threads' \in [Runs \cup Replays -> Seq(Snapshots)]
               /\ outcome' \in [Replays -> Results \cup {None}]
               /\ \A q \in (Runs \cup Replays) \ {p} : threads'[q] = threads[q]
    <3>1. after.next \in Nexts
      BY DEF Snapshots
    <3>2. Append(threads[p], after) \in Seq(Snapshots)
      BY <2>1
    <3>3. outcome' \in [Replays -> Results \cup {None}]
      <4>1. Result(200, after.next) \in Results
        BY <3>1 DEF Result, Results
      <4> QED
        BY <2>1, <2>3, <4>1
    <3> QED
      BY <2>1, <2>3, <3>2, <3>3
  <2>4. ASSUME NEW output \in Writes(n) PROVE Wrote(n, Put(v, n, output)) \in Snapshots
    <3>1. n \in Writers /\ output \in Runs \cup Outputs \cup {"safe", "unsafe"}
      BY <1>2 DEF Writers, Writes
    <3>2. Put(v, n, output) \in Values
      BY <1>2, <3>1, PutIs
    <3>3. Successor(n, Put(v, n, output)) \in Nexts
      BY <3>1, SuccessorIs
    <3> QED
      BY <3>2, <3>3 DEF Wrote, Snapshot, Snapshots
  <2> QED
    BY <1>6, <2>2, <2>3, <2>4
<1>8. /\ ran'[p] = <<[node |-> n, values |-> v]>> /\ pc'[p] = "cleaning"
      /\ \A q \in Replays \ {p} : ran'[q] = ran[q]
      /\ ran' \in [Replays -> Seq([node : Nodes, values : Values])]
  <2>1. ran \in [Replays -> Seq([node : Nodes, values : Values])]
    BY DEF IInv, TypeOK
  <2> DEFINE rec == [node |-> n, values |-> v]
  <2>2. rec \in [node : Nodes, values : Values]
    BY <1>2
  <2> HIDE DEF rec
  <2>3. Append(<<>>, rec) = <<rec>> /\ <<rec>> \in Seq([node : Nodes, values : Values])
    BY <2>2
  <2>4. ran' = [ran EXCEPT ![p] = <<rec>>]
    BY <1>2, <1>5, <2>3 DEF rec
  <2>5. pc'[p] = "cleaning"
    BY <1>1 DEF IInv, TypeOK, Goto
  <2> QED
    BY <2>1, <2>3, <2>4, <2>5 DEF rec
<1>9. TypeOK'
  <2>1. pc' \in [Replays -> {"idle", "reading", "copying", "running", "cleaning", "done"}]
    BY <1>1, GotoIs
  <2> QED
    BY <1>1, <1>7, <1>8, <2>1 DEF IInv, TypeOK, askVars
<1>10. ReplayInv(p)'
  BY <1>1, <1>2, <1>8 DEF ReplayInv, askVars, n, v
<1>11. \A q \in Replays \ {p} : pc'[q] = pc[q]
  BY <1>1, GotoIs
<1> QED
  BY <1>1, <1>7, <1>8, <1>9, <1>10, <1>11, ReplayStepInv DEF askVars

LEMMA CleanUpInv ==
    ASSUME IInv, NEW p \in Replays, CleanUp(p)
    PROVE  IInv'
<1>1. /\ pc[p] = "cleaning" /\ Goto(p, "done") /\ turn' = [turn EXCEPT ![p] = <<>>]
      /\ threads' = threads \/ threads' = [threads EXCEPT ![p] = <<>>]
      /\ UNCHANGED <<phase, registered, askVars, outcome, began, ran>>
  BY DEF CleanUp, CopyId
<1>2. pc'[p] = "done"
  BY <1>1 DEF IInv, TypeOK, Goto
<1>3. TypeOK'
  <2>1. /\ threads \in [Runs \cup Replays -> Seq(Snapshots)]
        /\ turn \in [Replays -> Seq(Snapshots)] /\ <<>> \in Seq(Snapshots)
    BY DEF IInv, TypeOK
  <2>2. threads' \in [Runs \cup Replays -> Seq(Snapshots)] /\ turn' \in [Replays -> Seq(Snapshots)]
    BY <1>1, <2>1
  <2>3. pc' \in [Replays -> {"idle", "reading", "copying", "running", "cleaning", "done"}]
    BY <1>1, GotoIs
  <2> QED
    BY <1>1, <2>2, <2>3 DEF IInv, TypeOK, askVars
<1>4. ReplayInv(p)'
  BY <1>1, <1>2 DEF IInv, ReplayInv, askVars
<1>5. \A q \in Replays \ {p} : pc'[q] = pc[q]
  BY <1>1, GotoIs
<1>6. \A q \in (Runs \cup Replays) \ {p} : threads'[q] = threads[q]
  BY <1>1 DEF IInv, TypeOK
<1>7. \A q \in Replays \ {p} : turn'[q] = turn[q]
  BY <1>1 DEF IInv, TypeOK
<1> QED
  BY <1>1, <1>3, <1>4, <1>5, <1>6, <1>7, ReplayStepInv DEF askVars

LEMMA StutterInv ==
    ASSUME IInv, UNCHANGED vars
    PROVE  IInv'
<1>1. TypeOK'
  BY DEF vars, askVars, IInv, TypeOK
<1>2. ASSUME NEW r \in Runs PROVE RunInv(r)'
  BY RunKept DEF vars, IInv
<1>3. ASSUME NEW p \in Replays PROVE ReplayInv(p)'
  BY ReplayKept DEF vars, askVars, IInv
<1> QED
  BY <1>1, <1>2, <1>3 DEF IInv

LEMMA StepInv == IInv /\ [Next]_vars => IInv'
<1> SUFFICES ASSUME IInv, [Next]_vars PROVE IInv'
  OBVIOUS
<1>1. ASSUME NEW r \in Runs, RunStep(r) PROVE IInv'
  BY <1>1, ValidateInv, RegisterInv, DropInv, NodeReturnsInv, NodeRaisesInv DEF RunStep
<1>2. ASSUME NEW p \in Replays, ReplayStep(p) PROVE IInv'
  BY <1>2, AskInv, ReadHistoryInv, CopyInv, NodeRunsInv, CleanUpInv DEF ReplayStep
<1>3. CASE UNCHANGED vars
  BY <1>3, StutterInv
<1> QED
  BY <1>1, <1>2, <1>3 DEF Next

LEMMA Invariance == Spec => []IInv
BY InitInv, StepInv, PTL DEF Spec

----------------------------------------------------------------------------

(* Every state is well typed: the graph only ever has one node next.       *)
THEOREM TypeCorrect == Spec => []TypeOK
<1>1. IInv => TypeOK
  BY DEF IInv
<1> QED
  BY <1>1, Invariance, PTL

(* A replay runs the node it was asked for on the values that node began   *)
(* with in the run (run_single_node: aupdate_state as the node before).    *)
THEOREM ReplayRepeatsTheRunHolds == Spec => []ReplayRepeatsTheRun
<1>1. IInv => ReplayRepeatsTheRun
  BY DEF IInv, ReplayInv, ReplayRepeatsTheRun
<1> QED
  BY <1>1, Invariance, PTL

(* No replay writes into the thread of a run, whatever else goes on.       *)
THEOREM RunIsUntouchedHolds == Spec => RunIsUntouched
<1>1. IInv /\ [Next]_vars => [OnlyDeleted]_vars
  <2> SUFFICES ASSUME IInv, Next, NEW r \in Runs, phase[r] = "over", threads'[r] # threads[r]
               PROVE  threads'[r] = <<>> /\ r \notin registered
    BY DEF OnlyDeleted
  <2>1. threads \in [Runs \cup Replays -> Seq(Snapshots)]
    BY DEF IInv, TypeOK
  <2>2. ASSUME NEW p \in Replays, ReplayStep(p) PROVE FALSE
    <3>1. p # r
      BY IdsAssumption
    <3> QED
      BY <2>1, <2>2, <3>1 DEF ReplayStep, Ask, ReadHistory, CopyState, CopyFails, NodeRuns, CleanUp, CopyId
  <2>3. PICK q \in Runs : RunStep(q)
    BY <2>2 DEF Next
  <2>4. q = r
    BY <2>1, <2>3 DEF RunStep, Validate, Register, Drop, ThreadDeleted, NodeReturns, NodeRaises
  <2>5. ThreadDeleted(r)
    BY <2>1, <2>3, <2>4 DEF RunStep, Validate, Register, Drop, NodeReturns, NodeRaises, Begins
  <2> QED
    BY <2>1, <2>5 DEF ThreadDeleted
<1> QED
  BY <1>1, Invariance, PTL DEF Spec, RunIsUntouched

(* A refusal is never wrong, nor the node a replay says would come next.   *)
THEOREM RefusedOnlyIfItDidNotRunHolds == Spec => RefusedOnlyIfItDidNotRun
<1>1. IInv /\ [Next]_vars => [AnsweredRightly]_vars
  <2> SUFFICES ASSUME IInv, Next, NEW p \in Replays, outcome'[p] # outcome[p]
               PROVE  AnswerIsRight(p)
    BY DEF AnsweredRightly
  <2>1. outcome \in [Replays -> Results \cup {None}]
    BY DEF IInv, TypeOK
  <2>2. \A r \in Runs : ~RunStep(r)
    BY DEF RunStep, Validate, Register, Drop, ThreadDeleted, NodeReturns, NodeRaises
  <2>3. PICK q \in Replays : ReplayStep(q)
    BY <2>2 DEF Next
  <2>4. q = p
    BY <2>1, <2>3 DEF ReplayStep, Ask, ReadHistory, CopyState, CopyFails, NodeRuns, CleanUp
  <2>5. CASE Ask(p)
    <3>1. PICK r \in Runs, n \in Nodes \cup {START, "unknown"}, k \in 0 .. 1 :
            /\ target' = [target EXCEPT ![p] = r] /\ r \notin registered
            /\ outcome' = [outcome EXCEPT ![p] = Result(404, <<>>)]
      BY <2>5 DEF Ask
    <3>2. target'[p] = r /\ outcome'[p].status = 404
      BY <2>1, <3>1 DEF IInv, TypeOK, Result
    <3> QED
      BY <3>1, <3>2 DEF AnswerIsRight
  <2>6. CASE ReadHistory(p)
    <3> DEFINE h == threads[target[p]]
               refusal == Refusal(h, node[p], occurrence[p])
    <3>1. /\ pc[p] = "reading" /\ UNCHANGED askVars /\ turn' = [turn EXCEPT ![p] = h]
          /\ turn'[p] = h
      BY <2>6 DEF ReadHistory, IInv, TypeOK
    <3>2. refusal # None /\ outcome' = [outcome EXCEPT ![p] = Result(refusal, <<>>)]
      BY <2>6, <3>1 DEF ReadHistory, askVars
    <3>3. outcome'[p].status = refusal /\ refusal \in {404, 409}
      BY <2>1, <3>2 DEF Result, Refusal
    <3>4. ASSUME target[p] \in registered, occurrence[p] = 0, node[p] \in Nodes,
                 began[target[p]][node[p]] # None
          PROVE  FALSE
      <4>1. target[p] \in Runs
        BY <3>1 DEF IInv, ReplayInv
      <4>2. History(h) /\ Begun(began[target[p]], h, phase[target[p]] # "running")
        BY <3>4, <4>1 DEF IInv, RunInv
      <4> QED
        BY <3>2, <3>4, <4>2, NotRefused
    <3>5. occurrence[p] \in 0 .. 1
      BY DEF IInv, TypeOK
    <3> QED
      BY <3>1, <3>3, <3>4, <3>5 DEF AnswerIsRight, askVars
  <2>7. CASE CopyState(p) \/ CopyFails(p)
    <3>1. pc[p] = "copying"
      BY <2>7 DEF CopyState, CopyFails
    <3>2. Restored(turn[p], Target(turn[p], node[p], occurrence[p])).next = <<node[p]>>
      <4>1. Restored(turn[p], Target(turn[p], node[p], occurrence[p])) =
              Snapshot(<<node[p]>>, began[target[p]][node[p]])
        BY <3>1, CopyingInv
      <4> QED
        BY <4>1 DEF Snapshot
    <3>3. outcome' = [outcome EXCEPT ![p] = Result(500, <<>>)]
      BY <2>7, <3>2 DEF CopyState, CopyFails
    <3>4. outcome'[p].status = 500
      BY <2>1, <3>3 DEF Result
    <3> QED
      BY <3>4 DEF AnswerIsRight
  <2>8. CASE NodeRuns(p)
    <3> DEFINE n == node[p]
               v == began[target[p]][n]
    <3>1. v \in Values /\ threads[p] = <<Snapshot(<<n>>, v)>>
      BY <2>8 DEF NodeRuns, IInv, ReplayInv
    <3>2. Entry(p).values = v
      BY <3>1 DEF Entry, CopyId, Last, Snapshot
    <3>3. v # None
      BY <3>1, NoneAssumption
    <3> HIDE DEF v
    <3>4. \/ outcome' = [outcome EXCEPT ![p] = Result(500, <<>>)]
          \/ \E output \in Writes(n) :
               outcome' = [outcome EXCEPT ![p] = Result(200, Successor(n, Put(v, n, output)))]
      BY <2>8, <3>2 DEF NodeRuns, Wrote, Snapshot
    <3>5. \/ outcome'[p].status = 500
          \/ \E output \in Writes(n) :
               /\ outcome'[p].status = 200
               /\ outcome'[p].next = Successor(n, Put(v, n, output))
      BY <2>1, <3>4 DEF Result
    <3> QED
      BY <3>3, <3>5 DEF AnswerIsRight, v
  <2>9. ~CleanUp(p)
    BY DEF CleanUp
  <2> QED
    BY <2>3, <2>4, <2>5, <2>6, <2>7, <2>8, <2>9 DEF ReplayStep
<1> QED
  BY <1>1, Invariance, PTL DEF Spec, RefusedOnlyIfItDidNotRun

=============================================================================
