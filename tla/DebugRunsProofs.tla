--------------------------- MODULE DebugRunsProofs ---------------------------
(***************************************************************************)
(* Proofs about DebugRuns for any number of requests, any limits and any   *)
(* sizes.  A thread and its run are kept together by where each request    *)
(* is, whatever the loops decide; what the loops decide is the last part.  *)
(***************************************************************************)
EXTENDS DebugRuns, DataInduction

\* The places of a validation that has not inserted its run yet.
Unregistered == {"running", "measuring", "purging"}

\* The places of a validation whose run is, or may have been, in the store.
Inserted == {"evicting", "done", "failed"}

\* A validation on its way to Register has its thread, and nobody else knows it.
OnItsWay ==
    \A f \in Fresh : pc[f] \in Unregistered => f \in threads

\* Only what was inserted is registered, listed as expired or being dropped, and
\* what is being dropped has left the store.
Known ==
    /\ \A f \in registered : pc[f] \in Inserted
    /\ \A r \in Requests : \A f \in expired[r] : pc[f] \in Inserted
    /\ \A r \in Requests : dropping[r] # None =>
           pc[dropping[r]] \in Inserted /\ dropping[r] \notin registered

\* A replay has a copy only between CopyThread and CleanUp.
CopyIsHeld ==
    \A q \in Replays :
        q \in threads => q \in leaked \/ pc[q] \in {"replaying", "cleaning", "failed"}

IInv == TypeOK /\ OnItsWay /\ Known /\ CopyIsHeld /\ RegisteredHasThread /\ NoOrphanThread

\* Every variable of the specification, for the steps that stutter.
LEMMA StutterInv ==
    ASSUME IInv, UNCHANGED vars
    PROVE  IInv'
  BY DEF IInv, TypeOK, OnItsWay, Known, CopyIsHeld, RegisteredHasThread, NoOrphanThread,
         vars, storeVars, localVars

LEMMA InitInv == Init => IInv
  BY BoundsAssumption, RequestsAssumption
  DEF Init, IInv, TypeOK, OnItsWay, Known, CopyIsHeld, RegisteredHasThread, NoOrphanThread,
      Unregistered, Inserted, Requests, Places

LEMMA TickInv ==
    ASSUME IInv, Tick
    PROVE  IInv'
  BY BoundsAssumption
  DEF Tick, IInv, TypeOK, OnItsWay, Known, CopyIsHeld, RegisteredHasThread, NoOrphanThread,
      storeVars, localVars

(***************************************************************************)
(* The steps of purge and _drop                                            *)
(***************************************************************************)

LEMMA PurgeNextInv ==
    ASSUME IInv, NEW r \in Requests, PurgeNext(r)
    PROVE  IInv'
<1> USE RequestsAssumption DEF Requests
<1>1. PICK run \in expired[r] :
         /\ dropping' = [dropping EXCEPT ![r] = run]
         /\ registered' = registered \ {run}
         /\ expired' = [expired EXCEPT ![r] = @ \ {run}]
         /\ loop' = None
  BY DEF PurgeNext, Drop, Awaits
<1>2. /\ UNCHANGED <<now, pc, created, size, place, added, limit, target, threads, leaked>>
      /\ pc[r] = "purging"
      /\ dropping[r] = None
  BY DEF PurgeNext, At
<1>3. run \in Fresh /\ pc[run] \in Inserted
  BY DEF IInv, TypeOK, Known
<1>4. TypeOK'
  BY <1>1, <1>2, <1>3 DEF IInv, TypeOK
<1>5. OnItsWay' /\ CopyIsHeld' /\ RegisteredHasThread'
  BY <1>1, <1>2 DEF IInv, OnItsWay, CopyIsHeld, RegisteredHasThread
<1>6. Known'
  BY <1>1, <1>2, <1>3 DEF IInv, TypeOK, Known
<1>7. NoOrphanThread'
  BY <1>1, <1>2 DEF IInv, TypeOK, NoOrphanThread
<1> QED
  BY <1>4, <1>5, <1>6, <1>7 DEF IInv

LEMMA EvictInv ==
    ASSUME IInv, NEW r \in Requests, Evict(r)
    PROVE  IInv'
<1> USE RequestsAssumption DEF Requests
<1>1. PICK run \in registered :
         /\ dropping' = [dropping EXCEPT ![r] = run]
         /\ registered' = registered \ {run}
         /\ loop' = None
  BY DEF Evict, Drop, Awaits
<1>2. /\ UNCHANGED <<now, pc, created, size, place, added, limit, expired, target, threads, leaked>>
      /\ dropping[r] = None
  BY DEF Evict
<1>3. run \in Fresh /\ pc[run] \in Inserted
  BY DEF IInv, TypeOK, Known
<1>4. TypeOK'
  BY <1>1, <1>2, <1>3 DEF IInv, TypeOK
<1>5. OnItsWay' /\ CopyIsHeld' /\ RegisteredHasThread'
  BY <1>1, <1>2 DEF IInv, OnItsWay, CopyIsHeld, RegisteredHasThread
<1>6. Known'
  BY <1>1, <1>2, <1>3 DEF IInv, TypeOK, Known
<1>7. NoOrphanThread'
  BY <1>1, <1>2 DEF IInv, TypeOK, NoOrphanThread
<1> QED
  BY <1>4, <1>5, <1>6, <1>7 DEF IInv

LEMMA ThreadDeletedInv ==
    ASSUME IInv, NEW r \in Requests, ThreadDeleted(r)
    PROVE  IInv'
<1> USE RequestsAssumption DEF Requests, ThreadDeleted, Resume, storeVars
<1>1. /\ dropping[r] \in Fresh
      /\ pc[dropping[r]] \in Inserted
      /\ dropping[r] \notin registered
  BY DEF IInv, TypeOK, Known
<1>2. TypeOK'
  BY DEF IInv, TypeOK
<1>3. OnItsWay'
  BY <1>1 DEF IInv, OnItsWay, Unregistered, Inserted
<1>4. CopyIsHeld' /\ RegisteredHasThread'
  BY <1>1 DEF IInv, CopyIsHeld, RegisteredHasThread
<1>5. Known'
  BY DEF IInv, TypeOK, Known
<1>6. NoOrphanThread'
  BY DEF IInv, TypeOK, NoOrphanThread
<1> QED
  BY <1>2, <1>3, <1>4, <1>5, <1>6 DEF IInv

LEMMA DropRaisesInv ==
    ASSUME IInv, NEW r \in Requests, DropRaises(r)
    PROVE  IInv'
<1> USE RequestsAssumption DEF Requests, DropRaises, Goto, storeVars
<1>1. dropping[r] \in Fresh
  BY DEF IInv, TypeOK
<1>2. TypeOK'
  BY <1>1 DEF IInv, TypeOK, Places
<1>3. OnItsWay' /\ CopyIsHeld' /\ RegisteredHasThread'
  BY DEF IInv, TypeOK, OnItsWay, CopyIsHeld, RegisteredHasThread, Unregistered
<1>4. Known'
  BY DEF IInv, TypeOK, Known, Inserted
<1>5. NoOrphanThread'
  BY DEF IInv, TypeOK, NoOrphanThread
<1> QED
  BY <1>2, <1>3, <1>4, <1>5 DEF IInv

(***************************************************************************)
(* The steps of a validation                                               *)
(***************************************************************************)

LEMMA ValidateInv ==
    ASSUME IInv, NEW r \in Fresh, Validate(r)
    PROVE  IInv'
<1> USE RequestsAssumption DEF Requests, Validate, At, Goto, storeVars, localVars
<1>1. TypeOK'
  BY DEF IInv, TypeOK, Places
<1>2. OnItsWay' /\ CopyIsHeld' /\ RegisteredHasThread'
  BY DEF IInv, TypeOK, OnItsWay, CopyIsHeld, RegisteredHasThread
<1>3. Known'
  BY DEF IInv, TypeOK, Known, Inserted
<1>4. NoOrphanThread'
  BY DEF IInv, TypeOK, NoOrphanThread
<1> QED
  BY <1>1, <1>2, <1>3, <1>4 DEF IInv

\* What RunReturns and Measured share.
LEMMA AddInv ==
    ASSUME IInv, NEW r \in Fresh, NEW bytes \in Nat,
           pc[r] \in {"running", "measuring"}, Resume(r), Add(r, bytes)
    PROVE  IInv'
<1> USE RequestsAssumption DEF Requests, Resume, Add, Snapshot, Goto
<1>1. TypeOK'
  BY BoundsAssumption DEF IInv, TypeOK, Places
<1>2. OnItsWay' /\ CopyIsHeld' /\ RegisteredHasThread'
  BY DEF IInv, TypeOK, OnItsWay, CopyIsHeld, RegisteredHasThread, Unregistered
<1>3. Known'
  BY DEF IInv, TypeOK, Known, Inserted
<1>4. NoOrphanThread'
  BY DEF IInv, TypeOK, NoOrphanThread
<1> QED
  BY <1>1, <1>2, <1>3, <1>4 DEF IInv

LEMMA RunRaisesInv ==
    ASSUME IInv, NEW r \in Fresh, RunRaises(r)
    PROVE  IInv'
<1> USE RequestsAssumption DEF Requests, RunRaises, At, Goto, storeVars, localVars
<1>1. TypeOK'
  BY DEF IInv, TypeOK, Places
<1>2. OnItsWay' /\ CopyIsHeld' /\ RegisteredHasThread'
  BY DEF IInv, TypeOK, OnItsWay, CopyIsHeld, RegisteredHasThread, Unregistered
<1>3. Known'
  BY DEF IInv, TypeOK, Known, Inserted
<1>4. NoOrphanThread'
  BY DEF IInv, TypeOK, NoOrphanThread
<1> QED
  BY <1>1, <1>2, <1>3, <1>4 DEF IInv

\* The run that is inserted is being dropped by nobody: it was not known before.
LEMMA RegisterInv ==
    ASSUME IInv, NEW r \in Fresh, Register(r)
    PROVE  IInv'
<1> USE RequestsAssumption
    DEF Requests, Register, Purged, At, Runs, Goto, localVars
<1>1. TypeOK'
  BY DEF IInv, TypeOK, Places
<1>2. r \in threads
  BY DEF IInv, OnItsWay, Unregistered
<1>3. OnItsWay' /\ CopyIsHeld' /\ RegisteredHasThread'
  BY <1>2 DEF IInv, TypeOK, OnItsWay, CopyIsHeld, RegisteredHasThread, Unregistered
<1>4. Known'
  BY DEF IInv, TypeOK, Known, Inserted
<1>5. NoOrphanThread'
  BY DEF IInv, TypeOK, NoOrphanThread
<1> QED
  BY <1>1, <1>3, <1>4, <1>5 DEF IInv

LEMMA AddReturnsInv ==
    ASSUME IInv, NEW r \in Fresh, AddReturns(r)
    PROVE  IInv'
<1> USE RequestsAssumption DEF Requests, AddReturns, At, Awaits, Goto, storeVars, localVars
<1>1. TypeOK'
  BY DEF IInv, TypeOK, Places
<1>2. OnItsWay' /\ CopyIsHeld' /\ RegisteredHasThread'
  BY DEF IInv, TypeOK, OnItsWay, CopyIsHeld, RegisteredHasThread, Unregistered
<1>3. Known'
  BY DEF IInv, TypeOK, Known, Inserted
<1>4. NoOrphanThread'
  BY DEF IInv, TypeOK, NoOrphanThread
<1> QED
  BY <1>1, <1>2, <1>3, <1>4 DEF IInv

LEMMA FreshInv ==
    ASSUME IInv, NEW r \in Fresh, FreshStep(r)
    PROVE  IInv'
<1>1. CASE RunReturns(r)
  BY <1>1, AddInv, BoundsAssumption DEF RunReturns, At
<1>2. CASE Measured(r)
  BY <1>2, AddInv, BoundsAssumption DEF Measured, At
<1> QED
  BY <1>1, <1>2, ValidateInv, RunRaisesInv, RegisterInv, EvictInv, AddReturnsInv
  DEF FreshStep, Requests

(***************************************************************************)
(* The steps of a replay                                                   *)
(***************************************************************************)

LEMMA AskInv ==
    ASSUME IInv, NEW q \in Replays, Ask(q)
    PROVE  IInv'
<1> USE RequestsAssumption DEF Requests, Ask, At, Resume, Snapshot, Goto, storeVars
<1>1. TypeOK'
  BY BoundsAssumption DEF IInv, TypeOK, Places
<1>2. OnItsWay' /\ CopyIsHeld' /\ RegisteredHasThread'
  BY DEF IInv, TypeOK, OnItsWay, CopyIsHeld, RegisteredHasThread
<1>3. Known'
  BY DEF IInv, TypeOK, Known, Inserted
<1>4. NoOrphanThread'
  BY DEF IInv, TypeOK, NoOrphanThread
<1> QED
  BY <1>1, <1>2, <1>3, <1>4 DEF IInv

\* Steps before a copy exists.
LEMMA BeforeCopyInv ==
    ASSUME IInv, NEW q \in Replays, Lookup(q) \/ ReadHistory(q)
    PROVE  IInv'
<1> USE RequestsAssumption
    DEF Requests, Lookup, ReadHistory, Purged, Awaits, At, Goto, storeVars, localVars
<1>1. q \in threads => q \in leaked
  BY DEF IInv, CopyIsHeld
<1>2. TypeOK'
  BY DEF IInv, TypeOK, Places
<1>3. OnItsWay' /\ CopyIsHeld' /\ RegisteredHasThread'
  BY <1>1 DEF IInv, TypeOK, OnItsWay, CopyIsHeld, RegisteredHasThread
<1>4. Known'
  BY DEF IInv, TypeOK, Known, Inserted
<1>5. NoOrphanThread'
  BY <1>1 DEF IInv, TypeOK, NoOrphanThread
<1> QED
  BY <1>2, <1>3, <1>4, <1>5 DEF IInv

\* The copy is made, used and deleted; it is no validation's thread.
LEMMA CopyInv ==
    ASSUME IInv, NEW q \in Replays,
           CopyThread(q) \/ ReplayEnds(q) \/ CleanUp(q) \/ CleanUpRaises(q)
    PROVE  IInv'
<1> USE RequestsAssumption
    DEF Requests, CopyThread, ReplayEnds, CleanUp, CleanUpRaises, At, Goto, storeVars, localVars
<1>1. TypeOK'
  BY DEF IInv, TypeOK, Places
<1>2. OnItsWay' /\ CopyIsHeld'
  BY DEF IInv, TypeOK, OnItsWay, CopyIsHeld
<1>3. RegisteredHasThread'
  BY DEF IInv, TypeOK, RegisteredHasThread
<1>4. Known'
  BY DEF IInv, TypeOK, Known, Inserted
<1>5. NoOrphanThread'
  BY DEF IInv, TypeOK, NoOrphanThread
<1> QED
  BY <1>1, <1>2, <1>3, <1>4, <1>5 DEF IInv

LEMMA StepInv == IInv /\ [Next]_vars => IInv'
<1> SUFFICES ASSUME IInv, [Next]_vars PROVE IInv'
  OBVIOUS
<1>1. CASE Tick
  BY <1>1, TickInv
<1>2. ASSUME NEW r \in Requests, StoreStep(r) PROVE IInv'
  BY <1>2, PurgeNextInv, ThreadDeletedInv, DropRaisesInv DEF StoreStep
<1>3. ASSUME NEW r \in Fresh, FreshStep(r) PROVE IInv'
  BY <1>3, FreshInv
<1>4. ASSUME NEW q \in Replays, ReplayStep(q) PROVE IInv'
  BY <1>4, AskInv, BeforeCopyInv, CopyInv DEF ReplayStep
<1>5. CASE UNCHANGED vars
  BY <1>5, StutterInv
<1> QED
  BY <1>1, <1>2, <1>3, <1>4, <1>5 DEF Next

LEMMA Invariance == Spec => []IInv
  BY InitInv, StepInv, PTL DEF Spec

\* Every state of the store, the checkpointer and the coroutines is well typed.
THEOREM TypeCorrect == Spec => []TypeOK
<1>1. IInv => TypeOK
  BY DEF IInv
<1> QED
  BY <1>1, Invariance, PTL

\* A run that exists() finds has its history, for any number of concurrent requests
\* (debug_runs.py: the dict entry goes before the thread).
THEOREM RegisteredHasThreadHolds == Spec => []RegisteredHasThread
<1>1. IInv => RegisteredHasThread
  BY DEF IInv
<1> QED
  BY <1>1, Invariance, PTL

\* No thread is left in the checkpointer without an owner, except where a deletion
\* raised (debug_runs.py _drop, debug_replay.py's finally).
THEOREM NoOrphanThreadHolds == Spec => []NoOrphanThread
<1>1. IInv => NoOrphanThread
  BY DEF IInv
<1> QED
  BY <1>1, Invariance, PTL

(***************************************************************************)
(* What a replay is admitted to                                            *)
(***************************************************************************)

\* While a request purges, a run that is still registered is either in its list or
\* young enough; what is registered meanwhile is younger still.
Young ==
    /\ \A r \in Requests : limit[r] <= now
    /\ \A r \in Requests : pc[r] = "purging" =>
           \A f \in registered : f \in expired[r] \/ created[f] >= limit[r]

LEMMA YoungStep ==
    ASSUME ClockSteps \subseteq Nat
    PROVE  IInv /\ Young /\ [Next]_vars => Young'
<1> USE RequestsAssumption DEF Requests
<1> SUFFICES ASSUME IInv, Young, [Next]_vars PROVE Young'
  OBVIOUS
<1> USE DEF IInv, TypeOK, Young, At, Goto
<1>1. CASE Tick
  <2>1. now' >= now
    BY <1>1 DEF Tick
  <2> QED
    BY <1>1, <2>1 DEF Tick, storeVars, localVars
<1>2. CASE UNCHANGED vars
  BY <1>2 DEF vars, storeVars, localVars
<1>3. ASSUME NEW r \in Requests, PurgeNext(r) PROVE Young'
  BY <1>3 DEF PurgeNext, Drop
<1>4. ASSUME NEW r \in Requests, ThreadDeleted(r) \/ DropRaises(r) PROVE Young'
  BY <1>4 DEF ThreadDeleted, DropRaises, storeVars
<1>5. ASSUME NEW r \in Requests, Snapshot(r), UNCHANGED <<now, registered, created>>,
             pc' = [pc EXCEPT ![r] = "purging"]
      PROVE  Young'
  <2>1. now - MAX_AGE_SECONDS \in Int /\ now - MAX_AGE_SECONDS <= now
    BY BoundsAssumption
  <2>2. \A f \in registered : f \in expired'[r] \/ created[f] >= limit'[r]
    BY <1>5, <2>1 DEF Snapshot
  <2> QED
    BY <1>5, <2>1, <2>2 DEF Snapshot
<1>6. ASSUME NEW r \in Fresh, RunReturns(r) \/ Measured(r) PROVE Young'
  BY <1>5, <1>6 DEF RunReturns, Measured, Add
<1>7. ASSUME NEW r \in Fresh, Register(r) PROVE Young'
  BY <1>7 DEF Register, localVars
<1>8. ASSUME NEW r \in Fresh, Evict(r) PROVE Young'
  BY <1>8 DEF Evict, Drop
<1>9. ASSUME NEW r \in Fresh, Validate(r) \/ RunRaises(r) \/ AddReturns(r) PROVE Young'
  BY <1>9 DEF Validate, RunRaises, AddReturns, storeVars, localVars
<1>10. ASSUME NEW q \in Replays, Ask(q) PROVE Young'
  BY <1>5, <1>10 DEF Ask, storeVars
<1>11. ASSUME NEW q \in Replays, ReplayStep(q), ~Ask(q) PROVE Young'
  BY <1>11 DEF ReplayStep, Lookup, ReadHistory, CopyThread, ReplayEnds, CleanUp,
               CleanUpRaises, storeVars, localVars
<1> QED
  BY <1>1, <1>2, <1>3, <1>4, <1>6, <1>7, <1>8, <1>9, <1>10, <1>11
  DEF Next, StoreStep, FreshStep, ReplayStep

\* The list of purge is not stale in any way that matters: when exists() answers,
\* the run is younger than the limit that was computed before the awaits.  The clock
\* must not go back, since created_at is compared across the awaits.
THEOREM ExpiredIsNeverReplayedHolds ==
    ASSUME ClockSteps \subseteq Nat
    PROVE  Spec => ExpiredIsNeverReplayed
<1> USE RequestsAssumption DEF Requests
<1>1. Init => Young
  BY DEF Init, Young
<1>2. IInv /\ Young /\ [Next]_vars => Young'
  BY YoungStep
<1> DEFINE Admitted(q) ==
        pc[q] = "purging" /\ pc'[q] = "reading" => created[target[q]] >= limit[q]
<1>3. IInv /\ Young /\ [Next]_vars => [\A q \in Replays : Admitted(q)]_vars
  <2> SUFFICES ASSUME IInv, Young, [Next]_vars, NEW q \in Replays,
                      pc[q] = "purging", pc'[q] = "reading"
               PROVE  created[target[q]] >= limit[q]
    OBVIOUS
  <2>1. Lookup(q)
    <3> USE DEF IInv, TypeOK, At, Goto
    <3>1. ~Tick /\ ~UNCHANGED vars
      BY DEF Tick, vars
    <3>2. \A r \in Requests : ~StoreStep(r)
      BY DEF StoreStep, PurgeNext, ThreadDeleted, DropRaises
    <3>3. \A r \in Fresh : ~FreshStep(r)
      BY DEF FreshStep, Validate, RunReturns, RunRaises, Measured, Add, Register, Evict, AddReturns
    <3>4. PICK p \in Replays : ReplayStep(p)
      BY <3>1, <3>2, <3>3 DEF Next
    <3> QED
      BY <3>4 DEF ReplayStep, Ask, Lookup, ReadHistory, CopyThread, ReplayEnds, CleanUp,
                  CleanUpRaises
  <2>2. target[q] \in registered /\ expired[q] = {}
    BY <2>1 DEF Lookup, Exists, Purged, Goto, IInv, TypeOK
  <2> QED
    BY <2>2 DEF Young
<1> QED
  BY <1>1, <1>2, <1>3, Invariance, PTL DEF Spec, ExpiredIsNeverReplayed


(***************************************************************************)
(* The limits of the store                                                 *)
(***************************************************************************)

\* The runs of the store have places of their own and, as long as the clock does not
\* go back, were created in that order.
InOrder ==
    /\ \A k \in registered : place[k] \in 1 .. added /\ created[k] <= now
    /\ \A j, k \in registered : place[j] = place[k] => j = k
    /\ \A j, k \in registered : place[j] < place[k] => created[j] <= created[k]
    /\ \A r \in Requests : pc[r] = "purging" => \A f \in expired[r] : created[f] < limit[r]

LEMMA InOrderStep ==
    ASSUME ClockSteps \subseteq Nat
    PROVE  IInv /\ InOrder /\ [Next]_vars => InOrder'
<1> USE RequestsAssumption DEF Requests
<1> SUFFICES ASSUME IInv, InOrder, [Next]_vars PROVE InOrder'
  OBVIOUS
<1> USE DEF IInv, TypeOK, InOrder, At, Goto
<1>1. CASE Tick
  <2>1. now' >= now
    BY <1>1 DEF Tick
  <2> QED
    BY <1>1, <2>1 DEF Tick, storeVars, localVars
<1>2. CASE UNCHANGED vars
  BY <1>2 DEF vars, storeVars, localVars
<1>3. ASSUME NEW r \in Requests, PurgeNext(r) PROVE InOrder'
  BY <1>3 DEF PurgeNext, Drop
<1>4. ASSUME NEW r \in Requests, ThreadDeleted(r) \/ DropRaises(r) PROVE InOrder'
  BY <1>4 DEF ThreadDeleted, DropRaises, storeVars
<1>5. ASSUME NEW r \in Requests, Snapshot(r), UNCHANGED <<now, registered, created, place, added>>,
             pc' = [pc EXCEPT ![r] = "purging"]
      PROVE  InOrder'
  BY <1>5 DEF Snapshot
<1>6. ASSUME NEW r \in Fresh, RunReturns(r) \/ Measured(r) PROVE InOrder'
  BY <1>5, <1>6 DEF RunReturns, Measured, Add
<1>7. ASSUME NEW r \in Fresh, Register(r) PROVE InOrder'
  <2>1. pc[r] = "purging" /\ r \notin registered /\ \A q \in Requests : r \notin expired[q]
    BY <1>7 DEF Register, Purged, Known, Inserted
  <2>2. /\ registered' = registered \cup {r} /\ UNCHANGED <<now, expired, limit>>
        /\ created'[r] = now /\ place'[r] = added + 1 /\ added' = added + 1
        /\ \A f \in Fresh \ {r} : created'[f] = created[f] /\ place'[f] = place[f]
        /\ \A q \in Requests : pc'[q] = "purging" => pc[q] = "purging"
    BY <1>7 DEF Register, localVars
  <2>3. added \in Nat /\ \A k \in registered : place[k] <= added /\ k # r
    BY <2>1
  <2>4. \A q \in Requests : pc'[q] = "purging" => \A f \in expired'[q] : created'[f] < limit'[q]
    BY <2>1, <2>2
  <2>5. \A k \in registered' : place'[k] \in 1 .. added' /\ created'[k] <= now'
    BY <2>2, <2>3
  <2>6. \A j, k \in registered' : place'[j] = place'[k] => j = k
    BY <2>2, <2>3
  <2>7. \A j, k \in registered' : place'[j] < place'[k] => created'[j] <= created'[k]
    BY <2>2, <2>3
  <2> HIDE DEF IInv, TypeOK
  <2> QED
    BY <2>4, <2>5, <2>6, <2>7
<1>8. ASSUME NEW r \in Fresh, Evict(r) PROVE InOrder'
  BY <1>8 DEF Evict, Drop
<1>9. ASSUME NEW r \in Fresh, Validate(r) \/ RunRaises(r) \/ AddReturns(r) PROVE InOrder'
  BY <1>9 DEF Validate, RunRaises, AddReturns, storeVars, localVars
<1>10. ASSUME NEW q \in Replays, Ask(q) PROVE InOrder'
  BY <1>5, <1>10 DEF Ask, storeVars
<1>11. ASSUME NEW q \in Replays, ReplayStep(q), ~Ask(q) PROVE InOrder'
  BY <1>11 DEF ReplayStep, Lookup, ReadHistory, CopyThread, ReplayEnds, CleanUp,
               CleanUpRaises, storeVars, localVars
<1> QED
  BY <1>1, <1>2, <1>3, <1>4, <1>6, <1>7, <1>8, <1>9, <1>10, <1>11
  DEF Next, StoreStep, FreshStep, ReplayStep

\* A store that is above its limits after a run was dropped was so before.
LEMMA DropKeepsLimit ==
    ASSUME IInv, IInv', InOrder, NEW x \in Fresh, registered' = registered \ {x},
           UNCHANGED <<size, place, added>>, OverLimit'
    PROVE  OverLimit
<1>1. IsFiniteSet(registered)
  BY RequestsAssumption, FS_Subset DEF IInv, TypeOK, Requests
<1>2. /\ Cardinality(registered) \in Nat /\ Cardinality(registered') \in Nat
      /\ Cardinality(registered') <= Cardinality(registered)
  BY <1>1, FS_Subset, FS_CardinalityType
<1>3. added \in Nat /\ added' = added
  BY DEF IInv, TypeOK
<1>4. ASSUME NEW n \in 1 .. added PROVE SizeAt'[n] <= SizeAt[n]
  <2>1. CASE \E k \in registered' : place[k] = n
    <3>1. PICK k \in registered' : place[k] = n
      BY <2>1
    <3>2. k \in registered /\ \A j \in registered : place[j] = n => j = k
      BY <3>1 DEF InOrder
    <3>3. SizeAt[n] = size[k]
      BY <3>1, <3>2 DEF SizeAt
    <3>4. SizeAt'[n] = size[k]
      BY <1>3, <3>1, <3>2 DEF SizeAt
    <3>5. size[k] \in Nat
      BY <3>2 DEF IInv, TypeOK
    <3> QED
      BY <3>3, <3>4, <3>5
  <2>2. CASE ~\E k \in registered' : place[k] = n
    <3>1. SizeAt'[n] = 0
      BY <1>3, <2>2 DEF SizeAt
    <3>2. SizeAt[n] \in Nat
      BY DEF IInv, TypeOK, SizeAt
    <3> QED
      BY <3>1, <3>2
  <2> QED
    BY <2>1, <2>2
<1>5. SizeAt \in [1 .. added -> Nat] /\ SizeAt' \in [1 .. added -> Nat]
  BY <1>3 DEF IInv, TypeOK, SizeAt
<1>6. TotalBytes \in Nat /\ TotalBytes' \in Nat /\ TotalBytes' <= TotalBytes
  <2> HIDE DEF SizeAt
  <2>1. /\ SumOf(SizeAt', added) \in Nat /\ SumOf(SizeAt, added) \in Nat
        /\ SumOf(SizeAt', added) <= SumOf(SizeAt, added)
    BY <1>3, <1>4, <1>5, SumIsMonotonic
  <2> QED
    BY <1>3, <2>1 DEF TotalBytes
<1> HIDE DEF TotalBytes
<1> QED
  BY <1>2, <1>6, BoundsAssumption DEF OverLimit


\* A step that leaves the store alone, and the newest run in its loop.
LEMMA QuietLimit ==
    ASSUME IInv, LimitHeldByNewest, UNCHANGED <<registered, place, added>>, SizeAt' = SizeAt,
           \A k \in registered : pc[k] \in {"evicting", "failed"} => pc'[k] \in {"evicting", "failed"}
    PROVE  LimitHeldByNewest'
<1>1. OverLimit' <=> OverLimit
  BY DEF OverLimit, TotalBytes
<1> QED
  BY <1>1 DEF LimitHeldByNewest

\* A run that is dropped is older than one that is left, so that the newest one stays.
LEMMA DropLimit ==
    ASSUME IInv, IInv', InOrder, LimitHeldByNewest,
           NEW x \in Fresh, registered' = registered \ {x}, UNCHANGED <<pc, size, place, added>>,
           \A k \in registered' : x \in registered /\ created[k] <= created[x] => place[x] <= place[k]
    PROVE  LimitHeldByNewest'
<1> SUFFICES ASSUME OverLimit', NEW k \in registered',
                    \A j \in registered' : place[j] <= place[k]
             PROVE  pc[k] \in {"evicting", "failed"}
  BY DEF LimitHeldByNewest
<1>1. OverLimit
  BY DropKeepsLimit
<1>2. \A j \in registered : place[j] \in Nat
  BY DEF IInv, TypeOK
<1>3. \A j \in registered : place[j] <= place[k]
  <2> SUFFICES ASSUME x \in registered, place[x] > place[k] PROVE FALSE
    BY <1>2
  <2>1. created[k] <= created[x]
    BY DEF InOrder
  <2> QED
    BY <1>2, <2>1
<1> QED
  BY <1>1, <1>3 DEF LimitHeldByNewest

LEMMA LimitStep ==
    ASSUME IInv, IInv', InOrder, Young, LimitHeldByNewest, [Next]_vars
    PROVE  LimitHeldByNewest'
<1> USE RequestsAssumption DEF Requests, At, Goto
<1>1. TypeOK /\ Known
  BY DEF IInv
<1>2. ASSUME UNCHANGED <<registered, size, place, added>>,
             \A k \in registered : pc'[k] = pc[k] \/ pc'[k] = "failed"
      PROVE  LimitHeldByNewest'
  <2>1. SizeAt' = SizeAt
    BY <1>2 DEF SizeAt
  <2> QED
    BY <1>2, <2>1, QuietLimit
<1>3. CASE Tick \/ UNCHANGED vars
  BY <1>2, <1>3 DEF Tick, vars, storeVars
<1>4. ASSUME NEW r \in Requests, ThreadDeleted(r) \/ DropRaises(r) PROVE LimitHeldByNewest'
  BY <1>1, <1>2, <1>4 DEF ThreadDeleted, DropRaises, storeVars, TypeOK
<1>5. ASSUME NEW r \in Requests, PurgeNext(r) PROVE LimitHeldByNewest'
  <2>1. PICK x \in expired[r] : IsFirst(x, expired[r]) /\ Drop(r, x)
    BY <1>5 DEF PurgeNext
  <2>2. /\ pc[r] = "purging" /\ UNCHANGED <<pc, created, size, place, added>>
        /\ x \in Fresh /\ registered' = registered \ {x}
    BY <1>1, <1>5, <2>1 DEF PurgeNext, Drop, TypeOK
  <2>3. ASSUME NEW k \in registered', created[k] <= created[x] PROVE place[x] <= place[k]
    <3>1. created[x] < limit[r]
      BY <2>2 DEF InOrder
    <3>2. created[k] \in Nat /\ created[x] \in Nat /\ limit[r] \in Int
      BY <1>1, <2>2 DEF TypeOK
    <3>3. k \in expired[r]
      BY <2>2, <2>3, <3>1, <3>2 DEF Young
    <3> QED
      BY <2>1, <3>3 DEF IsFirst
  <2> QED
    BY <2>2, <2>3, DropLimit
<1>6. ASSUME NEW r \in Fresh, Evict(r) PROVE LimitHeldByNewest'
  <2>1. PICK x \in registered : IsOldest(x) /\ Drop(r, x)
    BY <1>6 DEF Evict
  <2>2. /\ UNCHANGED <<pc, created, size, place, added>>
        /\ x \in Fresh /\ registered' = registered \ {x}
    BY <1>1, <1>6, <2>1 DEF Evict, Drop, TypeOK
  <2>3. ASSUME NEW k \in registered', created[k] <= created[x] PROVE place[x] <= place[k]
    <3>1. Before(x, k)
      BY <2>1, <2>2 DEF IsOldest
    <3>2. /\ created[k] \in Nat /\ created[x] \in Nat /\ place[k] \in Nat /\ place[x] \in Nat
      BY <1>1, <2>2 DEF TypeOK
    <3> QED
      BY <2>3, <3>1, <3>2 DEF Before
  <2> QED
    BY <2>2, <2>3, DropLimit
<1>7. ASSUME NEW r \in Fresh, RunReturns(r) \/ Measured(r) PROVE LimitHeldByNewest'
  <2>1. /\ pc[r] \in {"running", "measuring"} /\ UNCHANGED <<registered, place, added>>
        /\ \A f \in Fresh \ {r} : pc'[f] = pc[f] /\ size'[f] = size[f]
    BY <1>1, <1>7 DEF RunReturns, Measured, Add, TypeOK
  <2>2. r \notin registered /\ registered \subseteq Fresh
    BY <1>1, <2>1 DEF Known, TypeOK, Inserted
  <2>3. SizeAt' = SizeAt
    <3>1. ASSUME NEW n \in 1 .. added, \E k \in registered : place[k] = n
          PROVE  size'[CHOOSE k \in registered : place[k] = n]
                   = size[CHOOSE k \in registered : place[k] = n]
      BY <2>1, <2>2, <3>1
    <3> QED
      BY <2>1, <3>1 DEF SizeAt
  <2> QED
    BY <2>1, <2>2, <2>3, QuietLimit
<1>8. ASSUME NEW r \in Fresh, Register(r) PROVE LimitHeldByNewest'
  <2>1. /\ registered' = registered \cup {r} /\ pc'[r] = "evicting"
        /\ place'[r] = added + 1 /\ \A f \in Fresh \ {r} : place'[f] = place[f]
    BY <1>1, <1>8 DEF Register, TypeOK
  <2>2. added \in Nat /\ \A f \in registered \ {r} : f \in Fresh /\ place[f] <= added /\ place[f] \in Nat
    BY <1>1 DEF TypeOK, InOrder
  <2>3. \A k \in registered' : place'[r] <= place'[k] => k = r
    BY <2>1, <2>2
  <2> QED
    BY <2>1, <2>3 DEF LimitHeldByNewest
<1>9. ASSUME NEW r \in Fresh, AddReturns(r) PROVE LimitHeldByNewest'
  <2>1. /\ UNCHANGED <<registered, created, size, place, added>> /\ (OverLimit => IsOldest(r))
        /\ \A k \in Fresh \ {r} : pc'[k] = pc[k]
    BY <1>1, <1>9 DEF AddReturns, storeVars, TypeOK
  <2>2. SizeAt' = SizeAt
    BY <2>1 DEF SizeAt
  <2>3. OverLimit' <=> OverLimit
    BY <2>1, <2>2 DEF OverLimit, TotalBytes
  <2>4. ASSUME OverLimit PROVE \E j \in registered : place[r] < place[j]
    <3>1. r \in registered
      BY <2>1, <2>4 DEF IsOldest
    <3>2. PICK j \in registered : j # r
      <4>1. Cardinality(registered) > 1
        BY <2>4 DEF OverLimit
      <4>2. registered # {r}
        BY <4>1, FS_Singleton
      <4> QED
        BY <3>1, <4>2
    <3>3. Before(r, j)
      BY <2>1, <2>4, <3>2 DEF IsOldest
    <3>4. /\ created[r] \in Nat /\ created[j] \in Nat /\ place[r] \in Nat /\ place[j] \in Nat
      BY <1>1, <3>2 DEF TypeOK
    <3>5. place[r] # place[j] /\ (place[j] < place[r] => created[j] <= created[r])
      BY <3>1, <3>2 DEF InOrder
    <3> QED
      BY <3>2, <3>3, <3>4, <3>5 DEF Before
  <2>5. ASSUME OverLimit', NEW k \in registered', \A j \in registered' : place'[j] <= place'[k]
        PROVE  pc'[k] \in {"evicting", "failed"}
    <3>1. k # r
      <4>1. PICK j \in registered : place[r] < place[j]
        BY <2>3, <2>4, <2>5
      <4>2. place[r] \in Nat /\ place[j] \in Nat
        BY <1>1 DEF TypeOK
      <4> QED
        BY <2>1, <2>5, <4>1, <4>2
    <3> QED
      BY <1>1, <2>1, <2>3, <2>5, <3>1 DEF LimitHeldByNewest, TypeOK
  <2> HIDE DEF Requests, At, Goto
  <2> QED
    BY <2>5 DEF LimitHeldByNewest
<1>10. ASSUME NEW r \in Fresh, Validate(r) \/ RunRaises(r) PROVE LimitHeldByNewest'
  <2>1. r \notin registered
    BY <1>1, <1>10 DEF Validate, RunRaises, Known, Inserted
  <2> QED
    BY <1>1, <1>2, <1>10, <2>1 DEF Validate, RunRaises, storeVars, TypeOK
<1>11. ASSUME NEW q \in Replays, ReplayStep(q) PROVE LimitHeldByNewest'
  <2>1. q \notin registered
    BY <1>1 DEF TypeOK
  <2>2. UNCHANGED storeVars /\ \A f \in Fresh : pc'[f] = pc[f]
    BY <1>1, <1>11 DEF ReplayStep, Ask, Lookup, ReadHistory, CopyThread, ReplayEnds, CleanUp,
                       CleanUpRaises, TypeOK
  <2> QED
    BY <1>1, <1>2, <2>2 DEF storeVars, TypeOK
<1> QED
  BY <1>3, <1>4, <1>5, <1>6, <1>7, <1>8, <1>9, <1>10, <1>11 DEF Next, StoreStep, FreshStep

\* While the store is above its limits its newest run is still in the loop of its add,
\* as long as the clock does not go back.
THEOREM LimitHeldByNewestHolds ==
    ASSUME ClockSteps \subseteq Nat
    PROVE  Spec => []LimitHeldByNewest
<1>1. Init => InOrder /\ Young /\ LimitHeldByNewest
  <2>1. Init => InOrder /\ Young
    BY DEF Init, InOrder, Young, Requests
  <2>2. Init => LimitHeldByNewest
    BY DEF Init, LimitHeldByNewest
  <2> QED
    BY <2>1, <2>2
<1>2. /\ IInv /\ IInv' /\ InOrder /\ Young /\ LimitHeldByNewest /\ [Next]_vars
        => InOrder' /\ Young' /\ LimitHeldByNewest'
  BY InOrderStep, YoungStep, LimitStep
<1> QED
  BY <1>1, <1>2, Invariance, PTL DEF Spec

\* What a purge drops was too old when it began, and no run was inserted after the
\* newest one.
Newest ==
    /\ \A k \in Fresh : place[k] <= added
    /\ \A r \in Requests : pc[r] = "purging" => limit[r] <= now - MAX_AGE_SECONDS
    /\ NewestRunIsKept

LEMMA NewestStep ==
    ASSUME ClockSteps \subseteq Nat
    PROVE  IInv /\ InOrder /\ Newest /\ [Next]_vars => Newest'
<1> USE RequestsAssumption DEF Requests
<1> SUFFICES ASSUME IInv, InOrder, Newest, [Next]_vars PROVE Newest'
  OBVIOUS
<1> USE DEF IInv, TypeOK, Newest, NewestRunIsKept, At, Goto
<1>1. CASE Tick
  <2>1. now' >= now /\ now' \in Int /\ UNCHANGED <<pc, registered, created, place, added, limit>>
    BY <1>1, BoundsAssumption DEF Tick, storeVars, localVars
  <2>2. MAX_AGE_SECONDS \in Nat
    BY BoundsAssumption
  <2> QED
    BY <2>1, <2>2
<1>2. CASE UNCHANGED vars
  BY <1>2 DEF vars, storeVars, localVars
<1>3. ASSUME NEW r \in Requests, PurgeNext(r) PROVE Newest'
  <2>1. PICK x \in expired[r] : Drop(r, x)
    BY <1>3 DEF PurgeNext
  <2>2. /\ pc[r] = "purging" /\ registered' = registered \ {x} /\ x \in Fresh
        /\ UNCHANGED <<now, pc, created, place, added, limit>>
    BY <1>3, <2>1 DEF PurgeNext, Drop
  <2>3. created[x] < limit[r] /\ limit[r] <= now - MAX_AGE_SECONDS
    BY <2>2 DEF InOrder
  <2>4. created[x] \in Nat /\ limit[r] \in Int /\ now \in Int /\ MAX_AGE_SECONDS \in Nat
    BY <2>2, BoundsAssumption
  <2>5. created[x] < now - MAX_AGE_SECONDS
    BY <2>3, <2>4
  <2> QED
    BY <2>2, <2>5
<1>4. ASSUME NEW r \in Requests, ThreadDeleted(r) \/ DropRaises(r) PROVE Newest'
  BY <1>4 DEF ThreadDeleted, DropRaises, storeVars
<1>5. ASSUME NEW r \in Requests, Snapshot(r), UNCHANGED <<now, registered, created, place, added>>,
             pc' = [pc EXCEPT ![r] = "purging"]
      PROVE  Newest'
  <2>1. now - MAX_AGE_SECONDS \in Int
    BY BoundsAssumption
  <2>2. /\ limit'[r] = now - MAX_AGE_SECONDS
        /\ \A q \in Requests \ {r} : limit'[q] = limit[q] /\ pc'[q] = pc[q]
    BY <1>5 DEF Snapshot
  <2>3. \A q \in Requests : pc'[q] = "purging" => limit'[q] <= now - MAX_AGE_SECONDS
    BY <2>1, <2>2
  <2> QED
    BY <1>5, <2>3
<1>6. ASSUME NEW r \in Fresh, RunReturns(r) \/ Measured(r) PROVE Newest'
  BY <1>5, <1>6 DEF RunReturns, Measured, Add
<1>7. ASSUME NEW r \in Fresh, Register(r) PROVE Newest'
  <2>1. /\ registered' = registered \cup {r} /\ UNCHANGED <<now, limit>>
        /\ place'[r] = added + 1 /\ added' = added + 1
        /\ \A f \in Fresh \ {r} : place'[f] = place[f] /\ place[f] \in Nat
        /\ \A q \in Requests : pc'[q] = "purging" => pc[q] = "purging"
    BY <1>7 DEF Register, localVars
  <2>2. added \in Nat /\ \A f \in Fresh : place[f] <= added
    OBVIOUS
  <2>3. \A f \in Fresh : place'[f] <= added' /\ (place'[f] = added' => f = r)
    BY <2>1, <2>2
  <2> QED
    BY <2>1, <2>3
<1>8. ASSUME NEW r \in Fresh, Evict(r) PROVE Newest'
  <2>1. PICK x \in registered : IsOldest(x) /\ Drop(r, x)
    BY <1>8 DEF Evict
  <2>2. /\ registered' = registered \ {x} /\ x \in Fresh
        /\ UNCHANGED <<now, pc, created, place, added, limit>>
    BY <1>8, <2>1 DEF Evict, Drop
  <2>3. place[x] # added
    <3>1. PICK j \in registered : j # x
      <4>1. Cardinality(registered) > 1
        BY <1>8 DEF Evict, OverLimit
      <4> HIDE DEF IInv, TypeOK
      <4>2. Cardinality({x}) = 1
        BY FS_Singleton
      <4>3. registered # {x}
        BY <4>1, <4>2
      <4> QED
        BY <2>1, <4>3
    <3>2. Before(x, j)
      BY <2>1, <3>1 DEF IsOldest
    <3>3. /\ created[x] \in Nat /\ created[j] \in Nat /\ place[x] \in Nat /\ place[j] \in Nat
          /\ added \in Nat /\ place[j] <= added
      BY <2>1, <3>1
    <3>4. place[x] # place[j] /\ (place[j] < place[x] => created[j] <= created[x])
      BY <2>1, <3>1 DEF InOrder
    <3> HIDE DEF IInv, TypeOK
    <3> QED
      BY <3>2, <3>3, <3>4 DEF Before
  <2> QED
    BY <2>2, <2>3
<1>9. ASSUME NEW r \in Fresh, Validate(r) \/ RunRaises(r) \/ AddReturns(r) PROVE Newest'
  BY <1>9 DEF Validate, RunRaises, AddReturns, storeVars, localVars
<1>10. ASSUME NEW q \in Replays, Ask(q) PROVE Newest'
  BY <1>5, <1>10 DEF Ask, storeVars
<1>11. ASSUME NEW q \in Replays, ReplayStep(q), ~Ask(q) PROVE Newest'
  BY <1>11 DEF ReplayStep, Lookup, ReadHistory, CopyThread, ReplayEnds, CleanUp,
               CleanUpRaises, storeVars, localVars
<1> QED
  BY <1>1, <1>2, <1>3, <1>4, <1>6, <1>7, <1>8, <1>9, <1>10, <1>11
  DEF Next, StoreStep, FreshStep, ReplayStep

\* The newest run is never evicted, whatever its size and however many adds are in their
\* loops (the len > 1 of the while condition in DebugRunStore.add), as long as the clock
\* does not go back.
THEOREM NewestRunIsKeptHolds ==
    ASSUME ClockSteps \subseteq Nat
    PROVE  Spec => []NewestRunIsKept
<1>1. Init => InOrder /\ Newest
  BY DEF Init, InOrder, Newest, NewestRunIsKept, Requests
<1>2. IInv /\ InOrder /\ Newest /\ [Next]_vars => InOrder' /\ Newest'
  BY InOrderStep, NewestStep
<1>3. Newest => NewestRunIsKept
  BY DEF Newest
<1> QED
  BY <1>1, <1>2, <1>3, Invariance, PTL DEF Spec

==============================================================================
