------------------------------ MODULE DebugRuns ------------------------------
(***************************************************************************)
(* The debug routes' shared state: DebugRunStore (workflow/debug_runs.py)  *)
(* and the checkpointer of debug_graph, used by concurrent validations and *)
(* by replays of a stored run (api/routes/debug_routes.py,                 *)
(* workflow/debug_replay.py).                                              *)
(*                                                                         *)
(* All coroutines run on one event loop: `loop` is the one that has it,    *)
(* which it gives up only where it awaits something outside the store.     *)
(* A validation's run_id and thread are named by its request, and so is    *)
(* the copy of a thread that a replay makes (thread_id and copy_id hold a  *)
(* fresh uuid).  In the code MAX_RUNS is 5, MAX_AGE_SECONDS is 1800 and    *)
(* MAX_BYTES is 64 MiB.                                                    *)
(***************************************************************************)
EXTENDS Integers, FiniteSets, Lists

CONSTANTS
    None,
    Fresh,            \* requests that validate certificates
    Replays,          \* requests with a `custom` part
    Sub,              \* the admin who makes each request
    Sizes,            \* what estimate_size may give
    MAX_RUNS, MAX_AGE_SECONDS, MAX_BYTES,
    MaxClock,         \* bound on time.time()
    ClockSteps,       \* how the wall clock may move: {1}, with -1 when it is set back
    DeleteMayRaise    \* whether adelete_thread may raise

Requests == Fresh \cup Replays

ASSUME RequestsAssumption ==
    Fresh \cap Replays = {} /\ None \notin Requests /\ IsFiniteSet(Requests)

ASSUME BoundsAssumption ==
    /\ Sizes \subseteq Nat
    /\ MAX_RUNS \in Nat \ {0} /\ MAX_AGE_SECONDS \in Nat /\ MAX_BYTES \in Nat
    /\ MaxClock \in Nat /\ ClockSteps \subseteq Int /\ DeleteMayRaise \in BOOLEAN

VARIABLES
    now,         \* time.time()
    loop,        \* the coroutine the event loop is running, or None
    pc,          \* where each request is
    registered,  \* the keys of DebugRunStore._runs
    created,     \* DebugRun.created_at
    size,        \* DebugRun.size
    place,       \* position of a run in the dict's insertion order
    added,       \* how many runs have been inserted
    limit,       \* local of purge: older runs expire
    expired,     \* local of purge: the runs its for loop still has to drop
    dropping,    \* the run whose thread this coroutine's _drop is deleting
    target,      \* a replay's run_id
    threads,     \* the threads the checkpointer holds
    leaked       \* history: threads whose deletion raised

storeVars == <<registered, created, size, place, added>>
localVars == <<limit, expired, dropping, target>>
vars == <<now, loop, pc, storeVars, localVars, threads, leaked>>

----------------------------------------------------------------------------

Init ==
    /\ now = 0
    /\ loop = None
    /\ pc = [r \in Requests |-> "idle"]
    /\ registered = {}
    /\ created = [r \in Fresh |-> 0]
    /\ size = [r \in Fresh |-> 0]
    /\ place = [r \in Fresh |-> 0]
    /\ added = 0
    /\ limit = [r \in Requests |-> 0]
    /\ expired = [r \in Requests |-> {}]
    /\ dropping = [r \in Requests |-> None]
    /\ target = [q \in Replays |-> None]
    /\ threads = {}
    /\ leaked = {}

At(r, where) == pc[r] = where

\* The event loop resumes r, which keeps it until it awaits again.
Resume(r) == loop = None /\ loop' = r
Runs(r) == loop = r /\ loop' = r
Awaits(r) == loop = r /\ loop' = None

Goto(r, where) == pc' = [pc EXCEPT ![r] = where]

Tick ==
    /\ \E d \in ClockSteps : now + d \in 0 .. MaxClock /\ now' = now + d
    /\ UNCHANGED <<loop, pc, storeVars, localVars, threads, leaked>>

(***************************************************************************)
(* purge, and _drop as both loops use it                                   *)
(***************************************************************************)

\* Mutant: a purge drops no more than one run, the first of the dict.
SnapshotMutant(r) ==
    /\ limit' = [limit EXCEPT ![r] = now - MAX_AGE_SECONDS]
    /\ expired' = [expired EXCEPT ![r] = {k \in registered :
                                            /\ created[k] < now - MAX_AGE_SECONDS
                                            /\ \A j \in registered : place[k] <= place[j]}]

\* The first lines of purge: the limit and the list of what is older.
Snapshot(r) ==
    /\ limit' = [limit EXCEPT ![r] = now - MAX_AGE_SECONDS]
    /\ expired' = [expired EXCEPT ![r] = {k \in registered :
                                            created[k] < now - MAX_AGE_SECONDS}]

\* Dict order.
IsFirst(k, S) == k \in S /\ \A j \in S : place[k] <= place[j]

\* Mutant: the thread is deleted, but the run stays in the store.
DropMutant(r, run) ==
    /\ dropping' = [dropping EXCEPT ![r] = run]
    /\ UNCHANGED registered
    /\ Awaits(r)

\* _drop up to its await: the run leaves the store before its thread is deleted.
Drop(r, run) ==
    /\ registered' = registered \ {run}
    /\ dropping' = [dropping EXCEPT ![r] = run]
    /\ Awaits(r)

PurgeNext(r) ==
    /\ At(r, "purging") /\ dropping[r] = None
    /\ \E run \in expired[r] :
         /\ IsFirst(run, expired[r])
         /\ Drop(r, run)
         /\ expired' = [expired EXCEPT ![r] = @ \ {run}]
    /\ UNCHANGED <<now, pc, created, size, place, added, limit, target, threads, leaked>>

\* Mutant: the run is popped, but the wrong thread is deleted.
ThreadDeletedMutant(r) ==
    /\ dropping[r] # None
    /\ threads' = threads \ {r}
    /\ dropping' = [dropping EXCEPT ![r] = None]
    /\ Resume(r)
    /\ UNCHANGED <<now, pc, storeVars, limit, expired, target, leaked>>

\* adelete_thread returns (it does not mind a thread that is already gone).
ThreadDeleted(r) ==
    /\ dropping[r] # None
    /\ threads' = threads \ {dropping[r]}
    /\ dropping' = [dropping EXCEPT ![r] = None]
    /\ Resume(r)
    /\ UNCHANGED <<now, pc, storeVars, limit, expired, target, leaked>>

\* adelete_thread raises: neither add nor exists is inside a try of its route, so
\* that the request fails, whatever its loop still had to do.
DropRaises(r) ==
    /\ DeleteMayRaise
    /\ dropping[r] # None
    /\ leaked' = leaked \cup {dropping[r]}
    /\ dropping' = [dropping EXCEPT ![r] = None]
    /\ Goto(r, "failed")
    /\ loop = None /\ UNCHANGED loop
    /\ UNCHANGED <<now, storeVars, limit, expired, target, threads>>

Purged(r) == At(r, "purging") /\ expired[r] = {} /\ dropping[r] = None

(***************************************************************************)
(* A validation: debug_validate_certificates and DebugRunStore.add         *)
(***************************************************************************)

\* ainvoke writes the thread's first checkpoint and goes on in worker threads.
Validate(r) ==
    /\ At(r, "idle") /\ loop = None
    /\ threads' = threads \cup {r}
    /\ Goto(r, "running")
    /\ UNCHANGED <<now, loop, storeVars, localVars, leaked>>

Add(r, bytes) ==
    /\ size' = [size EXCEPT ![r] = bytes]
    /\ Snapshot(r)
    /\ Goto(r, "purging")
    /\ UNCHANGED <<now, registered, created, place, added, dropping, target, threads, leaked>>

RunReturns(r) ==
    /\ At(r, "running") /\ Resume(r)
    /\ \E bytes \in Sizes : Add(r, bytes)

\* ainvoke raised: the size is read back with aget_state.
RunRaises(r) ==
    /\ At(r, "running") /\ loop = None
    /\ Goto(r, "measuring")
    /\ UNCHANGED <<now, loop, storeVars, localVars, threads, leaked>>

\* Mutant: a run that cannot be measured has no size.
MeasuredMutant(r) ==
    /\ At(r, "measuring") /\ Resume(r)
    /\ Add(r, None)

\* _stored_size gives 0 when it cannot measure.
Measured(r) ==
    /\ At(r, "measuring") /\ Resume(r)
    /\ \E bytes \in Sizes \cup {0} : Add(r, bytes)

Register(r) ==
    /\ r \in Fresh /\ Purged(r) /\ Runs(r)
    /\ registered' = registered \cup {r}
    /\ created' = [created EXCEPT ![r] = now]
    /\ added' = added + 1
    /\ place' = [place EXCEPT ![r] = added + 1]
    /\ Goto(r, "evicting")
    /\ UNCHANGED <<now, size, localVars, threads, leaked>>

\* The values of the dict, in its order.
SizeAt ==
    [n \in 1 .. added |-> IF \E k \in registered : place[k] = n
                          THEN size[CHOOSE k \in registered : place[k] = n] ELSE 0]

TotalBytes == SumOf(SizeAt, added)

\* Mutant: the break on the own run is relied upon to keep the last one.
OverLimitMutant ==
    Cardinality(registered) > MAX_RUNS \/ TotalBytes > MAX_BYTES

\* The condition of the while loop in add.
OverLimit ==
    /\ Cardinality(registered) > 1
    /\ Cardinality(registered) > MAX_RUNS \/ TotalBytes > MAX_BYTES

Before(j, k) == created[j] < created[k] \/ (created[j] = created[k] /\ place[j] < place[k])

\* Mutant: among runs of the same instant the last one inserted is taken.
IsOldestMutant(k) ==
    /\ k \in registered
    /\ \A j \in registered \ {k} :
         created[k] < created[j] \/ (created[k] = created[j] /\ place[k] > place[j])

\* min(..., key=created_at) keeps the first of equal keys, in dict order.
IsOldest(k) == k \in registered /\ \A j \in registered \ {k} : Before(k, j)

Evict(r) ==
    /\ At(r, "evicting") /\ dropping[r] = None
    /\ OverLimit
    /\ \E run \in registered \ {r} : IsOldest(run) /\ Drop(r, run)
    /\ UNCHANGED <<now, pc, created, size, place, added, limit, expired, target, threads, leaked>>

\* The condition is false, or the oldest run is this one: the response is sent.
AddReturns(r) ==
    /\ At(r, "evicting") /\ dropping[r] = None
    /\ OverLimit => IsOldest(r)
    /\ Awaits(r)
    /\ Goto(r, "done")
    /\ UNCHANGED <<now, storeVars, localVars, threads, leaked>>

(***************************************************************************)
(* A replay: _replay_certificate_node and run_single_node                  *)
(***************************************************************************)

Ask(q) ==
    /\ At(q, "idle") /\ Resume(q)
    /\ \E r \in Fresh : target' = [target EXCEPT ![q] = r]
    /\ Snapshot(q)
    /\ Goto(q, "purging")
    /\ UNCHANGED <<now, storeVars, dropping, threads, leaked>>

\* (sub, run_id) in self._runs
Exists(q) == target[q] \in registered /\ Sub[target[q]] = Sub[q]

Lookup(q) ==
    /\ q \in Replays /\ Purged(q) /\ Awaits(q)
    /\ Goto(q, IF Exists(q) THEN "reading" ELSE "done")
    /\ UNCHANGED <<now, storeVars, localVars, threads, leaked>>

\* _turns: the run may have been dropped since exists(), which is a 404; other
\* 404s and 409s of run_single_node also end here, before a copy is made.
ReadHistory(q) ==
    /\ At(q, "reading") /\ loop = None
    /\ \E outcome \in {"copying", "done"} :
         /\ target[q] \notin threads => outcome = "done"
         /\ Goto(q, outcome)
    /\ UNCHANGED <<now, loop, storeVars, localVars, threads, leaked>>

\* aupdate_state writes the copy, or raises before it does.
CopyThread(q) ==
    /\ At(q, "copying") /\ loop = None
    /\ \/ threads' = threads \cup {q} /\ Goto(q, "replaying")
       \/ threads' = threads /\ Goto(q, "cleaning")
    /\ UNCHANGED <<now, loop, storeVars, localVars, leaked>>

\* The 409 on restored.next, the end of the node, or an exception: finally.
ReplayEnds(q) ==
    /\ At(q, "replaying") /\ loop = None
    /\ Goto(q, "cleaning")
    /\ UNCHANGED <<now, loop, storeVars, localVars, threads, leaked>>

\* Mutant: the copy is only deleted when the node ended well.
CleanUpMutant(q) ==
    /\ At(q, "cleaning") /\ loop = None
    /\ threads' \in {threads, threads \ {q}}
    /\ Goto(q, "done")
    /\ UNCHANGED <<now, loop, storeVars, localVars, leaked>>

CleanUp(q) ==
    /\ At(q, "cleaning") /\ loop = None
    /\ threads' = threads \ {q}
    /\ Goto(q, "done")
    /\ UNCHANGED <<now, loop, storeVars, localVars, leaked>>

\* A failed deletion of the copy is only logged.
CleanUpRaises(q) ==
    /\ DeleteMayRaise
    /\ At(q, "cleaning") /\ loop = None
    /\ leaked' = leaked \cup {q}
    /\ Goto(q, "done")
    /\ UNCHANGED <<now, loop, storeVars, localVars, threads>>

----------------------------------------------------------------------------

StoreStep(r) == PurgeNext(r) \/ ThreadDeleted(r) \/ DropRaises(r)

FreshStep(r) ==
    \/ Validate(r) \/ RunReturns(r) \/ RunRaises(r) \/ Measured(r)
    \/ Register(r) \/ Evict(r) \/ AddReturns(r)

ReplayStep(q) ==
    \/ Ask(q) \/ Lookup(q) \/ ReadHistory(q) \/ CopyThread(q)
    \/ ReplayEnds(q) \/ CleanUp(q) \/ CleanUpRaises(q)

Next ==
    \/ Tick
    \/ \E r \in Requests : StoreStep(r)
    \/ \E r \in Fresh : FreshStep(r)
    \/ \E q \in Replays : ReplayStep(q)

Busy == {r \in Requests : pc[r] \notin {"idle", "done", "failed"}}

\* A step of a request in progress.
Progress ==
    \/ \E r \in Busy : StoreStep(r)
    \/ \E r \in Busy \cap Fresh : FreshStep(r)
    \/ \E q \in Busy \cap Replays : ReplayStep(q)

\* The event loop does not rest while a coroutine can go on, and no wait for the network
\* lasts for ever (CertificatePipeline).  Nobody has to make a request, and the clock
\* may stand still.
Spec == Init /\ [][Next]_vars /\ WF_vars(Progress)

----------------------------------------------------------------------------

Places == {"idle", "running", "measuring", "purging", "evicting", "reading", "copying",
           "replaying", "cleaning", "done", "failed"}

\* Types of the store, the checkpointer and the coroutines' locals.
TypeOK ==
    /\ now \in 0 .. MaxClock
    /\ loop \in Requests \cup {None}
    /\ pc \in [Requests -> Places]
    /\ registered \subseteq Fresh
    /\ created \in [Fresh -> 0 .. MaxClock]
    /\ size \in [Fresh -> Nat]
    /\ place \in [Fresh -> Nat]
    /\ added \in Nat
    /\ limit \in [Requests -> Int]
    /\ expired \in [Requests -> SUBSET Fresh]
    /\ dropping \in [Requests -> Fresh \cup {None}]
    /\ target \in [Replays -> Fresh \cup {None}]
    /\ threads \subseteq Requests
    /\ leaked \subseteq Requests

\* Every thread in memory has somebody who answers for it: the store, a request
\* still on its way to register it, a _drop about to delete it, or the replay that
\* made it.  One that nobody will ever delete is there only because a deletion
\* raised: its own, or the one that ended its request before it was registered.
NoOrphanThread ==
    \A t \in threads :
        \/ t \in registered \cup leaked
        \/ pc[t] \in {"running", "measuring", "purging", "replaying", "cleaning", "failed"}
        \/ \E r \in Requests : dropping[r] = t

\* A run that exists() finds still has its history: however the purges, evictions
\* and replays interleave, no thread is deleted while its run is in the store.
RegisteredHasThread == registered \subseteq threads

\* While the store is above its limits the request that added the newest run is
\* still in its loop (or was cut short by a deletion that raised).  Another add
\* may leave its own loop early, on finding itself the oldest, without harm.
LimitHeldByNewest ==
    OverLimit =>
        \A k \in registered :
            (\A j \in registered : place[j] <= place[k]) => pc[k] \in {"evicting", "failed"}

\* purge awaits between the runs it drops; whatever is registered or dropped by
\* others meanwhile, it misses no run that was too old when it began, so that no
\* replay is admitted to a run that had expired when it asked.
ExpiredIsNeverReplayed ==
    [][\A q \in Replays : pc[q] = "purging" /\ pc'[q] = "reading" =>
           created[target[q]] >= limit[q]]_vars

\* The newest run can be replayed until it is too old, even if it is above the byte
\* limit by itself: no add evicts it, not even one that was awaiting a deletion while
\* its own run was evicted by another and that goes on with its loop.
NewestRunIsKept ==
    \A k \in Fresh :
        added > 0 /\ place[k] = added /\ k \notin registered
            => created[k] < now - MAX_AGE_SECONDS

\* Every request that was made is answered: no loop of the store runs for ever and
\* no two coroutines wait for each other, so that the event loop keeps coming to rest.
EveryRequestEnds == []<>(Busy = {})

\* docs/STATUS.md:17: the control bounds the set, but may keep one single run above
\* the size of reference; so once no add is in progress the store is within limits.
QuiescentStoreIsBounded ==
    (\A r \in Fresh : pc[r] # "evicting") => ~OverLimit

==============================================================================
