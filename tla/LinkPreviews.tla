---------------------------- MODULE LinkPreviews ----------------------------
(***************************************************************************)
(* Previews of one link: LinkPreviewExecutor's slots and queue,            *)
(* LinkPreviewService.preview and the lock and cache entry that            *)
(* LinkPreviewCache keeps in Redis. Time passes in ticks; an expired timer *)
(* fires before the next one. What a page yields is left out.              *)
(***************************************************************************)
EXTENDS Integers, Sequences, FiniteSets

CONSTANTS
    PreviewJob,
    Concurrency, Queue,  \* LP_LIMITS.concurrency and queue
    TotalTime,           \* LP_LIMITS.totalMs, the lease, in ticks
    LockTime,            \* LP_LIMITS.lockSeconds in ticks
    NoJob, NoTimer

ASSUME PreviewAssumption ==
    /\ Concurrency \in Nat \ {0} /\ Queue \in Nat
    /\ TotalTime \in Nat \ {0} /\ LockTime \in Nat /\ TotalTime < LockTime
    /\ NoJob \notin PreviewJob /\ NoTimer \notin Nat

VARIABLES
    slots,      \* the executor's active jobs
    waiting,    \* the executor's queue
    stage,      \* where each job is
    lease,      \* ticks left of a job's timer, or NoTimer
    sent,       \* jobs whose SET NX is on its way to Redis
    acquired,   \* jobs whose SET succeeded and who will be told
    lock,       \* the lock's owner and its ticks left
    cacheEntry  \* the outcome is cached

previewVars == <<slots, waiting, stage, lease, sent, acquired, lock, cacheEntry>>

Free == [owner |-> NoJob, left |-> 0]

PreviewTypeOK ==
    /\ slots \subseteq PreviewJob
    /\ waiting \in Seq(PreviewJob)
    /\ stage \in [PreviewJob -> {"idle", "queued", "admit", "read", "lock", "reread", "fetch",
                                 "write", "unlock"}]
    /\ lease \in [PreviewJob -> 0..TotalTime \cup {NoTimer}]
    /\ sent \subseteq PreviewJob /\ acquired \subseteq PreviewJob
    /\ lock \in [owner : PreviewJob \cup {NoJob}, left : 0..LockTime]
    /\ cacheEntry \in BOOLEAN

PreviewInit ==
    /\ slots = {} /\ waiting = <<>>
    /\ stage = [j \in PreviewJob |-> "idle"] /\ lease = [j \in PreviewJob |-> NoTimer]
    /\ sent = {} /\ acquired = {} /\ lock = Free /\ cacheEntry = FALSE

Passes(j, next) == stage' = [stage EXCEPT ![j] = next]

------------------------------------------------------------
(* Executor                                                                *)

Submit(j) ==
    /\ stage[j] = "idle" /\ j \notin sent
    /\ IF Cardinality(slots) < Concurrency
       THEN slots' = slots \cup {j} /\ Passes(j, "admit") /\ UNCHANGED waiting
       ELSE /\ Len(waiting) < Queue
            /\ waiting' = Append(waiting, j) /\ Passes(j, "queued") /\ UNCHANGED slots
    /\ UNCHANGED <<lease, sent, acquired, lock, cacheEntry>>

\* The slot goes to the first job that waits.
Retire(j) ==
    /\ lease' = [lease EXCEPT ![j] = NoTimer]
    /\ acquired' = acquired \ {j}
    /\ IF waiting = <<>>
       THEN /\ slots' = slots \ {j} /\ UNCHANGED waiting
            /\ Passes(j, "idle")
       ELSE /\ slots' = (slots \ {j}) \cup {Head(waiting)} /\ waiting' = Tail(waiting)
            /\ stage' = [stage EXCEPT ![j] = "idle", ![Head(waiting)] = "admit"]

------------------------------------------------------------
(* preview                                                                 *)

\* The rate script admits the job and the cache has nothing yet, or it ends here.
Admit(j) ==
    /\ stage[j] = "admit"
    /\ \/ Passes(j, "read") /\ UNCHANGED <<slots, waiting, lease, acquired>>
       \/ Retire(j)
    /\ UNCHANGED <<sent, lock, cacheEntry>>

\* Plausible bug: no lease.
SendLockUntimed(j) ==
    /\ stage[j] = "read"
    /\ IF cacheEntry THEN Retire(j) /\ UNCHANGED sent
       ELSE Passes(j, "lock") /\ sent' = sent \cup {j} /\ UNCHANGED <<slots, waiting, lease, acquired>>
    /\ UNCHANGED <<lock, cacheEntry>>

\* A hit ends the job. After a miss the lease starts, and then the SET is sent.
SendLock(j) ==
    /\ stage[j] = "read"
    /\ IF cacheEntry THEN Retire(j) /\ UNCHANGED sent
       ELSE /\ lease' = [lease EXCEPT ![j] = TotalTime]
            /\ Passes(j, "lock") /\ sent' = sent \cup {j}
            /\ UNCHANGED <<slots, waiting, acquired>>
    /\ UNCHANGED <<lock, cacheEntry>>

\* Redis executes the SET NX, whether or not the job still waits for it.
SetLock(j) ==
    /\ j \in sent
    /\ sent' = sent \ {j}
    /\ IF lock = Free
       THEN /\ lock' = [owner |-> j, left |-> LockTime]
            /\ acquired' = IF stage[j] = "lock" THEN acquired \cup {j} ELSE acquired
       ELSE UNCHANGED <<lock, acquired>>
    /\ UNCHANGED <<slots, waiting, stage, lease, cacheEntry>>

\* The answer arrives.
LockAnswered(j) ==
    /\ stage[j] = "lock" /\ j \notin sent
    /\ IF j \in acquired THEN Passes(j, "reread") /\ UNCHANGED <<slots, waiting, lease, acquired>>
       ELSE Retire(j)
    /\ UNCHANGED <<sent, lock, cacheEntry>>

\* The timer is cleared before the lock is given back.
Finishes(j) == Passes(j, "unlock") /\ lease' = [lease EXCEPT ![j] = NoTimer]

\* Another job may have finished between the first read and the lock.
Reread(j) ==
    /\ stage[j] = "reread"
    /\ IF cacheEntry THEN Finishes(j) ELSE Passes(j, "fetch") /\ UNCHANGED lease
    /\ UNCHANGED <<slots, waiting, sent, acquired, lock, cacheEntry>>

\* An outcome is cached, success or not; a rejected fetch goes straight to the unlock.
Fetch(j) ==
    /\ stage[j] = "fetch"
    /\ Finishes(j) \/ (Passes(j, "write") /\ UNCHANGED lease)
    /\ UNCHANGED <<slots, waiting, sent, acquired, lock, cacheEntry>>

WriteCache(j) ==
    /\ stage[j] = "write"
    /\ cacheEntry' = TRUE
    /\ Finishes(j)
    /\ UNCHANGED <<slots, waiting, sent, acquired, lock>>

\* A script: only the owner's token unlocks. An unlock that fails leaves the lock to
\* its expiry.
Unlock(j) ==
    /\ stage[j] = "unlock"
    /\ lock' \in {lock, IF lock.owner = j THEN Free ELSE lock}
    /\ Retire(j)
    /\ UNCHANGED <<sent, cacheEntry>>

\* The lease's timer aborts whatever the job awaits. Without a token nothing is unlocked.
LeaseEnds(j) ==
    /\ lease[j] = 0
    /\ IF stage[j] \in {"reread", "fetch", "write"}
       THEN Finishes(j) /\ UNCHANGED <<slots, waiting, acquired>>
       ELSE Retire(j)
    /\ UNCHANGED <<sent, lock, cacheEntry>>

------------------------------------------------------------
(* Time                                                                    *)

Tick ==
    /\ \A j \in PreviewJob : lease[j] # 0
    /\ lock # Free \/ \E j \in PreviewJob : lease[j] # NoTimer
    /\ lease' = [j \in PreviewJob |-> IF lease[j] = NoTimer THEN NoTimer ELSE lease[j] - 1]
    /\ lock' = IF lock.left <= 1 THEN Free ELSE [lock EXCEPT !.left = @ - 1]
    /\ UNCHANGED <<slots, waiting, stage, sent, acquired, cacheEntry>>

CacheExpires ==
    /\ cacheEntry
    /\ cacheEntry' = FALSE
    /\ UNCHANGED <<slots, waiting, stage, lease, sent, acquired, lock>>

\* onModuleDestroy: every job is cancelled, the lock is left to its expiry, and the next
\* process starts with no job.
ExecutorRestarts ==
    /\ slots # {}
    /\ slots' = {} /\ waiting' = <<>> /\ acquired' = {}
    /\ stage' = [j \in PreviewJob |-> "idle"] /\ lease' = [j \in PreviewJob |-> NoTimer]
    /\ UNCHANGED <<sent, lock, cacheEntry>>

PreviewNext ==
    \/ \E j \in PreviewJob :
           \/ Submit(j) \/ Admit(j) \/ SendLock(j) \/ SetLock(j) \/ LockAnswered(j) \/ Reread(j)
           \/ Fetch(j) \/ WriteCache(j) \/ Unlock(j) \/ LeaseEnds(j)
    \/ Tick \/ CacheExpires \/ ExecutorRestarts

PreviewSpec == PreviewInit /\ [][PreviewNext]_previewVars

------------------------------------------------------------
(* Properties                                                              *)

\* Whoever is at the network holds the lock, so that two jobs never fetch one link at a
\* time, however late Redis executes the lock command or acknowledges it; and the slots
\* are never exceeded, nor does a job wait while one is free.
OneFetchAtATime ==
    /\ \A j \in PreviewJob : stage[j] \in {"fetch", "write"} => lock.owner = j
    /\ Cardinality(slots) <= Concurrency
    /\ waiting # <<>> => Cardinality(slots) = Concurrency
=============================================================================
