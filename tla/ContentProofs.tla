--------------------------- MODULE ContentProofs ---------------------------
(***************************************************************************)
(* Proofs about what is kept for users and channels: the slots and the     *)
(* lock of LinkPreviews, the objects that Avatars and Messages refer to,   *)
(* the counters and keys of Presence, the keys of ScreenShares, and what a *)
(* listener hears of the others (VoiceMix).                                *)
(***************************************************************************)
EXTENDS LinkPreviews, Avatars, Messages, Presence, ScreenShares, VoiceMix,
        FiniteSetTheorems, TLAPS

(* LinkPreviews                                                            *)

AtWork == {"admit", "read", "lock", "reread", "fetch", "write", "unlock"}
Leased == {"lock", "reread", "fetch", "write"}
Owning == {"reread", "fetch", "write"}

\* A job is at work exactly in a slot and waits exactly in the queue, once.
JobsPlaced ==
    /\ slots = {j \in PreviewJob : stage[j] \in AtWork}
    /\ IsFiniteSet(slots)
    /\ \A j \in PreviewJob : stage[j] = "queued" <=> \E i \in 1..Len(waiting) : waiting[i] = j
    /\ \A i, k \in 1..Len(waiting) : waiting[i] = waiting[k] => i = k

\* The lock of a job outlives its lease.
JobsHoldTheLock ==
    \A j \in PreviewJob :
        /\ lease[j] # NoTimer <=> stage[j] \in Leased
        /\ stage[j] \in Owning => j \in acquired
        /\ j \in acquired => stage[j] \in Leased \cup {"unlock"}
        /\ (j \in acquired /\ stage[j] \in Leased) => lock.owner = j /\ lease[j] < lock.left

PreviewIInv == PreviewTypeOK /\ JobsPlaced /\ JobsHoldTheLock /\ OneFetchAtATime

\* The queue gains a job at its end: nothing else about it changes.
LEMMA QueueAppend ==
    ASSUME NEW S, NEW q \in Seq(S), NEW j \in S
    PROVE  /\ Append(q, j) \in Seq(S) /\ Len(Append(q, j)) = Len(q) + 1
           /\ \A i \in 1..Len(q) : Append(q, j)[i] = q[i]
           /\ Append(q, j)[Len(q) + 1] = j
OBVIOUS

\* The queue loses its first job: the others move up.
LEMMA QueueTail ==
    ASSUME NEW S, NEW q \in Seq(S), q # <<>>
    PROVE  /\ Tail(q) \in Seq(S) /\ Len(Tail(q)) = Len(q) - 1 /\ Len(q) \in Nat \ {0}
           /\ \A i \in 1..(Len(q) - 1) : Tail(q)[i] = q[i + 1]
           /\ Head(q) = q[1] /\ Head(q) \in S
OBVIOUS

\* A job that ends leaves its slot to the first that waits: the slots stay full while
\* somebody waits.
LEMMA RetirePlaces ==
    ASSUME PreviewTypeOK, JobsPlaced, OneFetchAtATime, NEW j \in PreviewJob, stage[j] \in AtWork, Retire(j)
    PROVE  /\ slots' \subseteq PreviewJob /\ waiting' \in Seq(PreviewJob)
           /\ stage' \in [PreviewJob -> {"idle", "queued", "admit", "read", "lock", "reread", "fetch",
                                         "write", "unlock"}]
           /\ lease' = [lease EXCEPT ![j] = NoTimer] /\ acquired' = acquired \ {j}
           /\ stage'[j] = "idle"
           /\ \A k \in PreviewJob : k # j => stage'[k] = stage[k] \/ (stage[k] = "queued" /\ stage'[k] = "admit")
           /\ slots' = {k \in PreviewJob : stage'[k] \in AtWork} /\ IsFiniteSet(slots')
           /\ Cardinality(slots') <= Concurrency
           /\ waiting' # <<>> => Cardinality(slots') = Concurrency
           /\ \A k \in PreviewJob : stage'[k] = "queued" <=> \E i \in 1..Len(waiting') : waiting'[i] = k
           /\ \A i, k \in 1..Len(waiting') : waiting'[i] = waiting'[k] => i = k
<1> USE PreviewAssumption
<1>1. j \in slots /\ IsFiniteSet(slots) /\ Cardinality(slots) \in Nat /\ Cardinality(slots) <= Concurrency
  BY FS_CardinalityType DEF JobsPlaced, OneFetchAtATime
<1>2. IsFiniteSet(slots \ {j}) /\ Cardinality(slots \ {j}) = Cardinality(slots) - 1 BY <1>1, FS_RemoveElement
<1>3. CASE waiting = <<>>
 <2>1. slots' = slots \ {j} /\ waiting' = waiting /\ stage' = [stage EXCEPT ![j] = "idle"]
       /\ lease' = [lease EXCEPT ![j] = NoTimer] /\ acquired' = acquired \ {j}
   BY <1>3 DEF Retire, Passes
 <2>2. slots' = {k \in PreviewJob : stage'[k] \in AtWork} BY <2>1 DEF PreviewTypeOK, JobsPlaced, AtWork
 <2>3. \A k \in PreviewJob : stage[k] # "queued" BY <1>3 DEF JobsPlaced
 <2>4. \A k \in PreviewJob : stage'[k] # "queued" BY <2>1, <2>3 DEF PreviewTypeOK
 <2>5. stage' \in [PreviewJob -> {"idle", "queued", "admit", "read", "lock", "reread", "fetch", "write", "unlock"}]
       /\ stage'[j] = "idle" /\ \A k \in PreviewJob : k # j => stage'[k] = stage[k]
   BY <2>1 DEF PreviewTypeOK
 <2>6. Len(waiting') = 0 BY <1>3, <2>1
 <2>7. QED BY <1>1, <1>2, <1>3, <2>1, <2>2, <2>4, <2>5, <2>6 DEF PreviewTypeOK
<1>4. CASE waiting # <<>>
 <2> PICK h : h = Head(waiting) OBVIOUS
 <2>1. /\ slots' = (slots \ {j}) \cup {h} /\ waiting' = Tail(waiting)
       /\ stage' = [stage EXCEPT ![j] = "idle", ![h] = "admit"]
       /\ lease' = [lease EXCEPT ![j] = NoTimer] /\ acquired' = acquired \ {j}
   BY <1>4 DEF Retire
 <2>2. /\ waiting' \in Seq(PreviewJob) /\ Len(waiting') = Len(waiting) - 1 /\ Len(waiting) \in Nat \ {0}
       /\ \A i \in 1..(Len(waiting) - 1) : waiting'[i] = waiting[i + 1]
       /\ h = waiting[1] /\ h \in PreviewJob
   BY <1>4, <2>1, QueueTail DEF PreviewTypeOK
 <2>3. stage[h] = "queued" /\ h # j BY <2>2 DEF JobsPlaced, AtWork
 <2>4. h \notin slots BY <2>3 DEF JobsPlaced, AtWork
 <2>5. IsFiniteSet(slots') /\ Cardinality(slots') = Cardinality(slots)
  <3>1. h \notin slots \ {j} BY <2>4
  <3>2. IsFiniteSet((slots \ {j}) \cup {h}) /\ Cardinality((slots \ {j}) \cup {h}) = Cardinality(slots \ {j}) + 1
    BY <1>2, <3>1, FS_AddElement
  <3>3. QED BY <1>1, <1>2, <2>1, <3>2
 <2>6. /\ stage' \in [PreviewJob -> {"idle", "queued", "admit", "read", "lock", "reread", "fetch", "write", "unlock"}]
       /\ stage'[j] = "idle" /\ stage'[h] = "admit"
       /\ \A k \in PreviewJob : k # j /\ k # h => stage'[k] = stage[k]
   BY <2>1, <2>2, <2>3 DEF PreviewTypeOK
 <2>7. slots' = {k \in PreviewJob : stage'[k] \in AtWork}
  <3>1. \A k \in PreviewJob : k \in slots' <=> stage'[k] \in AtWork BY <2>1, <2>6 DEF JobsPlaced, AtWork
  <3>2. slots' \subseteq PreviewJob BY <2>1, <2>2 DEF PreviewTypeOK
  <3>3. QED BY <3>1, <3>2
 <2>8. \A i, k \in 1..Len(waiting') : waiting'[i] = waiting'[k] => i = k
  <3>1. \A i \in 1..Len(waiting') : i \in Nat /\ i + 1 \in 1..Len(waiting) /\ waiting'[i] = waiting[i + 1] BY <2>2
  <3>2. \A i, k \in 1..Len(waiting) : waiting[i] = waiting[k] => i = k BY DEF JobsPlaced
  <3> SUFFICES ASSUME NEW i \in 1..Len(waiting'), NEW k \in 1..Len(waiting'), waiting'[i] = waiting'[k]
               PROVE  i = k
    OBVIOUS
  <3>3. i + 1 = k + 1 BY <3>1, <3>2
  <3> QED BY <3>1, <3>3
 <2>9. ASSUME NEW k \in PreviewJob
       PROVE  stage'[k] = "queued" <=> \E i \in 1..Len(waiting') : waiting'[i] = k
  <3>1. CASE k = h
   <4>1. \A i \in 1..Len(waiting') : waiting'[i] # h BY <2>2 DEF JobsPlaced
   <4>2. QED BY <2>6, <3>1, <4>1
  <3>2. CASE k = j
   <4>1. \A i \in 1..Len(waiting) : waiting[i] # j BY DEF JobsPlaced, AtWork
   <4>2. \A i \in 1..Len(waiting') : waiting'[i] # j BY <2>2, <4>1
   <4>3. QED BY <2>6, <3>2, <4>2
  <3>3. CASE k # h /\ k # j
   <4>1. stage'[k] = stage[k] BY <2>6, <3>3
   <4>2. stage[k] = "queued" <=> \E i \in 1..Len(waiting) : waiting[i] = k BY DEF JobsPlaced
   <4>3. ASSUME NEW i \in 1..Len(waiting), waiting[i] = k
         PROVE  \E m \in 1..Len(waiting') : waiting'[m] = k
    <5>1. i # 1 /\ i - 1 \in 1..(Len(waiting) - 1) /\ waiting'[i - 1] = waiting[i] BY <2>2, <3>3, <4>3
    <5>2. QED BY <2>2, <4>3, <5>1
   <4>4. ASSUME NEW m \in 1..Len(waiting'), waiting'[m] = k
         PROVE  \E i \in 1..Len(waiting) : waiting[i] = k
     BY <2>2, <4>4
   <4>5. QED BY <4>1, <4>2, <4>3, <4>4
  <3>4. QED BY <3>1, <3>2, <3>3
 <2>10. waiting' # <<>> => Cardinality(slots') = Concurrency BY <1>4, <2>5 DEF OneFetchAtATime
 <2>11. slots' \subseteq PreviewJob BY <2>7
 <2>12. QED BY <1>1, <2>1, <2>2, <2>3, <2>5, <2>6, <2>7, <2>8, <2>9, <2>10, <2>11
<1>5. QED BY <1>3, <1>4

\* A step that leaves the executor alone and moves jobs within what it regards as
\* work keeps the places.
LEMMA SamePlaces ==
    ASSUME JobsPlaced, OneFetchAtATime, UNCHANGED <<slots, waiting>>,
           \A j \in PreviewJob : /\ stage[j] \in AtWork <=> stage'[j] \in AtWork
                                 /\ stage[j] = "queued" <=> stage'[j] = "queued"
    PROVE  /\ JobsPlaced' /\ Cardinality(slots') <= Concurrency
           /\ waiting' # <<>> => Cardinality(slots') = Concurrency
BY DEF JobsPlaced, OneFetchAtATime

\* What a job's end does to the places and to the leases of all.
LEMMA RetireKeeps ==
    ASSUME PreviewIInv, NEW j \in PreviewJob, stage[j] \in AtWork, Retire(j)
    PROVE  /\ JobsPlaced' /\ Cardinality(slots') <= Concurrency
           /\ waiting' # <<>> => Cardinality(slots') = Concurrency
           /\ slots' \subseteq PreviewJob /\ waiting' \in Seq(PreviewJob)
           /\ stage' \in [PreviewJob -> {"idle", "queued", "admit", "read", "lock", "reread", "fetch",
                                         "write", "unlock"}]
           /\ lease' \in [PreviewJob -> 0..TotalTime \cup {NoTimer}] /\ acquired' \subseteq PreviewJob
           /\ stage'[j] = "idle" /\ lease'[j] = NoTimer /\ j \notin acquired'
           /\ \A k \in PreviewJob : k # j =>
                  /\ lease'[k] = lease[k] /\ (k \in acquired' <=> k \in acquired)
                  /\ stage'[k] = stage[k] \/ (stage[k] = "queued" /\ stage'[k] = "admit")
<1> USE DEF PreviewIInv
<1>1. /\ slots' \subseteq PreviewJob /\ waiting' \in Seq(PreviewJob)
      /\ stage' \in [PreviewJob -> {"idle", "queued", "admit", "read", "lock", "reread", "fetch",
                                    "write", "unlock"}]
      /\ lease' = [lease EXCEPT ![j] = NoTimer] /\ acquired' = acquired \ {j}
      /\ stage'[j] = "idle"
      /\ \A k \in PreviewJob : k # j => stage'[k] = stage[k] \/ (stage[k] = "queued" /\ stage'[k] = "admit")
      /\ Cardinality(slots') <= Concurrency
      /\ waiting' # <<>> => Cardinality(slots') = Concurrency
  BY RetirePlaces
<1>2. JobsPlaced' BY RetirePlaces DEF JobsPlaced
<1>3. /\ lease' \in [PreviewJob -> 0..TotalTime \cup {NoTimer}] /\ acquired' \subseteq PreviewJob
      /\ lease'[j] = NoTimer /\ j \notin acquired'
      /\ \A k \in PreviewJob : k # j => lease'[k] = lease[k] /\ (k \in acquired' <=> k \in acquired)
  BY <1>1 DEF PreviewTypeOK
<1>4. QED BY <1>1, <1>2, <1>3

\* A job that ends takes nothing from the others' leases and locks; it may free its own lock.
LEMMA RetireLocks ==
    ASSUME PreviewIInv, NEW j \in PreviewJob, stage[j] \in AtWork, Retire(j),
           lock' = lock \/ lock.owner = j
    PROVE  JobsHoldTheLock'
<1>1. /\ stage'[j] = "idle" /\ lease'[j] = NoTimer /\ j \notin acquired'
      /\ \A k \in PreviewJob : k # j =>
             /\ lease'[k] = lease[k] /\ (k \in acquired' <=> k \in acquired)
             /\ stage'[k] = stage[k] \/ (stage[k] = "queued" /\ stage'[k] = "admit")
  BY RetireKeeps
<1>2. JobsHoldTheLock BY DEF PreviewIInv
<1>3. ASSUME NEW k \in PreviewJob
      PROVE  /\ lease'[k] # NoTimer <=> stage'[k] \in Leased
             /\ stage'[k] \in Owning => k \in acquired'
             /\ k \in acquired' => stage'[k] \in Leased \cup {"unlock"}
             /\ (k \in acquired' /\ stage'[k] \in Leased) => lock'.owner = k /\ lease'[k] < lock'.left
 <2>1. CASE k = j BY <1>1, <2>1 DEF Leased, Owning
 <2>2. CASE k # j
  <3>1. /\ lease'[k] = lease[k] /\ (k \in acquired' <=> k \in acquired)
        /\ stage'[k] = stage[k] \/ (stage[k] = "queued" /\ stage'[k] = "admit")
    BY <1>1, <2>2
  <3>2. /\ lease[k] # NoTimer <=> stage[k] \in Leased
        /\ stage[k] \in Owning => k \in acquired
        /\ k \in acquired => stage[k] \in Leased \cup {"unlock"}
        /\ (k \in acquired /\ stage[k] \in Leased) => lock.owner = k /\ lease[k] < lock.left
    BY <1>2 DEF JobsHoldTheLock
  <3>3. CASE stage'[k] = stage[k] BY <2>2, <3>1, <3>2, <3>3
  <3>4. CASE stage[k] = "queued" /\ stage'[k] = "admit" BY <3>1, <3>2, <3>4 DEF Leased, Owning
  <3>5. QED BY <3>1, <3>3, <3>4
 <2>3. QED BY <2>1, <2>2
<1>4. QED BY <1>3 DEF JobsHoldTheLock

\* The slots and the queue stay as they are when one job goes from stage to stage.
LEMMA MovesPlaces ==
    ASSUME PreviewIInv, NEW j \in PreviewJob, NEW w \in AtWork, stage[j] \in AtWork, Passes(j, w),
           UNCHANGED <<slots, waiting>>
    PROVE  /\ JobsPlaced' /\ Cardinality(slots') <= Concurrency
           /\ waiting' # <<>> => Cardinality(slots') = Concurrency
           /\ stage'[j] = w /\ \A k \in PreviewJob : k # j => stage'[k] = stage[k]
           /\ stage' \in [PreviewJob -> {"idle", "queued", "admit", "read", "lock", "reread", "fetch",
                                         "write", "unlock"}]
<1>1. stage'[j] = w /\ \A k \in PreviewJob : k # j => stage'[k] = stage[k]
  BY DEF PreviewIInv, PreviewTypeOK, Passes
<1>2. \A k \in PreviewJob : /\ stage[k] \in AtWork <=> stage'[k] \in AtWork
                            /\ stage[k] = "queued" <=> stage'[k] = "queued"
  BY <1>1 DEF AtWork
<1>3. stage' \in [PreviewJob -> {"idle", "queued", "admit", "read", "lock", "reread", "fetch", "write", "unlock"}]
  BY DEF PreviewIInv, PreviewTypeOK, Passes, AtWork
<1>4. QED BY <1>1, <1>2, <1>3, SamePlaces DEF PreviewIInv

\* A new job takes a free slot, or waits while there is none.
LEMMA SubmitPlaces ==
    ASSUME PreviewIInv, NEW j \in PreviewJob, Submit(j)
    PROVE  PreviewIInv'
<1> USE PreviewAssumption DEF PreviewIInv
<1>1. /\ stage[j] = "idle" /\ IsFiniteSet(slots) /\ Cardinality(slots) \in Nat /\ j \notin slots
      /\ UNCHANGED <<lease, sent, acquired, lock, cacheEntry>>
  BY FS_CardinalityType DEF Submit, JobsPlaced, AtWork
<1>2. \A i \in 1..Len(waiting) : waiting[i] # j BY <1>1 DEF JobsPlaced
<1>3. CASE Cardinality(slots) < Concurrency
 <2>1. slots' = slots \cup {j} /\ stage' = [stage EXCEPT ![j] = "admit"] /\ waiting' = waiting
   BY <1>3 DEF Submit, Passes
 <2>2. IsFiniteSet(slots') /\ Cardinality(slots') = Cardinality(slots) + 1 BY <1>1, <2>1, FS_AddElement
 <2>3. PreviewTypeOK' BY <1>1, <2>1 DEF PreviewTypeOK
 <2>4. stage'[j] = "admit" /\ \A k \in PreviewJob : k # j => stage'[k] = stage[k] BY <2>1 DEF PreviewTypeOK
 <2>5. JobsPlaced'
  <3>1. slots' = {k \in PreviewJob : stage'[k] \in AtWork} BY <2>1, <2>4 DEF JobsPlaced, AtWork
  <3>2. \A k \in PreviewJob : stage'[k] = "queued" <=> \E i \in 1..Len(waiting') : waiting'[i] = k
    BY <1>2, <2>1, <2>4 DEF JobsPlaced
  <3>3. QED BY <2>1, <2>2, <3>1, <3>2 DEF JobsPlaced
 <2>6. JobsHoldTheLock' BY <1>1, <2>4 DEF JobsHoldTheLock, Leased, Owning
 <2>7. waiting' = <<>> BY <1>1, <1>3, <2>1 DEF OneFetchAtATime
 <2>8. OneFetchAtATime'
  <3>1. \A k \in PreviewJob : stage'[k] \in {"fetch", "write"} => lock'.owner = k
    BY <1>1, <2>4 DEF OneFetchAtATime
  <3>2. QED BY <1>1, <1>3, <2>2, <2>7, <3>1 DEF OneFetchAtATime
 <2>9. QED BY <2>3, <2>5, <2>6, <2>8
<1>4. CASE ~(Cardinality(slots) < Concurrency)
 <2>1. slots' = slots /\ stage' = [stage EXCEPT ![j] = "queued"] /\ waiting' = Append(waiting, j)
   BY <1>4 DEF Submit, Passes
 <2>2. Cardinality(slots') = Concurrency BY <1>1, <1>4, <2>1 DEF OneFetchAtATime
 <2>3. /\ waiting' \in Seq(PreviewJob) /\ Len(waiting') = Len(waiting) + 1 /\ Len(waiting) \in Nat
       /\ \A i \in 1..Len(waiting) : waiting'[i] = waiting[i]
       /\ waiting'[Len(waiting) + 1] = j
   BY <2>1, QueueAppend DEF PreviewTypeOK
 <2>4. PreviewTypeOK' BY <1>1, <2>1, <2>3 DEF PreviewTypeOK
 <2>5. stage'[j] = "queued" /\ \A k \in PreviewJob : k # j => stage'[k] = stage[k] BY <2>1 DEF PreviewTypeOK
 <2>6. JobsPlaced'
  <3>1. slots' = {k \in PreviewJob : stage'[k] \in AtWork} BY <1>1, <2>1, <2>5 DEF JobsPlaced, AtWork
  <3>2. \A i, k \in 1..Len(waiting') : waiting'[i] = waiting'[k] => i = k BY <1>2, <2>3 DEF JobsPlaced
  <3>3. ASSUME NEW k \in PreviewJob
        PROVE  stage'[k] = "queued" <=> \E i \in 1..Len(waiting') : waiting'[i] = k
   <4>1. CASE k = j BY <2>3, <2>5, <4>1
   <4>2. CASE k # j
    <5>1. stage[k] = "queued" <=> \E i \in 1..Len(waiting) : waiting[i] = k BY DEF JobsPlaced
    <5>2. (\E i \in 1..Len(waiting) : waiting[i] = k) <=> \E i \in 1..Len(waiting') : waiting'[i] = k
      BY <2>3, <4>2
    <5>3. QED BY <2>5, <4>2, <5>1, <5>2
   <4>3. QED BY <4>1, <4>2
  <3>4. QED BY <2>1, <3>1, <3>2, <3>3 DEF JobsPlaced
 <2>7. JobsHoldTheLock' BY <1>1, <2>5 DEF JobsHoldTheLock, Leased, Owning
 <2>8. \A k \in PreviewJob : stage'[k] \in {"fetch", "write"} => lock'.owner = k
   BY <1>1, <2>5 DEF OneFetchAtATime
 <2>9. OneFetchAtATime' BY <2>2, <2>8 DEF OneFetchAtATime
 <2>10. QED BY <2>4, <2>6, <2>7, <2>9
<1>5. QED BY <1>3, <1>4

\* A job that ends, wherever it ends, keeps the invariant if the lock stays or was its own.
LEMMA RetireKeepsIInv ==
    ASSUME PreviewIInv, NEW j \in PreviewJob, stage[j] \in AtWork, Retire(j),
           lock' = lock \/ (lock.owner = j /\ lock' = Free),
           sent' \subseteq PreviewJob, cacheEntry' = cacheEntry
    PROVE  PreviewIInv'
<1>1. /\ JobsPlaced' /\ Cardinality(slots') <= Concurrency
      /\ waiting' # <<>> => Cardinality(slots') = Concurrency
      /\ slots' \subseteq PreviewJob /\ waiting' \in Seq(PreviewJob)
      /\ stage' \in [PreviewJob -> {"idle", "queued", "admit", "read", "lock", "reread", "fetch",
                                    "write", "unlock"}]
      /\ lease' \in [PreviewJob -> 0..TotalTime \cup {NoTimer}] /\ acquired' \subseteq PreviewJob
  BY RetireKeeps
<1>2. JobsHoldTheLock' BY RetireLocks
<1>3. lock' \in [owner : PreviewJob \cup {NoJob}, left : 0..LockTime]
  BY PreviewAssumption DEF PreviewIInv, PreviewTypeOK, Free
<1>4. PreviewTypeOK' BY <1>1, <1>3 DEF PreviewIInv, PreviewTypeOK
<1>5. \A k \in PreviewJob : stage'[k] \in {"fetch", "write"} => lock'.owner = k
  BY <1>2 DEF JobsHoldTheLock, Owning, Leased
<1>6. QED BY <1>1, <1>2, <1>4, <1>5 DEF PreviewIInv, OneFetchAtATime

\* A job that goes from stage to stage keeps the invariant if its lease and its lock fit.
LEMMA MovesKeepIInv ==
    ASSUME PreviewIInv, NEW j \in PreviewJob, NEW w \in AtWork, stage[j] \in AtWork, Passes(j, w),
           UNCHANGED <<slots, waiting, acquired, lock>>,
           NEW d \in 0..TotalTime \cup {NoTimer}, lease' = [lease EXCEPT ![j] = d],
           d # NoTimer <=> w \in Leased, w \in Owning => j \in acquired,
           j \in acquired => w \in Leased \cup {"unlock"},
           j \in acquired /\ w \in Leased => stage[j] \in Leased /\ d = lease[j],
           sent' \subseteq PreviewJob, cacheEntry' \in BOOLEAN
    PROVE  PreviewIInv'
<1>1. /\ JobsPlaced' /\ Cardinality(slots') <= Concurrency
      /\ waiting' # <<>> => Cardinality(slots') = Concurrency
      /\ stage'[j] = w /\ \A k \in PreviewJob : k # j => stage'[k] = stage[k]
      /\ stage' \in [PreviewJob -> {"idle", "queued", "admit", "read", "lock", "reread", "fetch",
                                    "write", "unlock"}]
  BY MovesPlaces
<1>2. lease'[j] = d /\ \A k \in PreviewJob : k # j => lease'[k] = lease[k] BY DEF PreviewIInv, PreviewTypeOK
<1>3. PreviewTypeOK' BY <1>1 DEF PreviewIInv, PreviewTypeOK
<1>4. JobsHoldTheLock'
 <2>1. JobsHoldTheLock BY DEF PreviewIInv
 <2>2. ASSUME NEW k \in PreviewJob
       PROVE  /\ lease'[k] # NoTimer <=> stage'[k] \in Leased
              /\ stage'[k] \in Owning => k \in acquired'
              /\ k \in acquired' => stage'[k] \in Leased \cup {"unlock"}
              /\ (k \in acquired' /\ stage'[k] \in Leased) => lock'.owner = k /\ lease'[k] < lock'.left
  <3>1. /\ lease[k] # NoTimer <=> stage[k] \in Leased
        /\ stage[k] \in Owning => k \in acquired
        /\ k \in acquired => stage[k] \in Leased \cup {"unlock"}
        /\ (k \in acquired /\ stage[k] \in Leased) => lock.owner = k /\ lease[k] < lock.left
    BY <2>1 DEF JobsHoldTheLock
  <3>2. CASE k = j BY <1>1, <1>2, <3>1, <3>2
  <3>3. CASE k # j BY <1>1, <1>2, <3>1, <3>3
  <3>4. QED BY <3>2, <3>3
 <2>3. QED BY <2>2 DEF JobsHoldTheLock
<1>5. \A k \in PreviewJob : stage'[k] \in {"fetch", "write"} => lock'.owner = k
  BY <1>4 DEF JobsHoldTheLock, Owning, Leased
<1>6. QED BY <1>1, <1>3, <1>4, <1>5 DEF PreviewIInv, OneFetchAtATime

\* The executor's first step of a job either ends it or lets it read the cache.
LEMMA AdmitKeeps == ASSUME PreviewIInv, NEW j \in PreviewJob, Admit(j) PROVE PreviewIInv'
<1>1. stage[j] = "admit" /\ stage[j] \in AtWork /\ UNCHANGED <<sent, lock, cacheEntry>> BY DEF Admit, AtWork
<1>2. sent \subseteq PreviewJob /\ cacheEntry \in BOOLEAN /\ lease \in [PreviewJob -> 0..TotalTime \cup {NoTimer}]
  BY DEF PreviewIInv, PreviewTypeOK
<1>3. CASE Retire(j) BY <1>1, <1>2, <1>3, RetireKeepsIInv
<1>4. CASE Passes(j, "read") /\ UNCHANGED <<slots, waiting, lease, acquired>>
 <2>1. j \notin acquired /\ lease[j] = NoTimer BY <1>1 DEF PreviewIInv, JobsHoldTheLock, Leased
 <2>2. lease' = [lease EXCEPT ![j] = NoTimer] BY <1>2, <1>4, <2>1
 <2>3. QED BY <1>1, <1>2, <1>4, <2>1, <2>2, MovesKeepIInv DEF AtWork, Leased, Owning
<1>5. QED BY <1>3, <1>4 DEF Admit

\* The lease starts with the lock command.
LEMMA SendLockKeeps == ASSUME PreviewIInv, NEW j \in PreviewJob, SendLock(j) PROVE PreviewIInv'
<1>1. stage[j] = "read" /\ stage[j] \in AtWork /\ UNCHANGED <<lock, cacheEntry>> BY DEF SendLock, AtWork
<1>2. sent \subseteq PreviewJob /\ cacheEntry \in BOOLEAN BY DEF PreviewIInv, PreviewTypeOK
<1>3. CASE cacheEntry BY <1>1, <1>2, <1>3, RetireKeepsIInv DEF SendLock
<1>4. CASE ~cacheEntry
 <2>1. /\ lease' = [lease EXCEPT ![j] = TotalTime] /\ Passes(j, "lock") /\ sent' = sent \cup {j}
       /\ UNCHANGED <<slots, waiting, acquired>>
   BY <1>4 DEF SendLock
 <2>2. j \notin acquired BY <1>1 DEF PreviewIInv, JobsHoldTheLock, Leased
 <2>3. TotalTime \in 0..TotalTime \cup {NoTimer} /\ TotalTime # NoTimer BY PreviewAssumption
 <2>4. sent' \subseteq PreviewJob BY <1>2, <2>1
 <2>5. QED BY <1>1, <1>2, <2>1, <2>2, <2>3, <2>4, MovesKeepIInv DEF AtWork, Leased, Owning
<1>5. QED BY <1>3, <1>4

\* A lock that Redis grants outlives the lease of the job that will be told.
LEMMA SetLockKeeps == ASSUME PreviewIInv, NEW j \in PreviewJob, SetLock(j) PROVE PreviewIInv'
<1> USE PreviewAssumption DEF PreviewIInv
<1>1. j \in sent /\ sent' = sent \ {j} /\ UNCHANGED <<slots, waiting, stage, lease, cacheEntry>> BY DEF SetLock
<1>2. /\ JobsPlaced' /\ Cardinality(slots') <= Concurrency
      /\ waiting' # <<>> => Cardinality(slots') = Concurrency
  BY <1>1, SamePlaces
<1>3. CASE lock # Free
 <2>1. lock' = lock /\ acquired' = acquired BY <1>3 DEF SetLock
 <2>2. QED BY <1>1, <1>2, <2>1 DEF PreviewTypeOK, JobsHoldTheLock, OneFetchAtATime
<1>4. CASE lock = Free
 <2>1. lock' = [owner |-> j, left |-> LockTime] /\ acquired' = IF stage[j] = "lock" THEN acquired \cup {j} ELSE acquired
   BY <1>4 DEF SetLock
 <2>2. lock.owner = NoJob BY <1>4 DEF Free
 <2>3. \A k \in PreviewJob : ~(k \in acquired /\ stage[k] \in Leased) BY <2>2 DEF JobsHoldTheLock
 <2>4. \A k \in PreviewJob : stage[k] \notin Owning BY <2>3 DEF JobsHoldTheLock, Owning, Leased
 <2>5. PreviewTypeOK' BY <1>1, <2>1 DEF PreviewTypeOK
 <2>6. lock'.owner = j /\ lock'.left = LockTime BY <2>1
 <2>7. stage[j] \in Leased => lease[j] # NoTimer /\ lease[j] \in 0..TotalTime
   BY DEF JobsHoldTheLock, PreviewTypeOK
 <2>8. stage[j] \in Leased => lease[j] < LockTime BY <2>7
 <2>9. ASSUME NEW k \in PreviewJob
       PROVE  /\ lease'[k] # NoTimer <=> stage'[k] \in Leased
              /\ stage'[k] \in Owning => k \in acquired'
              /\ k \in acquired' => stage'[k] \in Leased \cup {"unlock"}
              /\ (k \in acquired' /\ stage'[k] \in Leased) => lock'.owner = k /\ lease'[k] < lock'.left
  <3>1. /\ lease[k] # NoTimer <=> stage[k] \in Leased
        /\ k \in acquired => stage[k] \in Leased \cup {"unlock"}
    BY DEF JobsHoldTheLock
  <3>2. k \in acquired' => k \in acquired \/ (k = j /\ stage[j] = "lock") BY <2>1
  <3>3. stage[j] = "lock" => stage[j] \in Leased BY DEF Leased
  <3>4. QED BY <1>1, <2>3, <2>4, <2>6, <2>8, <3>1, <3>2, <3>3
 <2>10. JobsHoldTheLock' BY <2>9 DEF JobsHoldTheLock
 <2>11. OneFetchAtATime' BY <1>1, <1>2, <2>4 DEF OneFetchAtATime, Owning
 <2>12. QED BY <1>2, <2>5, <2>10, <2>11
<1>5. QED BY <1>3, <1>4

\* A job that was refused ends; one that owns the lock goes on under its lease.
LEMMA LockAnsweredKeeps == ASSUME PreviewIInv, NEW j \in PreviewJob, LockAnswered(j) PROVE PreviewIInv'
<1>1. stage[j] = "lock" /\ stage[j] \in AtWork /\ stage[j] \in Leased /\ UNCHANGED <<sent, lock, cacheEntry>>
  BY DEF LockAnswered, AtWork, Leased
<1>2. sent \subseteq PreviewJob /\ cacheEntry \in BOOLEAN /\ lease \in [PreviewJob -> 0..TotalTime \cup {NoTimer}]
  BY DEF PreviewIInv, PreviewTypeOK
<1>3. CASE j \notin acquired BY <1>1, <1>2, <1>3, RetireKeepsIInv DEF LockAnswered
<1>4. CASE j \in acquired
 <2>1. Passes(j, "reread") /\ UNCHANGED <<slots, waiting, lease, acquired>> BY <1>4 DEF LockAnswered
 <2>2. lease[j] # NoTimer /\ lease[j] \in 0..TotalTime \cup {NoTimer}
   BY <1>1, <1>2 DEF PreviewIInv, JobsHoldTheLock
 <2>3. lease' = [lease EXCEPT ![j] = lease[j]] BY <1>2, <2>1
 <2>4. QED BY <1>1, <1>2, <1>4, <2>1, <2>2, <2>3, MovesKeepIInv DEF AtWork, Leased, Owning
<1>5. QED BY <1>3, <1>4

\* The timer of a job that owns the lock is cleared on its way to the unlock.
LEMMA FinishesKeeps ==
    ASSUME PreviewIInv, NEW j \in PreviewJob, stage[j] \in Owning, Finishes(j),
           UNCHANGED <<slots, waiting, sent, acquired, lock>>, cacheEntry' \in BOOLEAN
    PROVE  PreviewIInv'
<1>1. stage[j] \in AtWork BY DEF Owning, AtWork
<1>2. sent \subseteq PreviewJob BY DEF PreviewIInv, PreviewTypeOK
<1>3. QED BY <1>1, <1>2, MovesKeepIInv DEF Finishes, AtWork, Leased, Owning

\* A job that owns the lock goes on to its next command under the same lease.
LEMMA GoesOnKeeps ==
    ASSUME PreviewIInv, NEW j \in PreviewJob, stage[j] \in Owning, NEW w \in Owning, Passes(j, w),
           UNCHANGED <<slots, waiting, lease, sent, acquired, lock, cacheEntry>>
    PROVE  PreviewIInv'
<1>1. stage[j] \in AtWork /\ w \in AtWork /\ stage[j] \in Leased /\ w \in Leased BY DEF Owning, AtWork, Leased
<1>2. sent \subseteq PreviewJob /\ cacheEntry \in BOOLEAN /\ lease \in [PreviewJob -> 0..TotalTime \cup {NoTimer}]
  BY DEF PreviewIInv, PreviewTypeOK
<1>3. lease[j] # NoTimer /\ lease[j] \in 0..TotalTime \cup {NoTimer} /\ j \in acquired
  BY <1>1, <1>2 DEF PreviewIInv, JobsHoldTheLock
<1>4. lease' = [lease EXCEPT ![j] = lease[j]] BY <1>2
<1>5. QED BY <1>1, <1>2, <1>3, <1>4, MovesKeepIInv

\* The commands of a job that owns the lock.
LEMMA OwnerKeeps ==
    ASSUME PreviewIInv, NEW j \in PreviewJob, Reread(j) \/ Fetch(j) \/ WriteCache(j)
    PROVE  PreviewIInv'
<1> USE DEF Owning
<1>1. cacheEntry \in BOOLEAN BY DEF PreviewIInv, PreviewTypeOK
<1>2. CASE Reread(j) BY <1>1, <1>2, FinishesKeeps, GoesOnKeeps DEF Reread
<1>3. CASE Fetch(j) BY <1>1, <1>3, FinishesKeeps, GoesOnKeeps DEF Fetch
<1>4. CASE WriteCache(j) BY <1>4, FinishesKeeps DEF WriteCache
<1>5. QED BY <1>2, <1>3, <1>4

\* Only its own lock does a job give back.
LEMMA UnlockKeeps == ASSUME PreviewIInv, NEW j \in PreviewJob, Unlock(j) PROVE PreviewIInv'
<1>1. stage[j] \in AtWork /\ Retire(j) /\ sent' = sent /\ cacheEntry' = cacheEntry
      /\ (lock' = lock \/ (lock.owner = j /\ lock' = Free))
  BY DEF Unlock, AtWork
<1>2. sent \subseteq PreviewJob BY DEF PreviewIInv, PreviewTypeOK
<1>3. QED BY <1>1, <1>2, RetireKeepsIInv

\* The end of a lease ends the job, or sends it to the unlock.
LEMMA LeaseEndsKeeps == ASSUME PreviewIInv, NEW j \in PreviewJob, LeaseEnds(j) PROVE PreviewIInv'
<1>1. stage[j] \in Leased BY PreviewAssumption DEF LeaseEnds, PreviewIInv, JobsHoldTheLock
<1>2. sent \subseteq PreviewJob /\ cacheEntry \in BOOLEAN BY DEF PreviewIInv, PreviewTypeOK
<1>3. CASE stage[j] \in Owning BY <1>2, <1>3, FinishesKeeps DEF LeaseEnds, Owning
<1>4. CASE stage[j] \notin Owning BY <1>1, <1>2, <1>4, RetireKeepsIInv DEF LeaseEnds, Owning, Leased, AtWork
<1>5. QED BY <1>3, <1>4

\* Leases and lock grow old together, so that the lock remains the longer.
LEMMA TickKeeps == ASSUME PreviewIInv, Tick PROVE PreviewIInv'
<1> USE PreviewAssumption DEF PreviewIInv
<1>1. /\ \A j \in PreviewJob : lease[j] # 0
      /\ lease' = [j \in PreviewJob |-> IF lease[j] = NoTimer THEN NoTimer ELSE lease[j] - 1]
      /\ UNCHANGED <<slots, waiting, stage, sent, acquired, cacheEntry>>
  BY DEF Tick
<1>2. \A j \in PreviewJob : lease[j] = NoTimer \/ (lease[j] \in 1..TotalTime /\ lease[j] # NoTimer)
  BY <1>1 DEF PreviewTypeOK
<1>3. \A j \in PreviewJob :
          /\ lease[j] = NoTimer => lease'[j] = NoTimer
          /\ lease[j] # NoTimer => lease'[j] = lease[j] - 1 /\ lease'[j] # NoTimer /\ lease'[j] \in 0..TotalTime
  BY <1>1, <1>2
<1>4. lock.left \in 0..LockTime /\ lock.owner \in PreviewJob \cup {NoJob} BY DEF PreviewTypeOK
<1>5. lock.left > 1 => lock'.owner = lock.owner /\ lock'.left = lock.left - 1 BY <1>4 DEF Tick, PreviewTypeOK
<1>6. lock' \in [owner : PreviewJob \cup {NoJob}, left : 0..LockTime]
 <2>1. CASE lock.left <= 1 BY <2>1 DEF Tick, Free
 <2>2. CASE ~(lock.left <= 1)
  <3>1. lock' = [lock EXCEPT !.left = @ - 1] BY <2>2 DEF Tick
  <3>2. lock' = [owner |-> lock.owner, left |-> lock.left - 1] BY <3>1 DEF PreviewTypeOK
  <3>3. QED BY <1>4, <2>2, <3>2
 <2>3. QED BY <2>1, <2>2
<1>7. PreviewTypeOK'
 <2>1. lease' \in [PreviewJob -> 0..TotalTime \cup {NoTimer}] BY <1>1, <1>2
 <2>2. QED BY <1>1, <1>6, <2>1 DEF PreviewTypeOK
<1>8. JobsPlaced' BY <1>1 DEF JobsPlaced
<1>9. ASSUME NEW j \in PreviewJob
      PROVE  /\ lease'[j] # NoTimer <=> stage'[j] \in Leased
             /\ stage'[j] \in Owning => j \in acquired'
             /\ j \in acquired' => stage'[j] \in Leased \cup {"unlock"}
             /\ (j \in acquired' /\ stage'[j] \in Leased) => lock'.owner = j /\ lease'[j] < lock'.left
 <2>1. /\ lease[j] # NoTimer <=> stage[j] \in Leased
       /\ stage[j] \in Owning => j \in acquired
       /\ j \in acquired => stage[j] \in Leased \cup {"unlock"}
       /\ (j \in acquired /\ stage[j] \in Leased) => lock.owner = j /\ lease[j] < lock.left
   BY DEF JobsHoldTheLock
 <2>2. CASE lease[j] = NoTimer BY <1>1, <1>3, <2>1, <2>2
 <2>3. CASE lease[j] # NoTimer
  <3>1. lease'[j] = lease[j] - 1 /\ lease'[j] # NoTimer /\ lease[j] \in 1..TotalTime BY <1>2, <1>3, <2>3
  <3>2. (j \in acquired /\ stage[j] \in Leased) => lock'.owner = j /\ lease'[j] < lock'.left
    BY <1>4, <1>5, <2>1, <3>1
  <3>3. QED BY <1>1, <2>1, <2>3, <3>1, <3>2
 <2>4. QED BY <2>2, <2>3
<1>10. JobsHoldTheLock' BY <1>9 DEF JobsHoldTheLock
<1>11. OneFetchAtATime'
 <2>1. \A j \in PreviewJob : stage'[j] \in {"fetch", "write"} => lock'.owner = j
   BY <1>10 DEF JobsHoldTheLock, Owning, Leased
 <2>2. QED BY <1>1, <2>1 DEF OneFetchAtATime
<1>12. QED BY <1>7, <1>8, <1>10, <1>11

\* A new process has no job, whatever Redis still holds.
LEMMA RestartKeeps == ASSUME PreviewIInv, ExecutorRestarts PROVE PreviewIInv'
<1> USE PreviewAssumption DEF PreviewIInv
<1>1. /\ slots' = {} /\ waiting' = <<>> /\ acquired' = {}
      /\ stage' = [j \in PreviewJob |-> "idle"] /\ lease' = [j \in PreviewJob |-> NoTimer]
      /\ UNCHANGED <<sent, lock, cacheEntry>>
  BY DEF ExecutorRestarts
<1>2. PreviewTypeOK' BY <1>1 DEF PreviewTypeOK
<1>3. JobsPlaced' BY <1>1, FS_EmptySet DEF JobsPlaced, AtWork
<1>4. JobsHoldTheLock' /\ OneFetchAtATime'
  BY <1>1, FS_EmptySet DEF JobsHoldTheLock, OneFetchAtATime, Leased, Owning
<1>5. QED BY <1>2, <1>3, <1>4

\* However many jobs run, queue or are cancelled, and however late Redis executes or
\* answers their lock commands: whoever is at the network holds the lock, the slots are
\* never exceeded, and no job waits while one is free.
THEOREM FetchersHoldTheLock == PreviewSpec => [](PreviewTypeOK /\ OneFetchAtATime)
<1>1. PreviewInit => PreviewIInv
 <2> SUFFICES ASSUME PreviewInit PROVE PreviewIInv OBVIOUS
 <2> USE PreviewAssumption DEF PreviewInit
 <2>1. PreviewTypeOK
  <3>1. lock \in [owner : PreviewJob \cup {NoJob}, left : 0..LockTime] BY DEF Free
  <3>2. waiting \in Seq(PreviewJob) /\ lease \in [PreviewJob -> 0..TotalTime \cup {NoTimer}] OBVIOUS
  <3>3. stage \in [PreviewJob -> {"idle", "queued", "admit", "read", "lock", "reread", "fetch", "write", "unlock"}]
    OBVIOUS
  <3>4. QED BY <3>1, <3>2, <3>3 DEF PreviewTypeOK
 <2>2. JobsPlaced BY FS_EmptySet DEF JobsPlaced, AtWork
 <2>3. JobsHoldTheLock /\ OneFetchAtATime BY FS_EmptySet DEF JobsHoldTheLock, OneFetchAtATime, Leased, Owning
 <2>4. QED BY <2>1, <2>2, <2>3 DEF PreviewIInv
<1>2. PreviewIInv /\ [PreviewNext]_previewVars => PreviewIInv'
 <2> SUFFICES ASSUME PreviewIInv, [PreviewNext]_previewVars PROVE PreviewIInv' OBVIOUS
 <2>1. ASSUME NEW j \in PreviewJob,
              \/ Submit(j) \/ Admit(j) \/ SendLock(j) \/ SetLock(j) \/ LockAnswered(j) \/ Reread(j)
              \/ Fetch(j) \/ WriteCache(j) \/ Unlock(j) \/ LeaseEnds(j)
       PROVE  PreviewIInv'
   BY <2>1, SubmitPlaces, AdmitKeeps, SendLockKeeps, SetLockKeeps, LockAnsweredKeeps, OwnerKeeps,
      UnlockKeeps, LeaseEndsKeeps
 <2>5. CASE \E j \in PreviewJob :
              \/ Submit(j) \/ Admit(j) \/ SendLock(j) \/ SetLock(j) \/ LockAnswered(j) \/ Reread(j)
              \/ Fetch(j) \/ WriteCache(j) \/ Unlock(j) \/ LeaseEnds(j)
   BY <2>1, <2>5
 <2>2. CASE CacheExpires
  <3>1. UNCHANGED <<slots, waiting, stage, lease, sent, acquired, lock>> /\ cacheEntry' \in BOOLEAN
    BY <2>2 DEF CacheExpires
  <3>2. QED BY <3>1 DEF PreviewIInv, PreviewTypeOK, JobsPlaced, JobsHoldTheLock, OneFetchAtATime
 <2>3. CASE UNCHANGED previewVars
   BY <2>3 DEF previewVars, PreviewIInv, PreviewTypeOK, JobsPlaced, JobsHoldTheLock, OneFetchAtATime
 <2>6. CASE Tick BY <2>6, TickKeeps
 <2>7. CASE ExecutorRestarts BY <2>7, RestartKeeps
 <2>4. QED BY <2>5, <2>2, <2>3, <2>6, <2>7 DEF PreviewNext
<1>3. QED BY <1>1, <1>2, PTL DEF PreviewSpec, PreviewIInv

------------------------------------------------------------
(* Avatars                                                                 *)

AvatarPc == {"idle", "main", "poster", "mutate", "confirm", "cleanmain", "cleanposter"}
AvatarTaskType == [pc : AvatarPc, next : Version \cup {NoVersion}, previous : Version \cup {NoVersion}]

Whole(v) == <<v, "main">> \in stored /\ (v \in animated => <<v, "poster">> \in stored)
Candidate(r) == r.next # NoVersion /\ r.pc \in {"main", "poster", "mutate"}
Cleans(r) == r.pc \in {"cleanmain", "cleanposter"}

\* What the row refers to, or may be made to refer to, is whole.
ReferencesWhole ==
    /\ avatarUrl # NoVersion => Whole(avatarUrl)
    /\ \A v \in undecided \ {NoVersion} : Whole(v) /\ age[v] = "young"

\* An upload's candidate is its own, and what it has stored is still there while it is young.
OwnsCandidate(t, r) ==
    Candidate(r) =>
        /\ r.next # avatarUrl /\ r.next \notin undecided /\ r.previous = NoVersion
        /\ \A o \in AvatarTask \ {t} : avatarTask[o].next # r.next /\ avatarTask[o].previous # r.next
        /\ age[r.next] = "young" =>
               /\ r.pc \in {"poster", "mutate"} => <<r.next, "main">> \in stored
               /\ r.pc = "mutate" => Whole(r.next)

\* What a request is going to throw away is referred to no more, if its commit happened.
DiscardsUseless(r) ==
    r.previous # NoVersion =>
        /\ r.previous \notin undecided /\ r.previous # r.next
        /\ Cleans(r) => r.previous # avatarUrl

\* Uploads and clean-ups have the form that their handlers give them.
AvatarTaskShaped(r) ==
    /\ r.pc \in {"main", "poster"} => r.next # NoVersion
    /\ Cleans(r) => r.next = NoVersion /\ r.previous # NoVersion

\* The sweep looks at old objects and spares the one that is referred to.
SweepSpares ==
    /\ \A v \in Version : KeysOf(v) \cap (sweep.todo \cup sweep.doomed) # {} => age[v] = "old"
    /\ avatarUrl # NoVersion => sweep.doomed \cap KeysOf(avatarUrl) = {}

AvatarTasksFit ==
    \A t \in AvatarTask :
        OwnsCandidate(t, avatarTask[t]) /\ DiscardsUseless(avatarTask[t]) /\ AvatarTaskShaped(avatarTask[t])

AvatarIInv == AvatarTypeOK /\ ReferencesWhole /\ AvatarTasksFit /\ SweepSpares

\* What a task's step does to the tasks.
LEMMA TaskTurned ==
    ASSUME AvatarTypeOK, NEW t \in AvatarTask, NEW n \in AvatarTaskType, Turns(t, n)
    PROVE  /\ avatarTask' \in [AvatarTask -> AvatarTaskType] /\ avatarTask'[t] = n
           /\ \A o \in AvatarTask : o # t => avatarTask'[o] = avatarTask[o]
BY DEF AvatarTypeOK, Turns, AvatarTaskType, AvatarPc

\* The tasks are records of their type.
LEMMA TaskTyped ==
    ASSUME AvatarTypeOK, NEW t \in AvatarTask
    PROVE  /\ avatarTask[t] \in AvatarTaskType /\ avatarTask[t].pc \in AvatarPc
           /\ avatarTask[t].next \in Version \cup {NoVersion}
           /\ avatarTask[t].previous \in Version \cup {NoVersion}
BY DEF AvatarTypeOK, AvatarTaskType, AvatarPc

\* The tasks that a discard makes.
LEMMA DiscardTask ==
    ASSUME NEW v \in Version \cup {NoVersion}, NEW t, Discards(t, v)
    PROVE  \E n \in AvatarTaskType :
               /\ Turns(t, n) /\ n.next = NoVersion /\ n.previous = v
               /\ n.pc = IF v = NoVersion THEN "idle" ELSE "cleanmain"
<1>1. CASE v = NoVersion BY <1>1 DEF Discards, Ends, NoAvatarTask, AvatarTaskType, AvatarPc
<1>2. CASE v # NoVersion
 <2> PICK r : r = NoAvatarTask OBVIOUS
 <2>1. r \in AvatarTaskType /\ r.next = NoVersion BY DEF NoAvatarTask, AvatarTaskType, AvatarPc
 <2> PICK n : n = [r EXCEPT !.pc = "cleanmain", !.previous = v] OBVIOUS
 <2>2. n \in AvatarTaskType /\ n.next = NoVersion /\ n.previous = v /\ n.pc = "cleanmain"
   BY <2>1 DEF AvatarTaskType, AvatarPc
 <2>3. Turns(t, n) BY <1>2 DEF Discards
 <2>4. QED BY <1>2, <2>2, <2>3
<1>3. QED BY <1>1, <1>2

\* A task that ends, or goes on to throw away what nothing refers to, leaves the rest as it is.
LEMMA DiscardKeeps ==
    ASSUME AvatarIInv, NEW t \in AvatarTask, NEW n \in AvatarTaskType, Turns(t, n),
           n.next = NoVersion, n.pc = "idle" \/ Cleans(n),
           Cleans(n) => n.previous # NoVersion /\ n.previous # avatarUrl /\ n.previous \notin undecided,
           n.pc = "idle" => n.previous = NoVersion,
           \A o \in AvatarTask : (o # t /\ Candidate(avatarTask[o])) => avatarTask[o].next # n.previous,
           UNCHANGED <<avatarUrl, stored, animated, age, undecided, sweep>>
    PROVE  AvatarIInv'
<1> USE DEF AvatarIInv
<1>1. /\ avatarTask' \in [AvatarTask -> AvatarTaskType] /\ avatarTask'[t] = n
      /\ \A o \in AvatarTask : o # t => avatarTask'[o] = avatarTask[o]
  BY TaskTurned
<1>2. AvatarTypeOK' BY <1>1 DEF AvatarTypeOK, AvatarTaskType, AvatarPc
<1>3. ReferencesWhole' /\ SweepSpares' BY DEF ReferencesWhole, SweepSpares, Whole
<1>4. OwnsCandidate(t, n)' /\ DiscardsUseless(n)' /\ AvatarTaskShaped(n)
 <2>1. ~Candidate(n) BY DEF Candidate
 <2>2. QED BY <2>1, AvatarAssumption DEF OwnsCandidate, DiscardsUseless, AvatarTaskShaped, Cleans
<1>5. ASSUME NEW o \in AvatarTask, o # t, NEW r, r = avatarTask[o]
      PROVE  OwnsCandidate(o, r)' /\ DiscardsUseless(r)' /\ AvatarTaskShaped(r)
 <2>1. OwnsCandidate(o, r) /\ DiscardsUseless(r) /\ AvatarTaskShaped(r) BY <1>5 DEF AvatarTasksFit
 <2>2. DiscardsUseless(r)' BY <2>1 DEF DiscardsUseless
 <2>3. ASSUME Candidate(r), NEW p \in AvatarTask \ {o}
       PROVE  avatarTask'[p].next # r.next /\ avatarTask'[p].previous # r.next
  <3>1. CASE p = t BY <1>1, <1>5, <2>3, <3>1 DEF Candidate
  <3>2. CASE p # t BY <1>1, <2>1, <2>3, <3>2 DEF OwnsCandidate
  <3>3. QED BY <3>1, <3>2
 <2>4. OwnsCandidate(o, r)' BY <2>1, <2>3 DEF OwnsCandidate, Whole
 <2>5. QED BY <2>1, <2>2, <2>4
<1>6. AvatarTasksFit' BY <1>1, <1>4, <1>5 DEF AvatarTasksFit
<1>7. QED BY <1>2, <1>3, <1>6

\* A version keeps what is stored for it.
StillWhole(v) ==
    /\ v \in animated' => v \in animated
    /\ stored \cap KeysOf(v) \subseteq stored'

\* What is still whole is whole, and a main object still there is there.
LEMMA WholeStays ==
    ASSUME NEW v, StillWhole(v)
    PROVE  /\ <<v, "main">> \in stored => <<v, "main">> \in stored'
           /\ Whole(v) => Whole(v)'
BY DEF StillWhole, Whole, KeysOf

\* The step of a task or of the clock leaves another task's claims in order, if it
\* leaves that task's candidate and the version it discards alone.
LEMMA OthersFit ==
    ASSUME AvatarIInv, NEW o \in AvatarTask, NEW r, r = avatarTask[o], avatarTask'[o] = r,
           Candidate(r) =>
               /\ avatarUrl' # r.next /\ r.next \notin undecided' /\ StillWhole(r.next)
               /\ age'[r.next] = "young" => age[r.next] = "young"
               /\ \A p \in AvatarTask \ {o} : avatarTask'[p].next # r.next /\ avatarTask'[p].previous # r.next,
           r.previous # NoVersion =>
               /\ r.previous \notin undecided'
               /\ Cleans(r) => r.previous # avatarUrl'
    PROVE  /\ OwnsCandidate(o, avatarTask[o])' /\ DiscardsUseless(avatarTask[o])'
           /\ AvatarTaskShaped(avatarTask[o])'
<1>1. OwnsCandidate(o, r) /\ DiscardsUseless(r) /\ AvatarTaskShaped(r) BY DEF AvatarIInv, AvatarTasksFit
<1>2. DiscardsUseless(r)' BY <1>1 DEF DiscardsUseless
<1>3. OwnsCandidate(o, r)' BY <1>1, WholeStays DEF OwnsCandidate
<1>4. QED BY <1>1, <1>2, <1>3

\* A candidate is nobody else's, is not referred to and not thrown away.
LEMMA CandidateAlone ==
    ASSUME AvatarIInv, NEW o \in AvatarTask, Candidate(avatarTask[o])
    PROVE  /\ avatarTask[o].next \in Version /\ avatarTask[o].next # avatarUrl
           /\ avatarTask[o].next \notin undecided
           /\ \A p \in AvatarTask : p # o =>
                  avatarTask[p].next # avatarTask[o].next /\ avatarTask[p].previous # avatarTask[o].next
<1>1. OwnsCandidate(o, avatarTask[o]) BY DEF AvatarIInv, AvatarTasksFit
<1>2. QED BY <1>1, TaskTyped DEF AvatarIInv, OwnsCandidate, Candidate

\* A version that an upload has put nothing of, and that nothing refers to, is its own.
LEMMA ReplaceKeeps ==
    ASSUME AvatarIInv, NEW t \in AvatarTask, NEW v \in Version, Replace(t, v)
    PROVE  AvatarIInv'
<1> USE AvatarAssumption
<1> PICK n : n = [NoAvatarTask EXCEPT !.pc = "main", !.next = v] OBVIOUS
<1>1. /\ n \in AvatarTaskType /\ n.next = v /\ n.previous = NoVersion /\ n.pc = "main"
 <2> PICK r : r = NoAvatarTask OBVIOUS
 <2>1. r \in AvatarTaskType /\ r.previous = NoVersion BY DEF NoAvatarTask, AvatarTaskType, AvatarPc
 <2>2. n = [r EXCEPT !.pc = "main", !.next = v] OBVIOUS
 <2>3. QED BY <2>1, <2>2 DEF AvatarTaskType, AvatarPc
<1>2. /\ Forgotten(v) /\ Turns(t, n) /\ age' = [age EXCEPT ![v] = "young"]
      /\ UNCHANGED <<avatarUrl, stored, undecided, sweep>>
      /\ \E pair \in BOOLEAN : animated' = IF pair THEN animated \cup {v} ELSE animated \ {v}
  BY DEF Replace
<1>3. AvatarTypeOK BY DEF AvatarIInv
<1>4. /\ avatarTask' \in [AvatarTask -> AvatarTaskType] /\ avatarTask'[t] = n
      /\ \A o \in AvatarTask : o # t => avatarTask'[o] = avatarTask[o]
  BY <1>1, <1>2, <1>3, TaskTurned
<1>5. /\ age'[v] = "young" /\ \A w \in Version : w # v => age'[w] = age[w] /\ (w \in animated' <=> w \in animated)
      /\ age' \in [Version -> {"young", "old"}] /\ animated' \subseteq Version
  BY <1>2, <1>3 DEF AvatarTypeOK
<1>6. AvatarTypeOK' BY <1>2, <1>3, <1>4, <1>5 DEF AvatarTypeOK, AvatarTaskType, AvatarPc
<1>7. /\ avatarUrl # v /\ v \notin undecided /\ stored \cap KeysOf(v) = {}
      /\ (sweep.todo \cup sweep.doomed) \cap KeysOf(v) = {}
      /\ \A o \in AvatarTask : avatarTask[o].next # v /\ avatarTask[o].previous # v
  BY <1>2 DEF Forgotten
<1>8. ReferencesWhole'
 <2>1. \A w \in Version : w # v => (Whole(w) <=> Whole(w)') BY <1>2, <1>5 DEF Whole
 <2>2. avatarUrl \in Version \cup {NoVersion} /\ undecided \subseteq Version \cup {NoVersion}
   BY <1>3 DEF AvatarTypeOK
 <2>3. QED BY <1>2, <1>5, <1>7, <2>1, <2>2 DEF AvatarIInv, ReferencesWhole
<1>9. SweepSpares'
 <2>1. \A w \in Version : KeysOf(w) \cap (sweep.todo \cup sweep.doomed) # {} => w # v /\ age[w] = "old"
   BY <1>7 DEF AvatarIInv, SweepSpares
 <2>2. QED BY <1>2, <1>5, <2>1 DEF AvatarIInv, SweepSpares, KeysOf
<1>10. OwnsCandidate(t, n)' /\ DiscardsUseless(n)' /\ AvatarTaskShaped(n)'
 <2>1. \A o \in AvatarTask \ {t} : avatarTask'[o].next # n.next /\ avatarTask'[o].previous # n.next
   BY <1>1, <1>4, <1>7
 <2>2. QED BY <1>1, <1>2, <1>7, <2>1 DEF OwnsCandidate, DiscardsUseless, AvatarTaskShaped, Cleans
<1>11. ASSUME NEW o \in AvatarTask, o # t
       PROVE  /\ OwnsCandidate(o, avatarTask[o])' /\ DiscardsUseless(avatarTask[o])'
              /\ AvatarTaskShaped(avatarTask[o])'
 <2> PICK r : r = avatarTask[o] OBVIOUS
 <2>1. avatarTask'[o] = r /\ r.next # v /\ r.previous # v /\ r.next \in Version \cup {NoVersion}
   BY <1>3, <1>4, <1>7, <1>11, TaskTyped
 <2>2. OwnsCandidate(o, r) /\ DiscardsUseless(r) BY DEF AvatarIInv, AvatarTasksFit
 <2>3. ASSUME Candidate(r)
       PROVE  /\ avatarUrl' # r.next /\ r.next \notin undecided' /\ StillWhole(r.next)
              /\ age'[r.next] = "young" => age[r.next] = "young"
              /\ \A p \in AvatarTask \ {o} : avatarTask'[p].next # r.next /\ avatarTask'[p].previous # r.next
  <3>1. r.next \in Version /\ r.next # v BY <2>1, <2>3 DEF Candidate
  <3>2. r.next # avatarUrl /\ r.next \notin undecided
        /\ \A p \in AvatarTask : p # o => avatarTask[p].next # r.next /\ avatarTask[p].previous # r.next
    BY <2>3, CandidateAlone
  <3>3. StillWhole(r.next) BY <1>2, <1>5, <3>1 DEF StillWhole
  <3>4. \A p \in AvatarTask \ {o} : avatarTask'[p].next # r.next /\ avatarTask'[p].previous # r.next
    BY <1>1, <1>4, <3>1, <3>2
  <3>5. QED BY <1>2, <1>5, <3>1, <3>2, <3>3, <3>4
 <2>4. r.previous # NoVersion => r.previous \notin undecided' /\ (Cleans(r) => r.previous # avatarUrl')
   BY <1>2, <2>2 DEF DiscardsUseless
 <2>5. QED BY <2>1, <2>3, <2>4, OthersFit
<1>12. AvatarTasksFit' BY <1>4, <1>10, <1>11 DEF AvatarTasksFit
<1>13. QED BY <1>6, <1>8, <1>9, <1>12 DEF AvatarIInv

\* While nothing is taken from storage and no reference changes, a task's step keeps the
\* invariant if the task's new claims are in order and its candidate is not new.
LEMMA TaskStepKeeps ==
    ASSUME AvatarIInv, NEW t \in AvatarTask, NEW n \in AvatarTaskType, Turns(t, n),
           UNCHANGED <<avatarUrl, animated, age, undecided, sweep>>,
           stored \subseteq stored', stored' \subseteq ObjectKey,
           OwnsCandidate(t, n)', DiscardsUseless(n)', AvatarTaskShaped(n),
           n.next \in {avatarTask[t].next, NoVersion},
           \A o \in AvatarTask : (o # t /\ Candidate(avatarTask[o])) => avatarTask[o].next # n.previous
    PROVE  AvatarIInv'
<1>1. /\ avatarTask' \in [AvatarTask -> AvatarTaskType] /\ avatarTask'[t] = n
      /\ \A o \in AvatarTask : o # t => avatarTask'[o] = avatarTask[o]
  BY TaskTurned DEF AvatarIInv
<1>2. AvatarTypeOK' BY <1>1 DEF AvatarIInv, AvatarTypeOK, AvatarTaskType, AvatarPc
<1>3. \A v : StillWhole(v) BY DEF StillWhole
<1>4. ReferencesWhole' BY <1>3, WholeStays DEF AvatarIInv, ReferencesWhole
<1>5. SweepSpares' BY DEF AvatarIInv, SweepSpares
<1>6. ASSUME NEW o \in AvatarTask, o # t
      PROVE  /\ OwnsCandidate(o, avatarTask[o])' /\ DiscardsUseless(avatarTask[o])'
             /\ AvatarTaskShaped(avatarTask[o])'
 <2> PICK r : r = avatarTask[o] OBVIOUS
 <2>1. avatarTask'[o] = r BY <1>1, <1>6
 <2>2. DiscardsUseless(r) BY DEF AvatarIInv, AvatarTasksFit
 <2>3. ASSUME Candidate(r)
       PROVE  /\ avatarUrl' # r.next /\ r.next \notin undecided'
              /\ \A p \in AvatarTask \ {o} : avatarTask'[p].next # r.next /\ avatarTask'[p].previous # r.next
  <3>1. /\ r.next # avatarUrl /\ r.next \notin undecided /\ r.next \in Version
        /\ \A p \in AvatarTask : p # o => avatarTask[p].next # r.next /\ avatarTask[p].previous # r.next
    BY <2>3, CandidateAlone
  <3>2. n.next # r.next /\ n.previous # r.next BY <1>6, <2>3, <3>1, AvatarAssumption
  <3>3. QED BY <1>1, <3>1, <3>2
 <2>4. r.previous # NoVersion => r.previous \notin undecided' /\ (Cleans(r) => r.previous # avatarUrl')
   BY <2>2 DEF DiscardsUseless
 <2>5. QED BY <1>3, <2>1, <2>3, <2>4, OthersFit
<1>7. AvatarTasksFit' BY <1>1, <1>6 DEF AvatarTasksFit
<1>8. QED BY <1>2, <1>4, <1>5, <1>7 DEF AvatarIInv

\* A task that ends claims nothing.
LEMMA IdleFits ==
    ASSUME NEW t \in AvatarTask
    PROVE  /\ NoAvatarTask \in AvatarTaskType /\ NoAvatarTask.next = NoVersion
           /\ NoAvatarTask.previous = NoVersion /\ NoAvatarTask.pc = "idle"
           /\ OwnsCandidate(t, NoAvatarTask)' /\ DiscardsUseless(NoAvatarTask)' /\ AvatarTaskShaped(NoAvatarTask)
<1> PICK r : r = NoAvatarTask OBVIOUS
<1>1. r \in AvatarTaskType /\ r.next = NoVersion /\ r.previous = NoVersion /\ r.pc = "idle"
  BY DEF NoAvatarTask, AvatarTaskType, AvatarPc
<1>2. OwnsCandidate(t, r)' /\ DiscardsUseless(r)' /\ AvatarTaskShaped(r)
  BY <1>1 DEF OwnsCandidate, DiscardsUseless, AvatarTaskShaped, Candidate, Cleans
<1>3. QED BY <1>1, <1>2

\* An upload's candidate gains its objects one after the other.
LEMMA PutKeeps == ASSUME AvatarIInv, NEW t \in AvatarTask, PutAvatar(t) PROVE AvatarIInv'
<1> PICK q : q = avatarTask[t] OBVIOUS
<1>1. /\ q \in AvatarTaskType /\ q.pc \in {"main", "poster"} /\ q.next \in Version
      /\ UNCHANGED <<avatarUrl, animated, age, undecided, sweep>>
 <2>1. AvatarTaskShaped(q) /\ q.pc \in {"main", "poster"} BY DEF AvatarIInv, AvatarTasksFit, PutAvatar
 <2>2. QED BY <2>1, TaskTyped DEF AvatarIInv, AvatarTaskShaped, PutAvatar
<1>2. <<q.next, q.pc>> \in ObjectKey /\ stored \subseteq ObjectKey
  BY <1>1 DEF ObjectKey, AvatarIInv, AvatarTypeOK
<1>3. Candidate(q) /\ OwnsCandidate(t, q) BY <1>1, AvatarAssumption DEF Candidate, AvatarIInv, AvatarTasksFit
<1>4. \A o \in AvatarTask : (o # t /\ Candidate(avatarTask[o])) => avatarTask[o].next # NoVersion
  BY DEF Candidate
<1>5. CASE stored' \in {stored, stored \cup {<<q.next, q.pc>>}} /\ Ends(t)
 <2>1. stored \subseteq stored' /\ stored' \subseteq ObjectKey BY <1>2, <1>5
 <2>2. QED BY <1>1, <1>4, <1>5, <2>1, IdleFits, TaskStepKeeps DEF Ends
<1>6. CASE /\ stored' = stored \cup {<<q.next, q.pc>>}
           /\ Turns(t, [q EXCEPT !.pc = IF @ = "main" /\ q.next \in animated THEN "poster" ELSE "mutate"])
 <2> PICK n : n = [q EXCEPT !.pc = IF @ = "main" /\ q.next \in animated THEN "poster" ELSE "mutate"] OBVIOUS
 <2>1. /\ n \in AvatarTaskType /\ n.next = q.next /\ n.previous = q.previous
       /\ n.pc = IF q.pc = "main" /\ q.next \in animated THEN "poster" ELSE "mutate"
   BY <1>1 DEF AvatarTaskType, AvatarPc
 <2>2. /\ q.next # avatarUrl /\ q.next \notin undecided /\ q.previous = NoVersion
       /\ \A o \in AvatarTask \ {t} : avatarTask[o].next # q.next /\ avatarTask[o].previous # q.next
       /\ age[q.next] = "young" /\ q.pc = "poster" => <<q.next, "main">> \in stored
   BY <1>3 DEF OwnsCandidate
 <2>3. Turns(t, n) BY <1>6
 <2>4. \A o \in AvatarTask : o # t => avatarTask'[o] = avatarTask[o] BY <2>1, <2>3, TaskTurned DEF AvatarIInv
 <2>5. age[q.next] = "young" => <<q.next, "main">> \in stored' BY <1>1, <1>6, <2>2
 <2>6. age[q.next] = "young" /\ n.pc = "mutate" => Whole(q.next)' BY <1>1, <1>6, <2>1, <2>5 DEF Whole
 <2>7. OwnsCandidate(t, n)' BY <1>1, <2>1, <2>2, <2>4, <2>5, <2>6 DEF OwnsCandidate
 <2>8. DiscardsUseless(n)' /\ AvatarTaskShaped(n)
   BY <1>1, <2>1, <2>2, AvatarAssumption DEF DiscardsUseless, AvatarTaskShaped, Cleans
 <2>9. stored \subseteq stored' /\ stored' \subseteq ObjectKey BY <1>2, <1>6
 <2>10. n.next \in {avatarTask[t].next, NoVersion} BY <2>1
 <2>11. \A o \in AvatarTask : (o # t /\ Candidate(avatarTask[o])) => avatarTask[o].next # n.previous
   BY <1>4, <2>1, <2>2
 <2>12. n \in AvatarTaskType BY <2>1
 <2>13. QED BY <1>1, <2>3, <2>7, <2>8, <2>9, <2>10, <2>11, <2>12, TaskStepKeeps
<1>7. QED BY <1>5, <1>6 DEF PutAvatar

\* A removal starts with nothing to claim.
LEMMA RemoveKeeps == ASSUME AvatarIInv, NEW t \in AvatarTask, RemoveAvatar(t) PROVE AvatarIInv'
<1> PICK n : n = [NoAvatarTask EXCEPT !.pc = "mutate"] OBVIOUS
<1>1. n \in AvatarTaskType /\ n.next = NoVersion /\ n.previous = NoVersion /\ n.pc = "mutate"
 <2> PICK r : r = NoAvatarTask OBVIOUS
 <2>1. r \in AvatarTaskType /\ r.previous = NoVersion /\ r.next = NoVersion
   BY DEF NoAvatarTask, AvatarTaskType, AvatarPc
 <2>2. n = [r EXCEPT !.pc = "mutate"] OBVIOUS
 <2>3. QED BY <2>1, <2>2 DEF AvatarTaskType, AvatarPc
<1>2. Turns(t, n) /\ UNCHANGED <<avatarUrl, stored, animated, age, undecided, sweep>> BY DEF RemoveAvatar
<1>3. OwnsCandidate(t, n)' /\ DiscardsUseless(n)' /\ AvatarTaskShaped(n)
  BY <1>1 DEF OwnsCandidate, DiscardsUseless, AvatarTaskShaped, Candidate, Cleans
<1>4. \A o \in AvatarTask : (o # t /\ Candidate(avatarTask[o])) => avatarTask[o].next # NoVersion
  BY DEF Candidate
<1>5. stored \subseteq stored' /\ stored' \subseteq ObjectKey BY <1>2 DEF AvatarIInv, AvatarTypeOK
<1>6. QED BY <1>1, <1>2, <1>3, <1>4, <1>5, TaskStepKeeps

\* An upload whose transaction is known to have failed throws its own candidate away.
LEMMA AbortKeeps == ASSUME AvatarIInv, NEW t \in AvatarTask, MutateAborts(t) PROVE AvatarIInv'
<1> PICK q : q = avatarTask[t] OBVIOUS
<1>1. q \in AvatarTaskType /\ q.pc = "mutate" /\ q.next \in Version \cup {NoVersion} /\ Discards(t, q.next)
      /\ UNCHANGED <<avatarUrl, stored, animated, age, undecided, sweep>>
  BY TaskTyped DEF AvatarIInv, MutateAborts, Phase
<1>2. PICK n \in AvatarTaskType : /\ Turns(t, n) /\ n.next = NoVersion /\ n.previous = q.next
                                  /\ n.pc = IF q.next = NoVersion THEN "idle" ELSE "cleanmain"
  BY <1>1, DiscardTask
<1>3. q.next # NoVersion => Candidate(q) BY <1>1 DEF Candidate
<1>4. q.next # NoVersion =>
          /\ q.next # avatarUrl /\ q.next \notin undecided
          /\ \A o \in AvatarTask : o # t => avatarTask[o].next # q.next
  BY <1>3, CandidateAlone
<1>5. \A o \in AvatarTask : (o # t /\ Candidate(avatarTask[o])) => avatarTask[o].next # n.previous
  BY <1>2, <1>4 DEF Candidate
<1>6. QED BY <1>1, <1>2, <1>4, <1>5, DiscardKeeps DEF Cleans

\* A commit that is found to have happened lets the old object go.
LEMMA ConfirmKeeps == ASSUME AvatarIInv, NEW t \in AvatarTask, Confirm(t) PROVE AvatarIInv'
<1> PICK q : q = avatarTask[t] OBVIOUS
<1>1. q \in AvatarTaskType /\ q.pc = "confirm" /\ q.previous \in Version \cup {NoVersion}
      /\ UNCHANGED <<avatarUrl, stored, animated, age, undecided, sweep>>
  BY TaskTyped DEF AvatarIInv, Confirm, Phase
<1>2. CASE avatarUrl = q.next
 <2>1. Discards(t, q.previous) BY <1>2 DEF Confirm
 <2>2. PICK n \in AvatarTaskType : /\ Turns(t, n) /\ n.next = NoVersion /\ n.previous = q.previous
                                   /\ n.pc = IF q.previous = NoVersion THEN "idle" ELSE "cleanmain"
   BY <1>1, <2>1, DiscardTask
 <2>3. DiscardsUseless(q) BY DEF AvatarIInv, AvatarTasksFit
 <2>4. q.previous # NoVersion => q.previous # avatarUrl /\ q.previous \notin undecided
   BY <1>2, <2>3 DEF DiscardsUseless
 <2>5. \A o \in AvatarTask : (o # t /\ Candidate(avatarTask[o])) => avatarTask[o].next # n.previous
   BY <2>2, CandidateAlone
 <2>6. QED BY <1>1, <2>2, <2>4, <2>5, DiscardKeeps DEF Cleans
<1>3. CASE avatarUrl # q.next
 <2>1. Turns(t, NoAvatarTask) BY <1>3 DEF Confirm, Ends
 <2>2. \A o \in AvatarTask : (o # t /\ Candidate(avatarTask[o])) => avatarTask[o].next # NoVersion
   BY DEF Candidate
 <2>3. QED BY <1>1, <2>1, <2>2, IdleFits, DiscardKeeps DEF Cleans
<1>4. QED BY <1>2, <1>3

\* A commit gives the row its candidate, which is whole, and frees the old object.
LEMMA CommitKeeps == ASSUME AvatarIInv, NEW t \in AvatarTask, MutateCommits(t) PROVE AvatarIInv'
<1> USE AvatarAssumption
<1> PICK q : q = avatarTask[t] OBVIOUS
<1> PICK old : old = IF avatarUrl = q.next THEN NoVersion ELSE avatarUrl OBVIOUS
<1>1. /\ q \in AvatarTaskType /\ q.pc = "mutate" /\ q.next \in Version \cup {NoVersion}
      /\ undecided = {} /\ ~Expired(q.next) /\ avatarUrl' = q.next /\ Discards(t, old)
      /\ UNCHANGED <<stored, animated, age, undecided, sweep>>
  BY TaskTyped DEF AvatarIInv, MutateCommits, Phase
<1>2. avatarUrl \in Version \cup {NoVersion} /\ old \in Version \cup {NoVersion} BY DEF AvatarIInv, AvatarTypeOK
<1>3. PICK n \in AvatarTaskType : /\ Turns(t, n) /\ n.next = NoVersion /\ n.previous = old
                                  /\ n.pc = IF old = NoVersion THEN "idle" ELSE "cleanmain"
  BY <1>1, <1>2, DiscardTask
<1>4. /\ avatarTask' \in [AvatarTask -> AvatarTaskType] /\ avatarTask'[t] = n
      /\ \A o \in AvatarTask : o # t => avatarTask'[o] = avatarTask[o]
  BY <1>3, TaskTurned DEF AvatarIInv
<1>5. AvatarTypeOK' BY <1>1, <1>4 DEF AvatarIInv, AvatarTypeOK, AvatarTaskType, AvatarPc
<1>6. q.next # NoVersion => /\ Candidate(q) /\ OwnsCandidate(t, q) /\ age[q.next] = "young"
  BY <1>1 DEF Candidate, AvatarIInv, AvatarTasksFit, Expired
<1>7. q.next # NoVersion => /\ Whole(q.next) /\ q.next # avatarUrl
                            /\ \A o \in AvatarTask : o # t => avatarTask[o].next # q.next /\ avatarTask[o].previous # q.next
  BY <1>1, <1>6 DEF OwnsCandidate
<1>8. \A v : StillWhole(v) BY <1>1 DEF StillWhole
<1>9. ReferencesWhole' BY <1>1, <1>7 DEF ReferencesWhole, Whole
<1>10. SweepSpares'
 <2>1. \A v \in Version : KeysOf(v) \cap (sweep.todo \cup sweep.doomed) # {} => age[v] = "old"
   BY DEF AvatarIInv, SweepSpares
 <2>2. q.next # NoVersion => KeysOf(q.next) \cap (sweep.todo \cup sweep.doomed) = {} BY <1>1, <1>6, <2>1
 <2>3. QED BY <1>1, <2>1, <2>2 DEF SweepSpares
<1>11. OwnsCandidate(t, n)' /\ DiscardsUseless(n)' /\ AvatarTaskShaped(n)
 <2>1. old # NoVersion => old = avatarUrl /\ old # q.next BY <1>2
 <2>2. QED BY <1>1, <1>3, <2>1 DEF OwnsCandidate, DiscardsUseless, AvatarTaskShaped, Candidate, Cleans
<1>12. ASSUME NEW o \in AvatarTask, o # t
       PROVE  /\ OwnsCandidate(o, avatarTask[o])' /\ DiscardsUseless(avatarTask[o])'
              /\ AvatarTaskShaped(avatarTask[o])'
 <2> PICK r : r = avatarTask[o] OBVIOUS
 <2>1. avatarTask'[o] = r BY <1>4, <1>12
 <2>2. DiscardsUseless(r) BY DEF AvatarIInv, AvatarTasksFit
 <2>3. ASSUME Candidate(r)
       PROVE  /\ avatarUrl' # r.next /\ r.next \notin undecided'
              /\ \A p \in AvatarTask \ {o} : avatarTask'[p].next # r.next /\ avatarTask'[p].previous # r.next
  <3>1. /\ r.next # avatarUrl /\ r.next \notin undecided /\ r.next \in Version
        /\ \A p \in AvatarTask : p # o => avatarTask[p].next # r.next /\ avatarTask[p].previous # r.next
    BY <2>3, CandidateAlone
  <3>2. q.next # r.next BY <1>12, <3>1
  <3>3. n.next # r.next /\ n.previous # r.next BY <1>3, <3>1
  <3>4. QED BY <1>1, <1>4, <3>1, <3>2, <3>3
 <2>4. r.previous # NoVersion => r.previous \notin undecided' /\ (Cleans(r) => r.previous # avatarUrl')
   BY <1>1, <1>7, <1>12, <2>2 DEF DiscardsUseless
 <2>5. QED BY <1>1, <1>8, <2>1, <2>3, <2>4, OthersFit
<1>13. AvatarTasksFit' BY <1>4, <1>11, <1>12 DEF AvatarTasksFit
<1>14. QED BY <1>5, <1>9, <1>10, <1>13 DEF AvatarIInv

\* A commit without an answer: the candidate waits for the database's decision.
LEMMA UnconfirmedKeeps == ASSUME AvatarIInv, NEW t \in AvatarTask, MutateUnconfirmed(t) PROVE AvatarIInv'
<1> USE AvatarAssumption
<1> PICK q : q = avatarTask[t] OBVIOUS
<1> PICK old : old = IF avatarUrl = q.next THEN NoVersion ELSE avatarUrl OBVIOUS
<1> PICK n : n = [q EXCEPT !.pc = "confirm", !.previous = old] OBVIOUS
<1>1. /\ q \in AvatarTaskType /\ q.pc = "mutate" /\ q.next \in Version \cup {NoVersion}
      /\ undecided = {} /\ ~Expired(q.next) /\ undecided' = {q.next} /\ Turns(t, n)
      /\ UNCHANGED <<avatarUrl, stored, animated, age, sweep>>
  BY TaskTyped DEF AvatarIInv, MutateUnconfirmed, Phase
<1>2. avatarUrl \in Version \cup {NoVersion} /\ old \in Version \cup {NoVersion} BY DEF AvatarIInv, AvatarTypeOK
<1>3. n \in AvatarTaskType /\ n.next = q.next /\ n.previous = old /\ n.pc = "confirm"
  BY <1>1, <1>2 DEF AvatarTaskType, AvatarPc
<1>4. /\ avatarTask' \in [AvatarTask -> AvatarTaskType] /\ avatarTask'[t] = n
      /\ \A o \in AvatarTask : o # t => avatarTask'[o] = avatarTask[o]
  BY <1>1, <1>3, TaskTurned DEF AvatarIInv
<1>5. AvatarTypeOK' BY <1>1, <1>4 DEF AvatarIInv, AvatarTypeOK, AvatarTaskType, AvatarPc
<1>6. q.next # NoVersion => /\ Candidate(q) /\ OwnsCandidate(t, q) /\ age[q.next] = "young"
  BY <1>1 DEF Candidate, AvatarIInv, AvatarTasksFit, Expired
<1>7. q.next # NoVersion => /\ Whole(q.next) /\ q.next # avatarUrl
                            /\ \A o \in AvatarTask : o # t => avatarTask[o].next # q.next /\ avatarTask[o].previous # q.next
  BY <1>1, <1>6 DEF OwnsCandidate
<1>8. \A v : StillWhole(v) BY <1>1 DEF StillWhole
<1>9. ReferencesWhole' BY <1>1, <1>6, <1>7 DEF AvatarIInv, ReferencesWhole, Whole
<1>10. SweepSpares' BY <1>1 DEF AvatarIInv, SweepSpares
<1>11. OwnsCandidate(t, n)' /\ DiscardsUseless(n)' /\ AvatarTaskShaped(n)
 <2>1. old # NoVersion => old = avatarUrl /\ old # q.next BY <1>2
 <2>2. QED BY <1>1, <1>3, <2>1 DEF OwnsCandidate, DiscardsUseless, AvatarTaskShaped, Candidate, Cleans
<1>12. ASSUME NEW o \in AvatarTask, o # t
       PROVE  /\ OwnsCandidate(o, avatarTask[o])' /\ DiscardsUseless(avatarTask[o])'
              /\ AvatarTaskShaped(avatarTask[o])'
 <2> PICK r : r = avatarTask[o] OBVIOUS
 <2>1. avatarTask'[o] = r BY <1>4, <1>12
 <2>2. DiscardsUseless(r) BY DEF AvatarIInv, AvatarTasksFit
 <2>3. ASSUME Candidate(r)
       PROVE  /\ avatarUrl' # r.next /\ r.next \notin undecided'
              /\ \A p \in AvatarTask \ {o} : avatarTask'[p].next # r.next /\ avatarTask'[p].previous # r.next
  <3>1. /\ r.next # avatarUrl /\ r.next \notin undecided /\ r.next \in Version
        /\ \A p \in AvatarTask : p # o => avatarTask[p].next # r.next /\ avatarTask[p].previous # r.next
    BY <2>3, CandidateAlone
  <3>2. q.next # r.next BY <1>12, <3>1
  <3>3. n.next # r.next /\ n.previous # r.next BY <1>3, <3>1, <3>2
  <3>4. QED BY <1>1, <1>4, <3>1, <3>2, <3>3
 <2>4. r.previous # NoVersion => r.previous \notin undecided' /\ (Cleans(r) => r.previous # avatarUrl')
   BY <1>1, <1>7, <1>12, <2>2 DEF DiscardsUseless
 <2>5. QED BY <1>1, <1>8, <2>1, <2>3, <2>4, OthersFit
<1>13. AvatarTasksFit' BY <1>4, <1>11, <1>12 DEF AvatarTasksFit
<1>14. QED BY <1>5, <1>9, <1>10, <1>13 DEF AvatarIInv

\* A step that no task takes keeps the invariant if it leaves the candidates alone and
\* makes nobody's discarded version current.
LEMMA ClockKeeps ==
    ASSUME AvatarIInv, AvatarTypeOK', ReferencesWhole', SweepSpares',
           UNCHANGED <<animated, avatarTask>>,
           \A v \in Version : age'[v] = "young" => age[v] = "young" /\ StillWhole(v),
           avatarUrl' \in {avatarUrl} \cup undecided, undecided' \subseteq undecided
    PROVE  AvatarIInv'
<1>1. ASSUME NEW o \in AvatarTask
      PROVE  OwnsCandidate(o, avatarTask[o])' /\ DiscardsUseless(avatarTask[o])' /\ AvatarTaskShaped(avatarTask[o])'
 <2> PICK r : r = avatarTask[o] OBVIOUS
 <2>1. avatarTask'[o] = r OBVIOUS
 <2>2. OwnsCandidate(o, r) /\ DiscardsUseless(r) /\ AvatarTaskShaped(r) BY DEF AvatarIInv, AvatarTasksFit
 <2>3. DiscardsUseless(r)' BY <2>2 DEF DiscardsUseless
 <2>4. ASSUME Candidate(r)
       PROVE  OwnsCandidate(o, r)'
  <3>1. r.next \in Version /\ r.next # avatarUrl /\ r.next \notin undecided BY <2>4, CandidateAlone
  <3>2. age'[r.next] = "young" => age[r.next] = "young" /\ StillWhole(r.next) BY <3>1
  <3>3. QED BY <2>2, <2>4, <3>1, <3>2, WholeStays DEF OwnsCandidate
 <2>5. OwnsCandidate(o, r)' BY <2>4 DEF OwnsCandidate
 <2>6. QED BY <2>1, <2>2, <2>3, <2>5
<1>2. AvatarTasksFit' BY <1>1 DEF AvatarTasksFit
<1>3. QED BY <1>2 DEF AvatarIInv

\* Whichever way the database decides, the row refers to what is whole.
LEMMA DecideKeeps == ASSUME AvatarIInv, Decide PROVE AvatarIInv'
<1> USE AvatarAssumption
<1>1. /\ avatarUrl' \in {avatarUrl} \cup undecided /\ undecided' = {}
      /\ UNCHANGED <<stored, animated, age, avatarTask, sweep>>
  BY DEF Decide
<1>2. AvatarTypeOK' BY <1>1 DEF AvatarIInv, AvatarTypeOK
<1>3. ReferencesWhole' BY <1>1 DEF AvatarIInv, ReferencesWhole, Whole
<1>4. SweepSpares'
 <2>1. ASSUME NEW v \in undecided, v # NoVersion
       PROVE  KeysOf(v) \cap (sweep.todo \cup sweep.doomed) = {}
   BY <2>1 DEF AvatarIInv, AvatarTypeOK, ReferencesWhole, SweepSpares
 <2>2. QED BY <1>1, <2>1 DEF AvatarIInv, SweepSpares
<1>5. \A v \in Version : StillWhole(v) BY <1>1 DEF StillWhole
<1>6. QED BY <1>1, <1>2, <1>3, <1>4, <1>5, ClockKeeps

\* A clean-up takes keys of a version that nothing refers to and nobody uploads.
LEMMA CleanUpKeeps == ASSUME AvatarIInv, NEW t \in AvatarTask, CleanUp(t) PROVE AvatarIInv'
<1> USE AvatarAssumption
<1> PICK q : q = avatarTask[t] OBVIOUS
<1> PICK key : key = <<q.previous, IF q.pc = "cleanmain" THEN "main" ELSE "poster">> OBVIOUS
<1>1. /\ q \in AvatarTaskType /\ Cleans(q) /\ stored' \in {stored, stored \ {key}}
      /\ IF q.pc = "cleanmain" THEN Turns(t, [q EXCEPT !.pc = "cleanposter"]) ELSE Ends(t)
      /\ UNCHANGED <<avatarUrl, animated, age, undecided, sweep>>
  BY TaskTyped DEF AvatarIInv, CleanUp, Cleans
<1>2. /\ q.next = NoVersion /\ q.previous \in Version /\ q.previous # avatarUrl /\ q.previous \notin undecided
      /\ q.previous # NoVersion
  BY <1>1 DEF AvatarIInv, AvatarTasksFit, DiscardsUseless, AvatarTaskShaped, AvatarTaskType
<1>3. \A v \in Version : v # q.previous => StillWhole(v) BY <1>1 DEF StillWhole, KeysOf
<1>4. PICK n \in AvatarTaskType :
          /\ Turns(t, n) /\ n.next = NoVersion
          /\ n.previous \in {q.previous, NoVersion}
          /\ Cleans(n) <=> n.previous # NoVersion
          /\ n.pc \in {"idle", "cleanposter"}
 <2>1. CASE q.pc = "cleanmain"
  <3> PICK n : n = [q EXCEPT !.pc = "cleanposter"] OBVIOUS
  <3>1. n \in AvatarTaskType /\ n.next = NoVersion /\ n.previous = q.previous /\ n.pc = "cleanposter"
    BY <1>1, <1>2 DEF AvatarTaskType, AvatarPc
  <3>2. Turns(t, n) BY <1>1, <2>1
  <3>3. QED BY <1>2, <3>1, <3>2 DEF Cleans
 <2>2. CASE q.pc # "cleanmain" BY <1>1, <2>2, IdleFits DEF Ends, Cleans
 <2>3. QED BY <2>1, <2>2
<1>5. /\ avatarTask' \in [AvatarTask -> AvatarTaskType] /\ avatarTask'[t] = n
      /\ \A o \in AvatarTask : o # t => avatarTask'[o] = avatarTask[o]
  BY <1>4, TaskTurned DEF AvatarIInv
<1>6. AvatarTypeOK'
 <2>1. stored' \subseteq ObjectKey BY <1>1 DEF AvatarIInv, AvatarTypeOK
 <2>2. QED BY <1>1, <1>5, <2>1 DEF AvatarIInv, AvatarTypeOK, AvatarTaskType, AvatarPc
<1>7. ReferencesWhole'
 <2>1. \A v \in Version : v # q.previous /\ Whole(v) => Whole(v)' BY <1>3, WholeStays
 <2>2. avatarUrl \in Version \cup {NoVersion} /\ undecided \subseteq Version \cup {NoVersion}
   BY DEF AvatarIInv, AvatarTypeOK
 <2>3. QED BY <1>1, <1>2, <2>1, <2>2 DEF AvatarIInv, ReferencesWhole
<1>8. SweepSpares' BY <1>1 DEF AvatarIInv, SweepSpares
<1>9. OwnsCandidate(t, n)' /\ DiscardsUseless(n)' /\ AvatarTaskShaped(n)
  BY <1>1, <1>2, <1>4 DEF OwnsCandidate, DiscardsUseless, AvatarTaskShaped, Candidate, Cleans
<1>10. ASSUME NEW o \in AvatarTask, o # t
       PROVE  /\ OwnsCandidate(o, avatarTask[o])' /\ DiscardsUseless(avatarTask[o])'
              /\ AvatarTaskShaped(avatarTask[o])'
 <2> PICK r : r = avatarTask[o] OBVIOUS
 <2>1. avatarTask'[o] = r BY <1>5, <1>10
 <2>2. DiscardsUseless(r) BY DEF AvatarIInv, AvatarTasksFit
 <2>3. ASSUME Candidate(r)
       PROVE  /\ avatarUrl' # r.next /\ r.next \notin undecided' /\ StillWhole(r.next)
              /\ age'[r.next] = "young" => age[r.next] = "young"
              /\ \A p \in AvatarTask \ {o} : avatarTask'[p].next # r.next /\ avatarTask'[p].previous # r.next
  <3>1. /\ r.next # avatarUrl /\ r.next \notin undecided /\ r.next \in Version
        /\ \A p \in AvatarTask : p # o => avatarTask[p].next # r.next /\ avatarTask[p].previous # r.next
    BY <2>3, CandidateAlone
  <3>2. r.next # q.previous /\ n.next # r.next /\ n.previous # r.next BY <1>4, <1>10, <3>1
  <3>3. QED BY <1>1, <1>3, <1>5, <3>1, <3>2
 <2>4. r.previous # NoVersion => r.previous \notin undecided' /\ (Cleans(r) => r.previous # avatarUrl')
   BY <1>1, <2>2 DEF DiscardsUseless
 <2>5. QED BY <2>1, <2>3, <2>4, OthersFit
<1>11. AvatarTasksFit' BY <1>5, <1>9, <1>10 DEF AvatarTasksFit
<1>12. QED BY <1>6, <1>7, <1>8, <1>11 DEF AvatarIInv

\* Only what no pending transaction may promote gets old.
LEMMA GetsOldKeeps == ASSUME AvatarIInv, NEW v \in Version, GetsOld(v) PROVE AvatarIInv'
<1> USE AvatarAssumption
<1>1. /\ age[v] = "young" /\ v \notin undecided /\ age' = [age EXCEPT ![v] = "old"]
      /\ UNCHANGED <<avatarUrl, stored, animated, avatarTask, undecided, sweep>>
  BY DEF GetsOld
<1>2. /\ age'[v] = "old" /\ age' \in [Version -> {"young", "old"}]
      /\ \A w \in Version : w # v => age'[w] = age[w]
  BY <1>1 DEF AvatarIInv, AvatarTypeOK
<1>3. AvatarTypeOK' BY <1>1, <1>2 DEF AvatarIInv, AvatarTypeOK
<1>4. ReferencesWhole' BY <1>1, <1>2 DEF AvatarIInv, AvatarTypeOK, ReferencesWhole, Whole
<1>5. SweepSpares' BY <1>1, <1>2 DEF AvatarIInv, SweepSpares
<1>6. \A w \in Version : age'[w] = "young" => age[w] = "young" /\ StillWhole(w) BY <1>1, <1>2 DEF StillWhole
<1>7. QED BY <1>1, <1>3, <1>4, <1>5, <1>6, ClockKeeps

\* The keys of an object name its version.
LEMMA KeyNames == ASSUME NEW key \in ObjectKey, NEW v, key \in KeysOf(v) PROVE key[1] = v /\ v \in Version
BY DEF ObjectKey, KeysOf

\* The sweep lists old objects, dooms none that the row refers to, and takes what it doomed.
LEMMA SweepKeeps ==
    ASSUME AvatarIInv, SweepStarts \/ SweepDeletes \/ \E key \in ObjectKey : SweepReads(key)
    PROVE  AvatarIInv'
<1> USE AvatarAssumption
<1>1. /\ sweep.todo \subseteq ObjectKey /\ sweep.doomed \subseteq ObjectKey /\ stored \subseteq ObjectKey
      /\ \A v \in Version : KeysOf(v) \cap (sweep.todo \cup sweep.doomed) # {} => age[v] = "old"
      /\ avatarUrl # NoVersion => sweep.doomed \cap KeysOf(avatarUrl) = {}
  BY DEF AvatarIInv, AvatarTypeOK, SweepSpares
<1>2. CASE SweepStarts
 <2> PICK old : old = {key \in stored : age[key[1]] = "old"} OBVIOUS
 <2>1. sweep' = [todo |-> old, doomed |-> {}] /\ UNCHANGED <<avatarUrl, stored, animated, age, avatarTask, undecided>>
   BY <1>2 DEF SweepStarts
 <2>2. sweep'.todo = old /\ sweep'.doomed = {} /\ old \subseteq ObjectKey BY <1>1, <2>1
 <2>3. AvatarTypeOK' BY <2>1, <2>2 DEF AvatarIInv, AvatarTypeOK
 <2>4. ReferencesWhole' /\ \A v \in Version : StillWhole(v)
   BY <2>1 DEF AvatarIInv, ReferencesWhole, Whole, StillWhole
 <2>5. ASSUME NEW v \in Version, NEW key \in old, key \in KeysOf(v)
       PROVE  age[v] = "old"
   BY <2>2, <2>5, KeyNames
 <2>6. SweepSpares' BY <2>1, <2>2, <2>5 DEF SweepSpares
 <2>7. QED BY <2>1, <2>3, <2>4, <2>6, ClockKeeps
<1>3. CASE SweepDeletes
 <2>1. /\ stored' \in {stored, stored \ sweep.doomed} /\ sweep' = [sweep EXCEPT !.doomed = {}]
       /\ UNCHANGED <<avatarUrl, animated, age, avatarTask, undecided>>
   BY <1>3 DEF SweepDeletes
 <2>2. sweep' = [todo |-> sweep.todo, doomed |-> {}] BY <2>1 DEF AvatarIInv, AvatarTypeOK
 <2>3. AvatarTypeOK'
  <3>1. stored' \subseteq ObjectKey BY <1>1, <2>1
  <3>2. QED BY <1>1, <2>1, <2>2, <3>1 DEF AvatarIInv, AvatarTypeOK
 <2>4. ASSUME NEW v \in Version, age[v] = "young" \/ v = avatarUrl
       PROVE  StillWhole(v)
  <3>1. sweep.doomed \cap KeysOf(v) = {} BY <1>1, <2>4
  <3>2. QED BY <2>1, <3>1 DEF StillWhole
 <2>5. ReferencesWhole'
  <3>1. avatarUrl \in Version \cup {NoVersion} /\ undecided \subseteq Version \cup {NoVersion}
    BY DEF AvatarIInv, AvatarTypeOK
  <3>2. \A v \in Version : (age[v] = "young" \/ v = avatarUrl) /\ Whole(v) => Whole(v)' BY <2>4, WholeStays
  <3>3. QED BY <2>1, <3>1, <3>2 DEF AvatarIInv, ReferencesWhole
 <2>6. SweepSpares' BY <1>1, <2>1, <2>2 DEF SweepSpares
 <2>7. QED BY <2>1, <2>3, <2>4, <2>5, <2>6, ClockKeeps
<1>4. ASSUME NEW key \in ObjectKey, SweepReads(key)
      PROVE  AvatarIInv'
 <2>1. PICK doom : /\ sweep' = [todo |-> sweep.todo \ {key}, doomed |-> doom]
                   /\ doom \in {{key} \ KeysOf(avatarUrl), {}}
                   /\ key \in sweep.todo
                   /\ UNCHANGED <<avatarUrl, stored, animated, age, avatarTask, undecided>>
   BY <1>4 DEF SweepReads
 <2>2. sweep'.todo = sweep.todo \ {key} /\ sweep'.doomed = doom /\ doom \subseteq sweep.todo BY <2>1
 <2>3. AvatarTypeOK' BY <1>1, <2>1, <2>2 DEF AvatarIInv, AvatarTypeOK
 <2>4. ReferencesWhole' /\ \A v \in Version : StillWhole(v)
   BY <2>1 DEF AvatarIInv, ReferencesWhole, Whole, StillWhole
 <2>5. SweepSpares'
  <3>1. doom \cap KeysOf(avatarUrl) = {} BY <2>1
  <3>2. \A v \in Version : KeysOf(v) \cap (sweep'.todo \cup sweep'.doomed) # {} => age[v] = "old" BY <1>1, <2>2
  <3>3. QED BY <2>1, <2>2, <3>1, <3>2 DEF SweepSpares
 <2>6. QED BY <2>1, <2>3, <2>4, <2>5, ClockKeeps
<1>5. QED BY <1>2, <1>3, <1>4

\* Whatever requests and sweeps throw away, after a commit, an abort or an answer that
\* never came: what the row refers to is in storage, with its poster.
THEOREM ReferencedAvatarsStored == AvatarSpec => [](AvatarTypeOK /\ ReferencedAvatarIsStored)
<1>1. AvatarInit => AvatarIInv
 <2> SUFFICES ASSUME AvatarInit PROVE AvatarIInv OBVIOUS
 <2> USE AvatarAssumption DEF AvatarInit
 <2>1. sweep \in [todo : SUBSET ObjectKey, doomed : SUBSET ObjectKey] OBVIOUS
 <2>2. AvatarTypeOK BY <2>1, IdleFits DEF AvatarTypeOK, AvatarTaskType, AvatarPc
 <2>3. ReferencesWhole /\ SweepSpares BY DEF ReferencesWhole, SweepSpares
 <2>4. ASSUME NEW t \in AvatarTask
       PROVE  OwnsCandidate(t, NoAvatarTask) /\ DiscardsUseless(NoAvatarTask) /\ AvatarTaskShaped(NoAvatarTask)
   BY IdleFits DEF OwnsCandidate, DiscardsUseless, AvatarTaskShaped, Candidate, Cleans
 <2>5. AvatarTasksFit BY <2>4 DEF AvatarTasksFit
 <2>6. QED BY <2>2, <2>3, <2>5 DEF AvatarIInv
<1>2. AvatarIInv /\ [AvatarNext]_avatarVars => AvatarIInv'
 <2> SUFFICES ASSUME AvatarIInv, [AvatarNext]_avatarVars PROVE AvatarIInv' OBVIOUS
 <2>1. CASE \E t \in AvatarTask :
              \/ \E v \in Version : Replace(t, v)
              \/ PutAvatar(t) \/ RemoveAvatar(t)
              \/ MutateAborts(t) \/ MutateCommits(t) \/ MutateUnconfirmed(t) \/ Confirm(t)
              \/ CleanUp(t)
   BY <2>1, ReplaceKeeps, PutKeeps, RemoveKeeps, AbortKeeps, CommitKeeps, UnconfirmedKeeps, ConfirmKeeps,
      CleanUpKeeps
 <2>2. CASE \E v \in Version : GetsOld(v) BY <2>2, GetsOldKeeps
 <2>3. CASE Decide BY <2>3, DecideKeeps
 <2>4. CASE SweepStarts \/ SweepDeletes \/ \E key \in ObjectKey : SweepReads(key) BY <2>4, SweepKeeps
 <2>5. CASE UNCHANGED avatarVars
   BY <2>5 DEF avatarVars, AvatarIInv, AvatarTypeOK, ReferencesWhole, AvatarTasksFit, SweepSpares,
      OwnsCandidate, DiscardsUseless, Whole
 <2>6. QED BY <2>1, <2>2, <2>3, <2>4, <2>5 DEF AvatarNext
<1>3. AvatarIInv => ReferencedAvatarIsStored BY DEF AvatarIInv, ReferencesWhole, Whole, ReferencedAvatarIsStored
<1>4. QED BY <1>1, <1>2, <1>3, PTL DEF AvatarSpec, AvatarIInv

------------------------------------------------------------
(* Messages                                                                *)

MessagePc == {"idle", "find", "insert", "created", "edit", "updated", "drop", "deleted", "select",
              "expire", "expirerow", "orphan", "orphanrow", "put", "head", "reject", "mark"}
MessageTaskType ==
    [pc : MessagePc, msg : Message \cup {NoMessage}, atts : SUBSET Attachment,
     key : SendKey \cup {NoSendKey}, doomed : SUBSET (Attachment \X (Message \cup {NoMessage})),
     at : Attachment \cup {NoAttachment}]

\* A clean-up between the object and the row of an attachment, an upload about to be
\* marked, an object about to be rejected, a deletion yet to be told.
AtRow(r, a) == r.pc \in {"expirerow", "orphanrow"} /\ r.at = a
AtMark(r, a) == r.pc = "mark" /\ r.at = a
RowStage(a) == \E t \in MessageTask : AtRow(messageTask[t], a)
MarkStage(a) == \E t \in MessageTask : AtMark(messageTask[t], a)
RejectStage(a) == \E t \in MessageTask : messageTask[t].pc = "reject" /\ messageTask[t].at = a
Telling(x) == \E t \in MessageTask : messageTask[t].pc = "deleted" /\ messageTask[t].msg = x

\* The pairs that a clean-up has still to deal with.
Condemned(r) == r.doomed \cup (IF r.pc \in {"expirerow", "orphanrow"} THEN {<<r.at, r.msg>>} ELSE {})

MessageTaskShaped(r) ==
    /\ r.pc \in {"put", "head", "reject", "mark", "expirerow", "orphanrow"} => r.at \in Attachment
    /\ r.pc \in {"created", "edit", "updated", "drop", "deleted", "select"} => r.msg \in Message
    /\ r.pc \notin {"expire", "expirerow", "orphan", "orphanrow"} => r.doomed = {}

\* What a request works on does not come back to life, and who works on a deleted
\* message was met by its deletion.
WorksOnGone(r) ==
    /\ r.pc \in {"edit", "drop"} /\ channelUp => message[r.msg].state # "none"
    /\ r.pc = "edit" /\ message[r.msg].state = "deleted" => r.msg \in revived
    /\ r.pc \in {"created", "edit", "updated"} /\ message[r.msg].state = "deleted" => r.msg \in misheard
    /\ r.pc \in {"deleted", "select"} /\ channelUp => message[r.msg].state = "deleted"

\* Messages live in a channel; a deleted one says nothing, and this was told or will be.
MessagesFinal ==
    /\ ~channelUp => \A x \in Message : message[x].state = "none"
    /\ \A x \in Message \ revived : message[x].state = "deleted" => message[x].content = ""
    /\ \A x \in Message \ misheard :
           message[x].state = "deleted" => message[x].told = "deleted" \/ Telling(x)

\* What a clean-up selected belongs to no live message, and nobody took it unnoticed.
CondemnedUnwanted(r) ==
    channelUp => \A a \in Attachment, x \in Message \cup {NoMessage} : <<a, x>> \in Condemned(r) =>
        /\ x \in Message => message[x].state = "deleted"
        /\ a \notin fought => upload[a] = "none" \/ linkedTo[a] = x

SendsProcessed(r) == r.pc \in {"find", "insert"} => \A a \in r.atts : upload[a] \in {"processed", "none"}

\* A completed upload is stored, save while its clean-up is between object and row, and
\* unless the browser put another.
ProcessedStored ==
    channelUp => \A a \in Attachment \ (fought \cup overwritten) :
        (~RowStage(a) /\ upload[a] # "none" /\ (upload[a] = "processed" \/ MarkStage(a))) => object[a] = "fit"

\* What is about to be rejected is unfit, unless the browser put another. Only R2's
\* driver looks at objects, and only the local one stores them.
RejectsUnfit ==
    /\ \A a \in Attachment \ overwritten : RejectStage(a) => object[a] # "fit"
    /\ \A t \in MessageTask : /\ messageTask[t].pc \in {"head", "reject"} => driver = "r2"
                              /\ messageTask[t].pc = "put" => driver = "local"

\* Nothing is stored without a row.
ObjectsHaveRows ==
    \A a \in Attachment \ leaked :
        /\ object[a] # "absent" => upload[a] # "none"
        /\ RowStage(a) => object[a] = "absent"

MessageTasksFit ==
    \A t \in MessageTask :
        /\ MessageTaskShaped(messageTask[t]) /\ WorksOnGone(messageTask[t])
        /\ CondemnedUnwanted(messageTask[t]) /\ SendsProcessed(messageTask[t])

MessageIInv ==
    /\ MessageTypeOK /\ MessageTasksFit /\ MessagesFinal
    /\ ProcessedStored /\ RejectsUnfit /\ ObjectsHaveRows /\ MessagesKeepTheirAttachments

\* What a task's step does to the tasks.
LEMMA TaskGone ==
    ASSUME MessageTypeOK, NEW t \in MessageTask, NEW n \in MessageTaskType, Goes(t, n)
    PROVE  /\ messageTask' \in [MessageTask -> MessageTaskType] /\ messageTask'[t] = n
           /\ \A o \in MessageTask : o # t => messageTask'[o] = messageTask[o]
BY DEF MessageTypeOK, Goes, MessageTaskType, MessagePc

\* The tasks are records of their type.
LEMMA MessageTaskTyped ==
    ASSUME MessageTypeOK, NEW t \in MessageTask
    PROVE  messageTask[t] \in MessageTaskType
BY DEF MessageTypeOK, MessageTaskType, MessagePc

\* The fields of a task's record.
LEMMA MessageTaskFields ==
    ASSUME NEW r \in MessageTaskType
    PROVE  /\ r.pc \in MessagePc /\ r.msg \in Message \cup {NoMessage} /\ r.atts \subseteq Attachment
           /\ r.key \in SendKey \cup {NoSendKey} /\ r.doomed \subseteq Attachment \X (Message \cup {NoMessage})
           /\ r.at \in Attachment \cup {NoAttachment}
BY DEF MessageTaskType

\* What a task starts with.
LEMMA StartFields ==
    ASSUME NEW t, NEW pc \in MessagePc
    PROVE  /\ Starts(t, pc) \in MessageTaskType /\ Starts(t, pc).pc = pc /\ Starts(t, pc).msg = NoMessage
           /\ Starts(t, pc).atts = {} /\ Starts(t, pc).key = NoSendKey /\ Starts(t, pc).doomed = {}
           /\ Starts(t, pc).at = NoAttachment
<1> PICK r : r = NoMessageTask OBVIOUS
<1>1. /\ r \in MessageTaskType /\ r.msg = NoMessage /\ r.atts = {} /\ r.key = NoSendKey
      /\ r.doomed = {} /\ r.at = NoAttachment
  BY DEF NoMessageTask, MessageTaskType, MessagePc
<1> PICK n : n = [r EXCEPT !.pc = pc] OBVIOUS
<1>2. n = Starts(t, pc) BY DEF Starts
<1>3. QED BY <1>1, <1>2 DEF MessageTaskType

\* A task that is over has nothing to do.
LEMMA OverFields ==
    /\ NoMessageTask \in MessageTaskType /\ NoMessageTask.pc = "idle" /\ NoMessageTask.msg = NoMessage
    /\ NoMessageTask.atts = {} /\ NoMessageTask.doomed = {} /\ NoMessageTask.at = NoAttachment
<1> PICK r : r = NoMessageTask OBVIOUS
<1>1. /\ r \in MessageTaskType /\ r.pc = "idle" /\ r.msg = NoMessage /\ r.atts = {}
      /\ r.doomed = {} /\ r.at = NoAttachment
  BY DEF NoMessageTask, MessageTaskType, MessagePc
<1>2. QED BY <1>1

\* An idle task is in nobody's way.
LEMMA IdleTaskFits ==
    ASSUME NEW n, n.pc = "idle", n.doomed = {}
    PROVE  /\ MessageTaskShaped(n) /\ WorksOnGone(n)' /\ CondemnedUnwanted(n)' /\ SendsProcessed(n)'
           /\ \A a : ~AtRow(n, a) /\ ~AtMark(n, a)
BY DEF MessageTaskShaped, WorksOnGone, CondemnedUnwanted, SendsProcessed, Condemned, AtRow, AtMark

\* The tasks fit after a step of one of them if it fits and the others still do.
LEMMA TasksStillFit ==
    ASSUME MessageIInv, NEW t \in MessageTask, NEW n \in MessageTaskType, Goes(t, n),
           MessageTaskShaped(n), WorksOnGone(n)', CondemnedUnwanted(n)', SendsProcessed(n)',
           \A o \in MessageTask : \A r \in MessageTaskType :
               (o # t /\ r = messageTask[o] /\ MessageTaskShaped(r) /\ WorksOnGone(r) /\ CondemnedUnwanted(r)
                   /\ SendsProcessed(r))
               => WorksOnGone(r)' /\ CondemnedUnwanted(r)' /\ SendsProcessed(r)'
    PROVE  MessageTasksFit'
<1>1. messageTask'[t] = n /\ \A o \in MessageTask : o # t => messageTask'[o] = messageTask[o]
  BY TaskGone DEF MessageIInv
<1>2. ASSUME NEW o \in MessageTask, o # t
      PROVE  /\ MessageTaskShaped(messageTask[o])' /\ WorksOnGone(messageTask[o])'
             /\ CondemnedUnwanted(messageTask[o])' /\ SendsProcessed(messageTask[o])'
 <2> PICK r : r = messageTask[o] OBVIOUS
 <2>1. /\ r \in MessageTaskType /\ MessageTaskShaped(r) /\ WorksOnGone(r) /\ CondemnedUnwanted(r)
       /\ SendsProcessed(r)
   BY MessageTaskTyped DEF MessageIInv, MessageTasksFit
 <2>2. WorksOnGone(r)' /\ CondemnedUnwanted(r)' /\ SendsProcessed(r)' BY <1>2, <2>1
 <2>3. QED BY <1>1, <1>2, <2>1, <2>2
<1>3. QED BY <1>1, <1>2 DEF MessageTasksFit

\* The stages of an attachment after a task's step.
LEMMA StagesMove ==
    ASSUME MessageTypeOK, NEW t \in MessageTask, NEW n \in MessageTaskType, Goes(t, n), NEW a
    PROVE  /\ RowStage(a)' <=> AtRow(n, a) \/ \E o \in MessageTask \ {t} : AtRow(messageTask[o], a)
           /\ MarkStage(a)' <=> AtMark(n, a) \/ \E o \in MessageTask \ {t} : AtMark(messageTask[o], a)
<1>1. messageTask'[t] = n /\ \A o \in MessageTask : o # t => messageTask'[o] = messageTask[o] BY TaskGone
<1>2. QED BY <1>1 DEF RowStage, MarkStage, AtRow, AtMark

\* A deletion's teller stays until it tells.
LEMMA TellersStay ==
    ASSUME MessageTypeOK, NEW t \in MessageTask, NEW n \in MessageTaskType, Goes(t, n),
           messageTask[t].pc # "deleted", NEW x, Telling(x)
    PROVE  Telling(x)'
BY TaskGone DEF Telling

\* What messages say and were told stands while they are left alone.
LEMMA FinalStands ==
    ASSUME MessageTypeOK, MessagesFinal, NEW t \in MessageTask, NEW n \in MessageTaskType, Goes(t, n),
           messageTask[t].pc # "deleted", UNCHANGED <<channelUp, message, revived, misheard>>
    PROVE  MessagesFinal'
<1>1. \A x \in Message : Telling(x) => Telling(x)' BY TellersStay
<1>2. QED BY <1>1 DEF MessagesFinal

\* What a task may go on to: its driver's steps, a rejection of what is unfit.
MayRun(r) ==
    /\ r.pc \in {"head", "reject"} => driver = "r2"
    /\ r.pc = "put" => driver = "local"
    /\ r.pc = "reject" => object[r.at] # "fit"

\* Rejections stand while no object becomes fit under them.
LEMMA RejectsStand ==
    ASSUME MessageTypeOK, RejectsUnfit, NEW t \in MessageTask, NEW n \in MessageTaskType, Goes(t, n), MayRun(n),
           UNCHANGED driver, overwritten \subseteq overwritten',
           \A a \in Attachment : driver = "r2" /\ object'[a] = "fit" => object[a] = "fit"
    PROVE  RejectsUnfit'
<1>1. messageTask'[t] = n /\ \A o \in MessageTask : o # t => messageTask'[o] = messageTask[o] BY TaskGone
<1>2. ASSUME NEW a \in Attachment \ overwritten', RejectStage(a)' PROVE object'[a] # "fit"
 <2>1. PICK o \in MessageTask : messageTask'[o].pc = "reject" /\ messageTask'[o].at = a BY <1>2 DEF RejectStage
 <2>2. driver = "r2" BY <1>1, <2>1 DEF MayRun, RejectsUnfit
 <2>3. object[a] # "fit"
  <3>1. CASE o = t BY <1>1, <2>1, <3>1 DEF MayRun
  <3>2. CASE o # t BY <1>1, <1>2, <2>1, <3>2 DEF RejectsUnfit, RejectStage
  <3>3. QED BY <3>1, <3>2
 <2>4. QED BY <1>2, <2>2, <2>3
<1>3. ASSUME NEW o \in MessageTask
      PROVE  /\ messageTask'[o].pc \in {"head", "reject"} => driver = "r2"
             /\ messageTask'[o].pc = "put" => driver = "local"
  BY <1>1 DEF MayRun, RejectsUnfit
<1>4. QED BY <1>2, <1>3 DEF RejectsUnfit

\* A step that changes its task only, in no attachment's row stage, keeps the invariant
\* if the new task fits and may run.
LEMMA TaskOnlyKeeps ==
    ASSUME MessageIInv, NEW t \in MessageTask, NEW n \in MessageTaskType, Goes(t, n),
           messageTask[t].pc # "deleted",
           UNCHANGED <<driver, channelUp, message, linkedTo, upload, object, url, carried, fought, overwritten,
                       revived, misheard>>,
           leaked \subseteq leaked', leaked' \subseteq Attachment,
           MessageTaskShaped(n), WorksOnGone(n), CondemnedUnwanted(n), SendsProcessed(n), MayRun(n),
           n.pc = "mark" => object[n.at] = "fit", \A a : ~AtRow(n, a) /\ ~AtRow(messageTask[t], a)
    PROVE  MessageIInv'
<1> USE DEF MessageIInv
<1>1. MessageTypeOK'
 <2>1. messageTask' \in [MessageTask -> MessageTaskType] BY TaskGone
 <2>2. QED BY <2>1 DEF MessageTypeOK, MessageTaskType, MessagePc
<1>2. MessageTasksFit'
 <2>1. \A r : (WorksOnGone(r) <=> WorksOnGone(r)') /\ (CondemnedUnwanted(r) <=> CondemnedUnwanted(r)')
              /\ (SendsProcessed(r) <=> SendsProcessed(r)')
   BY DEF WorksOnGone, CondemnedUnwanted, SendsProcessed
 <2>2. QED BY <2>1, TasksStillFit
<1>3. MessagesFinal' /\ RejectsUnfit' BY FinalStands, RejectsStand
<1>4. MessagesKeepTheirAttachments' BY DEF MessagesKeepTheirAttachments
<1>5. \A a : (RowStage(a)' <=> RowStage(a)) /\ (MarkStage(a)' => MarkStage(a) \/ object[a] = "fit")
 <2> TAKE a
 <2>1. RowStage(a) <=> \E o \in MessageTask \ {t} : AtRow(messageTask[o], a) BY DEF RowStage
 <2>2. (\E o \in MessageTask \ {t} : AtMark(messageTask[o], a)) => MarkStage(a) BY DEF MarkStage
 <2>3. AtMark(n, a) => object[a] = "fit" BY DEF AtMark
 <2>4. QED BY <2>1, <2>2, <2>3, StagesMove
<1>6. ProcessedStored' /\ ObjectsHaveRows'
 <2>1. ProcessedStored' BY <1>5 DEF ProcessedStored
 <2>2. ObjectsHaveRows' BY <1>5 DEF ObjectsHaveRows
 <2>3. QED BY <2>1, <2>2
<1>7. QED BY <1>1, <1>2, <1>3, <1>4, <1>6

\* A task that neither is an upload about to be marked nor cleans a row is in no stage.
LEMMA NoStages ==
    ASSUME NEW r, r.pc \notin {"mark", "expirerow", "orphanrow"}
    PROVE  \A a : ~AtRow(r, a) /\ ~AtMark(r, a)
BY DEF AtRow, AtMark

\* Requests that begin: an upload, a completion, a message, an edit, a deletion.
LEMMA RequestsKeep ==
    ASSUME MessageIInv, NEW t \in MessageTask,
           \/ \E a \in Attachment : UploadFile(t, a) \/ Complete(t, a)
           \/ \E atts \in SUBSET Attachment, key \in SendKey \cup {NoSendKey} : Send(t, atts, key)
           \/ \E x \in Message : Edit(t, x) \/ Delete(t, x)
    PROVE  MessageIInv'
<1>1. messageTask[t].pc # "deleted" /\ \A a : ~AtRow(messageTask[t], a)
 <2>1. messageTask[t].pc = "idle" BY DEF UploadFile, Complete, Send, Edit, Delete, Doing
 <2>2. QED BY <2>1 DEF AtRow
<1>2. leaked \subseteq Attachment BY DEF MessageIInv, MessageTypeOK
<1>3. ASSUME NEW a \in Attachment, UploadFile(t, a) \/ Complete(t, a)
      PROVE  MessageIInv'
 <2>1. PICK pc \in {"put", "head"} :
           /\ Goes(t, [Starts(t, pc) EXCEPT !.at = a])
           /\ (pc = "head" => driver = "r2") /\ (pc = "put" => driver = "local")
   BY <1>3 DEF UploadFile, Complete
 <2>2. /\ UNCHANGED <<driver, channelUp, message, linkedTo, upload, object, url, carried, fought, overwritten, revived, misheard>>
       /\ leaked \subseteq leaked' /\ leaked' \subseteq Attachment
   BY <1>2, <1>3 DEF UploadFile, Complete, attachmentRow, messageHistory
 <2> PICK s : s = Starts(t, pc) OBVIOUS
 <2> PICK n : n = [s EXCEPT !.at = a] OBVIOUS
 <2>3. s \in MessageTaskType /\ s.pc = pc /\ s.doomed = {} BY StartFields DEF MessagePc
 <2>4. n \in MessageTaskType /\ n.pc = pc /\ n.at = a /\ n.doomed = {} /\ Goes(t, n)
   BY <2>1, <2>3 DEF MessageTaskType
 <2>5. MessageTaskShaped(n) /\ WorksOnGone(n) /\ CondemnedUnwanted(n) /\ SendsProcessed(n) /\ MayRun(n)
   BY <2>1, <2>4 DEF MessageTaskShaped, WorksOnGone, CondemnedUnwanted, SendsProcessed, Condemned, MayRun
 <2>6. \A b : ~AtRow(n, b) /\ ~AtMark(n, b) BY <2>4, NoStages
 <2>7. QED BY <1>1, <2>2, <2>4, <2>5, <2>6, TaskOnlyKeeps
<1>4. ASSUME NEW atts \in SUBSET Attachment, NEW key \in SendKey \cup {NoSendKey}, Send(t, atts, key)
      PROVE  MessageIInv'
 <2>1. /\ Goes(t, [Starts(t, "find") EXCEPT !.atts = atts, !.key = key])
       /\ \A a \in atts : upload[a] = "processed"
       /\ UNCHANGED <<driver, channelUp, message, linkedTo, upload, object, url, carried, fought, overwritten, leaked, revived,
                      misheard>>
   BY <1>4 DEF Send, attachmentRow, messageHistory
 <2> PICK s : s = Starts(t, "find") OBVIOUS
 <2> PICK n : n = [s EXCEPT !.atts = atts, !.key = key] OBVIOUS
 <2>3. s \in MessageTaskType /\ s.pc = "find" /\ s.doomed = {} BY StartFields DEF MessagePc
 <2>4. n \in MessageTaskType /\ n.pc = "find" /\ n.atts = atts /\ n.doomed = {} /\ Goes(t, n)
   BY <2>1, <2>3 DEF MessageTaskType
 <2>5. MessageTaskShaped(n) /\ WorksOnGone(n) /\ CondemnedUnwanted(n) /\ SendsProcessed(n) /\ MayRun(n)
   BY <2>1, <2>4 DEF MessageTaskShaped, WorksOnGone, CondemnedUnwanted, SendsProcessed, Condemned, MayRun
 <2>6. \A b : ~AtRow(n, b) /\ ~AtMark(n, b) BY <2>4, NoStages
 <2>7. QED BY <1>1, <1>2, <2>1, <2>4, <2>5, <2>6, TaskOnlyKeeps
<1>5. ASSUME NEW x \in Message, Edit(t, x) \/ Delete(t, x)
      PROVE  MessageIInv'
 <2>1. PICK pc \in {"edit", "drop", "select"} :
           /\ Goes(t, [Starts(t, pc) EXCEPT !.msg = x])
           /\ pc = "select" => message[x].state \notin {"live", "none"}
           /\ pc = "edit" => message[x].state = "live"
           /\ pc = "drop" => message[x].state = "live"
   BY <1>5 DEF Edit, Delete
 <2>2. UNCHANGED <<driver, channelUp, message, linkedTo, upload, object, url, carried, fought, overwritten, leaked, revived,
                      misheard>>
   BY <1>5 DEF Edit, Delete, attachmentRow, messageHistory
 <2> PICK s : s = Starts(t, pc) OBVIOUS
 <2> PICK n : n = [s EXCEPT !.msg = x] OBVIOUS
 <2>3. s \in MessageTaskType /\ s.pc = pc /\ s.doomed = {} BY StartFields DEF MessagePc
 <2>4. n \in MessageTaskType /\ n.pc = pc /\ n.msg = x /\ n.doomed = {} /\ Goes(t, n)
   BY <2>1, <2>3 DEF MessageTaskType
 <2>5. message[x].state \in {"none", "live", "deleted"} BY DEF MessageIInv, MessageTypeOK
 <2>6. WorksOnGone(n) BY <2>1, <2>4, <2>5 DEF WorksOnGone
 <2>7. MessageTaskShaped(n) /\ CondemnedUnwanted(n) /\ SendsProcessed(n) /\ MayRun(n)
   BY <2>4 DEF MessageTaskShaped, CondemnedUnwanted, SendsProcessed, Condemned, MayRun
 <2>8. \A b : ~AtRow(n, b) /\ ~AtMark(n, b) BY <2>4, NoStages
 <2>9. QED BY <1>1, <1>2, <2>2, <2>4, <2>6, <2>7, <2>8, TaskOnlyKeeps
<1>6. QED BY <1>3, <1>4, <1>5

\* A task that is over while nothing else changes.
LEMMA OverKeeps ==
    ASSUME MessageIInv, NEW t \in MessageTask, messageTask[t].pc \notin {"deleted", "expirerow", "orphanrow"}, Done(t),
           UNCHANGED <<driver, channelUp, message, linkedTo, upload, object, url, carried, fought, overwritten, leaked, revived,
                      misheard>>
    PROVE  MessageIInv'
<1> PICK n : n = NoMessageTask OBVIOUS
<1>1. n \in MessageTaskType /\ n.pc = "idle" /\ n.doomed = {} /\ Goes(t, n) BY OverFields DEF Done
<1>2. /\ MessageTaskShaped(n) /\ WorksOnGone(n) /\ CondemnedUnwanted(n) /\ SendsProcessed(n) /\ MayRun(n)
      /\ \A a : ~AtRow(n, a)
  BY <1>1 DEF MessageTaskShaped, WorksOnGone, CondemnedUnwanted, SendsProcessed, Condemned, AtRow, MayRun
<1>3. \A a : ~AtRow(messageTask[t], a) BY DEF AtRow
<1>4. leaked \subseteq leaked' /\ leaked' \subseteq Attachment BY DEF MessageIInv, MessageTypeOK
<1>5. QED BY <1>1, <1>2, <1>3, <1>4, TaskOnlyKeeps

\* A send whose key is new goes on with the attachments it checked.
LEMMA FindKeyKeeps == ASSUME MessageIInv, NEW t \in MessageTask, FindKey(t) PROVE MessageIInv'
<1>1. /\ messageTask[t].pc = "find"
      /\ UNCHANGED <<driver, channelUp, message, linkedTo, upload, object, url, carried, fought, overwritten, leaked, revived,
                      misheard>>
  BY DEF FindKey, Doing, attachmentRow, messageHistory
<1> PICK q : q = messageTask[t] OBVIOUS
<1> PICK n : n = [q EXCEPT !.pc = "insert"] OBVIOUS
<1>2. CASE KeyTaken(q.key) BY <1>1, <1>2, OverKeeps DEF FindKey
<1>3. CASE ~KeyTaken(q.key)
 <2>1. q \in MessageTaskType /\ MessageTaskShaped(q) /\ SendsProcessed(q) /\ Goes(t, n)
   BY <1>3, MessageTaskTyped DEF MessageIInv, MessageTasksFit, FindKey
 <2>2. n \in MessageTaskType /\ n.pc = "insert" /\ n.atts = q.atts /\ n.doomed = q.doomed
   BY <2>1 DEF MessageTaskType, MessagePc
 <2>3. MessageTaskShaped(n) /\ WorksOnGone(n) /\ CondemnedUnwanted(n) /\ SendsProcessed(n) /\ MayRun(n)
   BY <1>1, <2>1, <2>2 DEF MessageTaskShaped, WorksOnGone, CondemnedUnwanted, SendsProcessed, Condemned, MayRun
 <2>4. \A a : ~AtRow(n, a) /\ ~AtRow(messageTask[t], a) BY <1>1, <2>2 DEF AtRow
 <2>5. leaked \subseteq leaked' /\ leaked' \subseteq Attachment BY <1>1 DEF MessageIInv, MessageTypeOK
 <2>6. QED BY <1>1, <2>1, <2>2, <2>3, <2>4, <2>5, TaskOnlyKeeps
<1>4. QED BY <1>2, <1>3

\* A clean-up selects attachments of deleted messages, or of none.
LEMMA CondemnKeeps ==
    ASSUME MessageIInv, NEW t \in MessageTask, messageTask[t].pc \notin {"deleted", "expirerow", "orphanrow"},
           NEW pc \in {"expire", "orphan"}, NEW messages \in SUBSET (Message \cup {NoMessage}),
           channelUp => \A x \in messages : x \in Message => message[x].state = "deleted",
           NEW doomed \in SUBSET LinkedIn(messages), Condemn(t, pc, doomed)
    PROVE  MessageIInv'
<1>1. /\ Goes(t, [Starts(t, pc) EXCEPT !.doomed = doomed])
      /\ UNCHANGED <<driver, channelUp, message, linkedTo, upload, object, url, carried, fought, overwritten, revived, misheard>>
      /\ leaked \subseteq leaked' /\ leaked' \subseteq Attachment
  BY DEF Condemn, attachmentRow, MessageIInv, MessageTypeOK
<1> PICK s : s = Starts(t, pc) OBVIOUS
<1> PICK n : n = [s EXCEPT !.doomed = doomed] OBVIOUS
<1>2. s \in MessageTaskType /\ s.pc = pc BY StartFields DEF MessagePc
<1>3. /\ doomed \subseteq Attachment \X (Message \cup {NoMessage})
      /\ \A a, x : <<a, x>> \in doomed => x \in messages /\ linkedTo[a] = x
  BY DEF LinkedIn
<1>4. n \in MessageTaskType /\ n.pc = pc /\ n.doomed = doomed /\ Goes(t, n)
  BY <1>1, <1>2, <1>3 DEF MessageTaskType
<1>5. CondemnedUnwanted(n) BY <1>3, <1>4 DEF CondemnedUnwanted, Condemned
<1>6. MessageTaskShaped(n) /\ WorksOnGone(n) /\ SendsProcessed(n) /\ MayRun(n)
  BY <1>4 DEF MessageTaskShaped, WorksOnGone, SendsProcessed, MayRun
<1>7. \A a : ~AtRow(n, a) /\ ~AtRow(messageTask[t], a) BY <1>4 DEF AtRow
<1>8. QED BY <1>1, <1>4, <1>5, <1>6, <1>7, TaskOnlyKeeps

\* The three clean-ups begin so.
LEMMA CleanUpsKeep ==
    ASSUME MessageIInv, NEW t \in MessageTask,
           DeleteMessageAttachments(t) \/ DeleteExpired(t) \/ DeleteOrphaned(t) \/ CleanUpEnds(t)
    PROVE  MessageIInv'
<1>1. CASE DeleteMessageAttachments(t)
 <2> PICK x : x = messageTask[t].msg OBVIOUS
 <2>1. messageTask[t].pc = "select" /\ Condemn(t, "expire", LinkedIn({x}))
   BY <1>1 DEF DeleteMessageAttachments, Doing
 <2>2. x \in Message /\ (channelUp => message[x].state = "deleted")
   BY <2>1 DEF MessageIInv, MessageTasksFit, MessageTaskShaped, WorksOnGone
 <2>3. QED BY <2>1, <2>2, CondemnKeeps
<1>2. CASE DeleteExpired(t)
 <2> PICK xs : xs = {x \in Message : message[x].state = "deleted"} OBVIOUS
 <2>1. messageTask[t].pc = "idle" /\ Condemn(t, "expire", LinkedIn(xs)) BY <1>2 DEF DeleteExpired, Doing
 <2>2. xs \in SUBSET (Message \cup {NoMessage}) /\ \A x \in xs : message[x].state = "deleted" OBVIOUS
 <2>3. QED BY <2>1, <2>2, CondemnKeeps
<1>3. CASE DeleteOrphaned(t)
 <2>1. PICK old \in SUBSET LinkedIn({NoMessage}) : Condemn(t, "orphan", old) BY <1>3 DEF DeleteOrphaned
 <2>2. messageTask[t].pc = "idle" /\ {NoMessage} \in SUBSET (Message \cup {NoMessage})
   BY <1>3 DEF DeleteOrphaned, Doing
 <2>3. \A x \in {NoMessage} : x \in Message => message[x].state = "deleted" BY MessageAssumption
 <2>4. QED BY <2>1, <2>2, <2>3, CondemnKeeps
<1>4. CASE CleanUpEnds(t) BY <1>4, OverKeeps DEF CleanUpEnds, attachmentRow, messageHistory
<1>5. QED BY <1>1, <1>2, <1>3, <1>4

\* What a clean-up has still to deal with is being cleaned.
LEMMA CondemnedCleaned ==
    ASSUME MessageTypeOK, NEW t \in MessageTask, NEW a
    PROVE  /\ \A x : <<a, x>> \in Condemned(messageTask[t]) => Cleaning(a)
           /\ AtRow(messageTask[t], a) => Cleaning(a)
<1>1. ASSUME NEW o \in MessageTask
      PROVE  /\ \A x : <<a, x>> \in Condemned(messageTask[o]) => a \in Doomed(o)
             /\ AtRow(messageTask[o], a) => a \in Doomed(o)
 <2> PICK r : r = messageTask[o] OBVIOUS
 <2>1. ASSUME NEW x, <<a, x>> \in r.doomed PROVE a \in {pair[1] : pair \in r.doomed}
  <3>1. <<a, x>>[1] = a OBVIOUS
  <3>2. QED BY <2>1, <3>1
 <2>2. ASSUME NEW x, <<a, x>> \in Condemned(r), <<a, x>> \notin r.doomed
       PROVE  r.pc \in {"expirerow", "orphanrow"} /\ r.at = a
   BY <2>2 DEF Condemned
 <2>3. QED BY <2>1, <2>2 DEF Doomed, AtRow
<1>2. QED BY <1>1 DEF Cleaning

\* An attachment in its row stage is being cleaned.
LEMMA RowStageCleaned == ASSUME MessageTypeOK, NEW a, RowStage(a) PROVE Cleaning(a)
BY CondemnedCleaned DEF RowStage

\* A live message has a channel, and no clean-up wants what it carries.
LEMMA LiveUnwanted ==
    ASSUME MessageIInv, NEW x \in Message, message[x].state = "live", NEW a \in carried[x] \ fought,
           NEW t \in MessageTask, NEW y \in Message \cup {NoMessage}
    PROVE  channelUp /\ a \in Attachment /\ <<a, y>> \notin Condemned(messageTask[t])
<1>1. channelUp BY DEF MessageIInv, MessagesFinal
<1>2. a \in Attachment BY DEF MessageIInv, MessageTypeOK
<1>3. linkedTo[a] = x /\ upload[a] = "processed" BY DEF MessageIInv, MessagesKeepTheirAttachments
<1>4. CondemnedUnwanted(messageTask[t]) BY DEF MessageIInv, MessageTasksFit
<1>5. QED BY <1>1, <1>2, <1>3, <1>4 DEF CondemnedUnwanted

\* An upload goes on to its mark, its object stored.
LEMMA PutObjectKeeps == ASSUME MessageIInv, NEW t \in MessageTask, PutObject(t) PROVE MessageIInv'
<1> USE DEF MessageIInv
<1> PICK q : q = messageTask[t] OBVIOUS
<1> PICK n : n = [q EXCEPT !.pc = "mark"] OBVIOUS
<1>1. /\ q.pc = "put" /\ object' = [object EXCEPT ![q.at] = "fit"] /\ Goes(t, n)
      /\ leaked' = IF Cleaning(q.at) \/ upload[q.at] = "none" THEN leaked \cup {q.at} ELSE leaked
      /\ UNCHANGED <<driver, channelUp, message, linkedTo, upload, url, carried, fought, overwritten, revived, misheard>>
  BY DEF PutObject, Doing, attachmentRow
<1>2. q \in MessageTaskType /\ MessageTaskShaped(q) BY MessageTaskTyped DEF MessageTasksFit
<1>3. q.at \in Attachment /\ q.doomed = {} BY <1>1, <1>2 DEF MessageTaskShaped
<1>4. n \in MessageTaskType /\ n.pc = "mark" /\ n.at = q.at /\ n.doomed = {}
  BY <1>2, <1>3 DEF MessageTaskType, MessagePc
<1>5. object' \in [Attachment -> {"absent", "fit", "unfit"}] /\ object'[q.at] = "fit"
      /\ \A a \in Attachment : a # q.at => object'[a] = object[a]
  BY <1>1, <1>3 DEF MessageTypeOK
<1>6. MessageTypeOK'
 <2>1. messageTask' \in [MessageTask -> MessageTaskType] BY <1>1, <1>4, TaskGone
 <2>2. leaked' \subseteq Attachment BY <1>1, <1>3 DEF MessageTypeOK
 <2>3. QED BY <1>1, <1>5, <2>1, <2>2 DEF MessageTypeOK, MessageTaskType, MessagePc
<1>7. MessageTasksFit'
 <2>1. \A r : (WorksOnGone(r) <=> WorksOnGone(r)') /\ (CondemnedUnwanted(r) <=> CondemnedUnwanted(r)')
              /\ (SendsProcessed(r) <=> SendsProcessed(r)')
   BY <1>1 DEF WorksOnGone, CondemnedUnwanted, SendsProcessed
 <2>2. MessageTaskShaped(n) /\ WorksOnGone(n)' /\ CondemnedUnwanted(n)' /\ SendsProcessed(n)'
   BY <1>3, <1>4 DEF MessageTaskShaped, WorksOnGone, CondemnedUnwanted, SendsProcessed, Condemned
 <2>3. QED BY <1>1, <1>4, <2>1, <2>2, TasksStillFit
<1>8. MessagesFinal' BY <1>1, <1>4, FinalStands
<1>9. ASSUME NEW a \in Attachment
      PROVE  /\ RowStage(a)' <=> RowStage(a)
             /\ a # q.at => (MarkStage(a)' <=> MarkStage(a))
 <2>1. ~AtRow(n, a) /\ ~AtRow(q, a) /\ ~AtMark(q, a) /\ (a # q.at => ~AtMark(n, a))
   BY <1>1, <1>4 DEF AtRow, AtMark
 <2>2. /\ RowStage(a) <=> \E o \in MessageTask \ {t} : AtRow(messageTask[o], a)
       /\ MarkStage(a) <=> \E o \in MessageTask \ {t} : AtMark(messageTask[o], a)
   BY <2>1 DEF RowStage, MarkStage
 <2>3. QED BY <1>1, <1>4, <2>1, <2>2, StagesMove
<1>10. ProcessedStored' BY <1>1, <1>5, <1>9 DEF ProcessedStored
<1>11. ObjectsHaveRows'
 <2>1. q.at \notin leaked' => ~RowStage(q.at) /\ upload[q.at] # "none" BY <1>1, RowStageCleaned
 <2>2. leaked \subseteq leaked' BY <1>1
 <2>3. QED BY <1>1, <1>3, <1>5, <1>9, <2>1, <2>2 DEF ObjectsHaveRows
<1>12. MessagesKeepTheirAttachments'
 <2>1. \A x \in Message : carried[x] \subseteq Attachment BY DEF MessageTypeOK
 <2>2. QED BY <1>1, <1>5, <2>1 DEF MessagesKeepTheirAttachments
<1>13. RejectsUnfit'
 <2>1. MayRun(n) /\ driver = "local" BY <1>1, <1>4 DEF MayRun, RejectsUnfit
 <2>2. QED BY <1>1, <1>4, <2>1, RejectsStand
<1>14. QED BY <1>6, <1>7, <1>8, <1>10, <1>11, <1>12, <1>13

\* A completion finds a fit object, or one to reject, or gives up.
LEMMA HeadObjectKeeps == ASSUME MessageIInv, NEW t \in MessageTask, HeadObject(t) PROVE MessageIInv'
<1> PICK q : q = messageTask[t] OBVIOUS
<1>1. /\ q.pc = "head"
      /\ UNCHANGED <<driver, channelUp, message, linkedTo, upload, object, url, carried, fought, overwritten, leaked,
                     revived, misheard>>
  BY DEF HeadObject, Doing, attachmentRow, messageHistory
<1>2. q \in MessageTaskType /\ MessageTaskShaped(q) /\ driver = "r2"
  BY <1>1, MessageTaskTyped DEF MessageIInv, MessageTasksFit, RejectsUnfit
<1>3. ASSUME NEW pc \in {"mark", "reject"}, Goes(t, [q EXCEPT !.pc = pc]),
             object[q.at] = IF pc = "mark" THEN "fit" ELSE "unfit"
      PROVE  MessageIInv'
 <2> PICK n : n = [q EXCEPT !.pc = pc] OBVIOUS
 <2>1. n \in MessageTaskType /\ n.pc = pc /\ n.at = q.at /\ n.doomed = q.doomed /\ Goes(t, n)
   BY <1>2, <1>3 DEF MessageTaskType, MessagePc
 <2>2. MessageTaskShaped(n) /\ WorksOnGone(n) /\ CondemnedUnwanted(n) /\ SendsProcessed(n) /\ MayRun(n)
   BY <1>1, <1>2, <1>3, <2>1
      DEF MessageTaskShaped, WorksOnGone, CondemnedUnwanted, SendsProcessed, Condemned, MayRun
 <2>3. \A a : ~AtRow(n, a) /\ ~AtRow(q, a) BY <1>1, <2>1 DEF AtRow
 <2>4. leaked \subseteq leaked' /\ leaked' \subseteq Attachment BY <1>1 DEF MessageIInv, MessageTypeOK
 <2>5. QED BY <1>1, <1>3, <2>1, <2>2, <2>3, <2>4, TaskOnlyKeeps
<1>4. CASE Done(t) BY <1>1, <1>4, OverKeeps
<1>5. QED BY <1>3, <1>4 DEF HeadObject

\* What is rejected had not been taken for fit, unless the browser put it since.
LEMMA RejectObjectKeeps == ASSUME MessageIInv, NEW t \in MessageTask, RejectObject(t) PROVE MessageIInv'
<1> USE DEF MessageIInv
<1> PICK q : q = messageTask[t] OBVIOUS
<1> PICK n : n = NoMessageTask OBVIOUS
<1>1. /\ q.pc = "reject" /\ Goes(t, n)
      /\ \E left \in {"absent", object[q.at]} : object' = [object EXCEPT ![q.at] = left]
      /\ UNCHANGED <<driver, channelUp, message, linkedTo, upload, url, carried, fought, overwritten, leaked,
                     revived, misheard>>
  BY DEF RejectObject, Doing, Done, attachmentRow, messageHistory
<1>2. q.at \in Attachment /\ (q.at \notin overwritten => object[q.at] # "fit")
  BY <1>1 DEF MessageTasksFit, MessageTaskShaped, RejectsUnfit, RejectStage
<1>3. n \in MessageTaskType /\ n.pc = "idle" /\ n.doomed = {} /\ MayRun(n) BY OverFields DEF MayRun
<1>4. /\ object' \in [Attachment -> {"absent", "fit", "unfit"}]
      /\ \A a \in Attachment : a # q.at => object'[a] = object[a]
      /\ object'[q.at] \in {"absent", object[q.at]}
 <2>1. PICK left \in {"absent", object[q.at]} : object' = [object EXCEPT ![q.at] = left] BY <1>1
 <2>2. object \in [Attachment -> {"absent", "fit", "unfit"}] BY DEF MessageTypeOK
 <2>3. QED BY <1>2, <2>1, <2>2
<1>5. MessageTypeOK'
 <2>1. messageTask' \in [MessageTask -> MessageTaskType] BY <1>1, <1>3, TaskGone
 <2>2. QED BY <1>1, <1>4, <2>1 DEF MessageTypeOK, MessageTaskType, MessagePc
<1>6. MessageTasksFit'
 <2>1. \A r : (WorksOnGone(r) <=> WorksOnGone(r)') /\ (CondemnedUnwanted(r) <=> CondemnedUnwanted(r)')
              /\ (SendsProcessed(r) <=> SendsProcessed(r)')
   BY <1>1 DEF WorksOnGone, CondemnedUnwanted, SendsProcessed
 <2>2. MessageTaskShaped(n) /\ WorksOnGone(n)' /\ CondemnedUnwanted(n)' /\ SendsProcessed(n)'
   BY <1>3, IdleTaskFits
 <2>3. QED BY <1>1, <1>3, <2>1, <2>2, TasksStillFit
<1>7. MessagesFinal' /\ RejectsUnfit'
 <2>1. MessagesFinal' BY <1>1, <1>3, FinalStands
 <2>2. \A a \in Attachment : object'[a] = "fit" => object[a] = "fit" BY <1>4
 <2>3. RejectsUnfit' BY <1>1, <1>3, <2>2, RejectsStand
 <2>4. QED BY <2>1, <2>3
<1>8. \A a \in Attachment : (RowStage(a)' <=> RowStage(a)) /\ (MarkStage(a)' <=> MarkStage(a))
 <2> TAKE a \in Attachment
 <2>1. ~AtRow(n, a) /\ ~AtRow(q, a) /\ ~AtMark(q, a) /\ ~AtMark(n, a) BY <1>1, <1>3 DEF AtRow, AtMark
 <2>2. /\ RowStage(a) <=> \E o \in MessageTask \ {t} : AtRow(messageTask[o], a)
       /\ MarkStage(a) <=> \E o \in MessageTask \ {t} : AtMark(messageTask[o], a)
   BY <2>1 DEF RowStage, MarkStage
 <2>3. QED BY <1>1, <1>3, <2>1, <2>2, StagesMove
<1>9. ASSUME NEW a \in Attachment \ overwritten, object[a] = "fit" PROVE object'[a] = "fit" BY <1>2, <1>4, <1>9
<1>10. ProcessedStored' BY <1>1, <1>8, <1>9 DEF ProcessedStored
<1>11. ObjectsHaveRows' BY <1>1, <1>4, <1>8 DEF ObjectsHaveRows
<1>12. MessagesKeepTheirAttachments'
 <2>1. \A x \in Message : carried[x] \subseteq Attachment BY DEF MessageTypeOK
 <2>2. QED BY <1>1, <1>9, <2>1 DEF MessagesKeepTheirAttachments
<1>13. QED BY <1>5, <1>6, <1>7, <1>10, <1>11, <1>12

\* A mark finds its object stored, unless a clean-up has come between.
LEMMA MarkKeeps == ASSUME MessageIInv, NEW t \in MessageTask, MarkProcessed(t) PROVE MessageIInv'
<1> USE DEF MessageIInv
<1> PICK q : q = messageTask[t] OBVIOUS
<1> PICK n : n = NoMessageTask OBVIOUS
<1>1. /\ q.pc = "mark" /\ Goes(t, n)
      /\ upload' = IF upload[q.at] = "none" THEN upload ELSE [upload EXCEPT ![q.at] = "processed"]
      /\ UNCHANGED <<driver, channelUp, message, linkedTo, object, url, carried, fought, overwritten, leaked, revived,
                      misheard>>
  BY DEF MarkProcessed, Doing, Done, messageHistory
<1>2. q \in MessageTaskType /\ MessageTaskShaped(q) BY MessageTaskTyped DEF MessageTasksFit
<1>3. q.at \in Attachment BY <1>1, <1>2 DEF MessageTaskShaped
<1>4. n \in MessageTaskType /\ n.pc = "idle" /\ n.doomed = {} BY OverFields
<1>5. /\ upload' \in [Attachment -> {"none", "prepared", "processed"}]
      /\ \A a \in Attachment : upload'[a] = upload[a] \/ (a = q.at /\ upload[a] # "none" /\ upload'[a] = "processed")
  BY <1>1, <1>3 DEF MessageTypeOK
<1>6. MessageTypeOK'
 <2>1. messageTask' \in [MessageTask -> MessageTaskType] BY <1>1, <1>4, TaskGone
 <2>3. QED BY <1>1, <1>5, <2>1 DEF MessageTypeOK, MessageTaskType, MessagePc
<1>7. MessageTasksFit'
 <2>1. ASSUME NEW r \in MessageTaskType
       PROVE  /\ WorksOnGone(r) => WorksOnGone(r)'
              /\ CondemnedUnwanted(r) => CondemnedUnwanted(r)'
              /\ SendsProcessed(r) => SendsProcessed(r)'
  <3>1. WorksOnGone(r) => WorksOnGone(r)' BY <1>1 DEF WorksOnGone
  <3>2. CondemnedUnwanted(r) => CondemnedUnwanted(r)' BY <1>1, <1>5 DEF CondemnedUnwanted
  <3>3. SendsProcessed(r) => SendsProcessed(r)' BY <1>5, MessageTaskFields DEF SendsProcessed
  <3>4. QED BY <3>1, <3>2, <3>3
 <2>2. MessageTaskShaped(n) /\ WorksOnGone(n)' /\ CondemnedUnwanted(n)' /\ SendsProcessed(n)'
   BY <1>4, IdleTaskFits
 <2>3. QED BY <1>1, <1>4, <2>1, <2>2, TasksStillFit
<1>8. MessagesFinal' /\ RejectsUnfit'
 <2>1. MayRun(n) BY <1>4 DEF MayRun
 <2>2. QED BY <1>1, <1>4, <2>1, FinalStands, RejectsStand
<1>9. ASSUME NEW a \in Attachment
      PROVE  /\ RowStage(a)' <=> RowStage(a)
             /\ MarkStage(a)' => MarkStage(a)
             /\ MarkStage(q.at)
 <2>1. ~AtRow(n, a) /\ ~AtRow(q, a) /\ ~AtMark(n, a) /\ AtMark(q, q.at) BY <1>1, <1>4 DEF AtRow, AtMark
 <2>3. /\ RowStage(a) <=> \E o \in MessageTask \ {t} : AtRow(messageTask[o], a)
       /\ (\E o \in MessageTask \ {t} : AtMark(messageTask[o], a)) => MarkStage(a)
       /\ MarkStage(q.at)
   BY <2>1 DEF RowStage, MarkStage
 <2>4. QED BY <1>1, <1>4, <2>1, <2>3, StagesMove
<1>10. ProcessedStored' BY <1>1, <1>5, <1>9 DEF ProcessedStored
<1>11. ObjectsHaveRows' BY <1>1, <1>5, <1>9 DEF ObjectsHaveRows
<1>12. MessagesKeepTheirAttachments'
 <2>1. \A x \in Message : carried[x] \subseteq Attachment BY DEF MessageTypeOK
 <2>2. QED BY <1>1, <1>5, <2>1 DEF MessagesKeepTheirAttachments
<1>13. QED BY <1>6, <1>7, <1>8, <1>10, <1>11, <1>12

\* A new attachment's id is nobody's.
LEMMA PrepareKeeps == ASSUME MessageIInv, NEW b \in Attachment, Prepare(b) PROVE MessageIInv'
<1> USE DEF MessageIInv
<1>1. /\ upload[b] = "none" /\ ~Cleaning(b) /\ upload' = [upload EXCEPT ![b] = "prepared"]
      /\ \A t \in MessageTask : messageTask[t].at # b /\ b \notin messageTask[t].atts
      /\ url' \subseteq url \cup {b}
      /\ UNCHANGED <<driver, channelUp, message, linkedTo, object, messageTask, carried, fought, overwritten, leaked,
                     revived, misheard>>
  BY DEF Prepare, messageHistory
<1>2. /\ upload' \in [Attachment -> {"none", "prepared", "processed"}] /\ upload'[b] = "prepared"
      /\ \A a \in Attachment : a # b => upload'[a] = upload[a]
  BY <1>1 DEF MessageTypeOK
<1>3. MessageTypeOK'
 <2>1. url' \subseteq Attachment BY <1>1 DEF MessageTypeOK
 <2>2. QED BY <1>1, <1>2, <2>1 DEF MessageTypeOK
<1>4. MessageTasksFit'
 <2>1. ASSUME NEW o \in MessageTask
       PROVE  /\ MessageTaskShaped(messageTask[o])' /\ WorksOnGone(messageTask[o])'
              /\ CondemnedUnwanted(messageTask[o])' /\ SendsProcessed(messageTask[o])'
  <3> PICK r : r = messageTask[o] OBVIOUS
  <3>1. /\ r \in MessageTaskType /\ MessageTaskShaped(r) /\ WorksOnGone(r) /\ CondemnedUnwanted(r)
        /\ SendsProcessed(r) /\ messageTask'[o] = r
    BY <1>1, MessageTaskTyped DEF MessageTasksFit
  <3>2. WorksOnGone(r)' BY <1>1, <3>1 DEF WorksOnGone
  <3>3. \A x : <<b, x>> \notin Condemned(r) BY <1>1, CondemnedCleaned
  <3>4. CondemnedUnwanted(r)' BY <1>1, <1>2, <3>1, <3>3 DEF CondemnedUnwanted
  <3>5. b \notin r.atts /\ r.atts \subseteq Attachment BY <1>1, <3>1, MessageTaskFields
  <3>6. SendsProcessed(r)' BY <1>2, <3>1, <3>5 DEF SendsProcessed
  <3>7. QED BY <3>1, <3>2, <3>4, <3>6
 <2>2. QED BY <2>1 DEF MessageTasksFit
<1>5. MessagesFinal' /\ RejectsUnfit'
 <2>1. MessagesFinal' BY <1>1 DEF MessagesFinal, Telling
 <2>2. QED BY <1>1, <2>1 DEF RejectsUnfit, RejectStage
<1>6. \A a : (RowStage(a)' <=> RowStage(a)) /\ (MarkStage(a)' <=> MarkStage(a))
  BY <1>1 DEF RowStage, MarkStage, AtRow, AtMark
<1>7. ~MarkStage(b) BY <1>1 DEF MarkStage, AtMark
<1>8. ProcessedStored' BY <1>1, <1>2, <1>6, <1>7 DEF ProcessedStored
<1>9. ObjectsHaveRows' BY <1>1, <1>2, <1>6 DEF ObjectsHaveRows
<1>10. MessagesKeepTheirAttachments'
 <2>1. \A x \in Message : carried[x] \subseteq Attachment BY DEF MessageTypeOK
 <2>2. QED BY <1>1, <1>2, <2>1 DEF MessagesKeepTheirAttachments
<1>11. QED BY <1>3, <1>4, <1>5, <1>8, <1>9, <1>10

\* What the browser puts counts as overwritten once a check has read the object, and as
\* leaked once the clean-up is about.
LEMMA BrowserPutKeeps == ASSUME MessageIInv, NEW b \in Attachment, BrowserPut(b) PROVE MessageIInv'
<1> USE DEF MessageIInv
<1>1. /\ \E kind \in {"fit", "unfit"} : object' = [object EXCEPT ![b] = kind]
      /\ overwritten' = IF upload[b] = "processed" \/ Checked(b) THEN overwritten \cup {b} ELSE overwritten
      /\ leaked' = IF upload[b] = "none" \/ Cleaning(b) THEN leaked \cup {b} ELSE leaked
      /\ UNCHANGED <<driver, channelUp, message, linkedTo, upload, url, messageTask, carried, fought, revived,
                     misheard>>
  BY DEF BrowserPut, attachmentRow
<1>2. /\ object' \in [Attachment -> {"absent", "fit", "unfit"}]
      /\ \A a \in Attachment : a # b => object'[a] = object[a]
 <2>1. PICK kind \in {"fit", "unfit"} : object' = [object EXCEPT ![b] = kind] BY <1>1
 <2>2. object \in [Attachment -> {"absent", "fit", "unfit"}] BY DEF MessageTypeOK
 <2>3. QED BY <2>1, <2>2
<1>3. /\ overwritten \subseteq overwritten' /\ overwritten' \subseteq Attachment
      /\ leaked \subseteq leaked' /\ leaked' \subseteq Attachment
      /\ b \notin overwritten' => upload[b] # "processed" /\ ~MarkStage(b) /\ ~RejectStage(b)
      /\ b \notin leaked' => upload[b] # "none" /\ ~RowStage(b)
 <2>1. ~Checked(b) => ~MarkStage(b) /\ ~RejectStage(b) BY DEF Checked, MarkStage, AtMark, RejectStage
 <2>2. QED BY <1>1, <2>1, RowStageCleaned DEF MessageTypeOK
<1>4. MessageTypeOK' BY <1>1, <1>2, <1>3 DEF MessageTypeOK
<1>5. MessageTasksFit'
 <2>1. \A r : (WorksOnGone(r) <=> WorksOnGone(r)') /\ (CondemnedUnwanted(r) <=> CondemnedUnwanted(r)')
              /\ (SendsProcessed(r) <=> SendsProcessed(r)')
   BY <1>1 DEF WorksOnGone, CondemnedUnwanted, SendsProcessed
 <2>2. QED BY <1>1, <2>1 DEF MessageTasksFit
<1>6. MessagesFinal' BY <1>1 DEF MessagesFinal, Telling
<1>7. \A a : (RowStage(a)' <=> RowStage(a)) /\ (MarkStage(a)' <=> MarkStage(a)) /\ (RejectStage(a)' <=> RejectStage(a))
  BY <1>1 DEF RowStage, MarkStage, AtRow, AtMark, RejectStage
<1>8. ProcessedStored' BY <1>1, <1>2, <1>3, <1>7 DEF ProcessedStored
<1>9. RejectsUnfit' BY <1>1, <1>2, <1>3, <1>7 DEF RejectsUnfit
<1>10. ObjectsHaveRows' BY <1>1, <1>2, <1>3, <1>7 DEF ObjectsHaveRows
<1>11. MessagesKeepTheirAttachments'
 <2>1. ASSUME NEW x \in Message, message[x].state = "live", NEW a \in carried[x] \ fought, a \notin overwritten'
       PROVE  object'[a] = "fit"
  <3>1. a \in Attachment /\ a \notin overwritten /\ upload[a] = "processed" /\ object[a] = "fit"
    BY <1>3, <2>1 DEF MessagesKeepTheirAttachments, MessageTypeOK
  <3>2. QED BY <1>2, <1>3, <2>1, <3>1
 <2>2. QED BY <1>1, <2>1 DEF MessagesKeepTheirAttachments
<1>12. QED BY <1>4, <1>5, <1>6, <1>8, <1>9, <1>10, <1>11

\* Only states of messages, and whom a deletion met, matter to what a request works on.
LEMMA StatesMatter ==
    ASSUME MessageTypeOK, NEW r \in MessageTaskType, MessageTaskShaped(r),
           channelUp' => channelUp, revived \subseteq revived', misheard \subseteq misheard',
           \A x \in Message : channelUp' =>
               /\ message[x].state # "none" => message'[x].state # "none"
               /\ message[x].state = "deleted" => message'[x].state = "deleted",
           \A x \in Message : (r.msg = x /\ message'[x].state = "deleted") =>
               \/ message[x].state = "deleted"
               \/ /\ r.pc = "edit" => x \in revived'
                  /\ r.pc \in {"created", "edit", "updated"} => x \in misheard'
    PROVE  WorksOnGone(r) => WorksOnGone(r)'
<1> SUFFICES ASSUME WorksOnGone(r) PROVE WorksOnGone(r)' OBVIOUS
<1>1. r.pc \in {"created", "edit", "updated", "drop", "deleted", "select"} => r.msg \in Message
  BY DEF MessageTaskShaped
<1>2. QED BY <1>1 DEF WorksOnGone

\* An insert brings a message to life with what it carries.
LEMMA InsertKeeps == ASSUME MessageIInv, NEW t \in MessageTask, Insert(t) PROVE MessageIInv'
<1> USE DEF MessageIInv
<1> PICK q : q = messageTask[t] OBVIOUS
<1>1. q.pc = "insert" /\ UNCHANGED <<driver, channelUp, upload, object, url, overwritten, leaked, revived, misheard>>
  BY DEF Insert, Doing
<1>2. CASE KeyTaken(q.key) \/ ~channelUp \/ \E a \in q.atts : upload[a] = "none"
 <2>1. Done(t) /\ UNCHANGED <<message, linkedTo, carried, fought>> BY <1>2 DEF Insert
 <2>2. QED BY <1>1, <2>1, OverKeeps
<1>3. CASE ~(KeyTaken(q.key) \/ ~channelUp \/ \E a \in q.atts : upload[a] = "none")
 <2>1. PICK x \in Message :
           /\ message[x].state = "none" /\ carried[x] = {}
           /\ message' = [message EXCEPT ![x] =
                  [state |-> "live", key |-> q.key, content |-> "sent", told |-> ""]]
           /\ linkedTo' = [a \in Attachment |-> IF a \in q.atts THEN x ELSE linkedTo[a]]
           /\ carried' = [carried EXCEPT ![x] = q.atts]
           /\ fought' = fought \cup {a \in q.atts : linkedTo[a] # NoMessage \/ Cleaning(a)}
           /\ Goes(t, [Starts(t, "created") EXCEPT !.msg = x])
   BY <1>3 DEF Insert
 <2>2. /\ q \in MessageTaskType /\ q.atts \subseteq Attachment /\ q.key \in SendKey \cup {NoSendKey}
       /\ SendsProcessed(q) /\ channelUp /\ \A a \in q.atts : upload[a] # "none"
   BY <1>3, MessageTaskTyped, MessageTaskFields DEF MessageTasksFit
 <2> PICK n : n = [Starts(t, "created") EXCEPT !.msg = x] OBVIOUS
 <2>3. n \in MessageTaskType /\ n.pc = "created" /\ n.doomed = {} /\ n.msg = x /\ Goes(t, n)
  <3> PICK s : s = Starts(t, "created") OBVIOUS
  <3>1. s \in MessageTaskType /\ s.pc = "created" /\ s.doomed = {} BY StartFields DEF MessagePc
  <3>2. QED BY <2>1, <3>1 DEF MessageTaskType
 <2>4. /\ \A a \in q.atts : linkedTo'[a] = x
       /\ \A a \in Attachment : a \notin q.atts => linkedTo'[a] = linkedTo[a]
       /\ linkedTo' \in [Attachment -> Message \cup {NoMessage}]
       /\ carried' \in [Message -> SUBSET Attachment] /\ carried'[x] = q.atts
       /\ \A y \in Message : y # x => carried'[y] = carried[y] /\ message'[y] = message[y]
       /\ message'[x].state = "live"
       /\ fought \subseteq fought' /\ fought' \subseteq Attachment
       /\ \A a \in q.atts : a \notin fought' => linkedTo[a] = NoMessage /\ ~Cleaning(a)
   BY <2>1, <2>2 DEF MessageTypeOK
 <2>5. MessageTypeOK'
  <3>1. messageTask' \in [MessageTask -> MessageTaskType] BY <2>3, TaskGone
  <3>2. [state |-> "live", key |-> q.key, content |-> "sent", told |-> ""] \in
            [state : {"none", "live", "deleted"}, key : SendKey \cup {NoSendKey},
             content : {"", "sent", "edited"}, told : {"", "created", "updated", "deleted"}]
    BY <2>2
  <3>3. message' \in [Message -> [state : {"none", "live", "deleted"}, key : SendKey \cup {NoSendKey},
                                  content : {"", "sent", "edited"},
                                  told : {"", "created", "updated", "deleted"}]]
    BY <2>1, <3>2 DEF MessageTypeOK
  <3>4. QED BY <1>1, <2>4, <3>1, <3>3 DEF MessageTypeOK, MessageTaskType, MessagePc
 <2>6. MessageTasksFit'
  <3>1. MessageTaskShaped(n) /\ WorksOnGone(n)' /\ CondemnedUnwanted(n)' /\ SendsProcessed(n)'
    BY <2>3, <2>4 DEF MessageTaskShaped, WorksOnGone, CondemnedUnwanted, SendsProcessed, Condemned
  <3>2. ASSUME NEW o \in MessageTask, NEW r \in MessageTaskType, r = messageTask[o],
               MessageTaskShaped(r), WorksOnGone(r), CondemnedUnwanted(r), SendsProcessed(r)
        PROVE  WorksOnGone(r)' /\ CondemnedUnwanted(r)' /\ SendsProcessed(r)'
   <4>1. WorksOnGone(r)'
    <5>1. \A y \in Message : /\ message[y].state # "none" => message'[y].state # "none"
                             /\ message[y].state = "deleted" => message'[y].state = "deleted"
                             /\ message'[y].state = "deleted" => message[y].state = "deleted"
      BY <2>1, <2>4
    <5>2. QED BY <1>1, <3>2, <5>1, StatesMatter
   <4>2. CondemnedUnwanted(r)'
    <5>1. ASSUME NEW a \in Attachment, NEW y \in Message \cup {NoMessage}, <<a, y>> \in Condemned(r)
          PROVE  /\ y \in Message => message'[y].state = "deleted"
                 /\ a \notin fought' => upload[a] = "none" \/ linkedTo'[a] = y
     <6>1. Cleaning(a) BY <3>2, <5>1, CondemnedCleaned
     <6>2. /\ y \in Message => message[y].state = "deleted"
           /\ a \notin fought => upload[a] = "none" \/ linkedTo[a] = y
       BY <2>2, <3>2, <5>1 DEF CondemnedUnwanted
     <6>3. y \in Message => y # x BY <2>1, <6>2
     <6>4. a \notin fought' => a \notin q.atts /\ a \notin fought BY <2>4, <6>1
     <6>5. QED BY <2>4, <6>2, <6>3, <6>4
    <5>2. QED BY <1>1, <5>1 DEF CondemnedUnwanted
   <4>3. SendsProcessed(r)' BY <1>1, <3>2 DEF SendsProcessed
   <4>4. QED BY <4>1, <4>2, <4>3
  <3>3. QED BY <2>3, <3>1, <3>2, TasksStillFit
 <2>7. MessagesFinal' /\ RejectsUnfit'
  <3>1. \A y \in Message : Telling(y) => Telling(y)' BY <1>1, <2>3, TellersStay
  <3>2. \A y \in Message : message'[y].state = "deleted" => y # x BY <2>4
  <3>3. MessagesFinal' BY <1>1, <2>2, <2>4, <3>1, <3>2, ZenonT(60) DEF MessagesFinal
  <3>4. RejectsUnfit' BY <1>1, <2>3, RejectsStand DEF MayRun
  <3>5. QED BY <3>3, <3>4
 <2>8. ASSUME NEW a
       PROVE  (RowStage(a)' <=> RowStage(a)) /\ (MarkStage(a)' <=> MarkStage(a))
  <3>1. ~AtRow(n, a) /\ ~AtRow(q, a) /\ ~AtMark(q, a) /\ ~AtMark(n, a) BY <1>1, <2>3 DEF AtRow, AtMark
  <3>2. /\ RowStage(a) <=> \E o \in MessageTask \ {t} : AtRow(messageTask[o], a)
        /\ MarkStage(a) <=> \E o \in MessageTask \ {t} : AtMark(messageTask[o], a)
    BY <3>1 DEF RowStage, MarkStage
  <3>3. QED BY <2>3, <3>1, <3>2, StagesMove
 <2>9. ProcessedStored' /\ ObjectsHaveRows'
  <3>1. ProcessedStored' BY <1>1, <2>4, <2>8 DEF ProcessedStored
  <3>2. ObjectsHaveRows' BY <1>1, <2>8 DEF ObjectsHaveRows
  <3>3. QED BY <3>1, <3>2
 <2>10. ASSUME NEW a \in q.atts, a \notin fought'
        PROVE  upload[a] = "processed" /\ (a \notin overwritten => object[a] = "fit")
  <3>1. upload[a] = "processed" /\ a \in Attachment BY <1>1, <2>2 DEF SendsProcessed
  <3>2. ~RowStage(a) /\ a \notin fought BY <2>4, <2>10, RowStageCleaned
  <3>3. QED BY <2>2, <3>1, <3>2 DEF ProcessedStored
 <2>11. ASSUME NEW y \in Message, message'[y].state = "live", NEW a \in carried'[y] \ fought'
        PROVE  linkedTo'[a] = y /\ upload'[a] = "processed" /\ (a \notin overwritten => object'[a] = "fit")
  <3>1. CASE y = x BY <1>1, <2>4, <2>10, <2>11, <3>1
  <3>2. CASE y # x
   <4>1. message[y].state = "live" /\ a \in carried[y] /\ a \notin fought /\ a \in Attachment
     BY <2>4, <2>11, <3>2 DEF MessageTypeOK
   <4>2. linkedTo[a] = y /\ upload[a] = "processed" /\ (a \notin overwritten => object[a] = "fit")
     BY <4>1 DEF MessagesKeepTheirAttachments
   <4>3. a \notin q.atts BY <2>4, <2>11, <4>2, MessageAssumption
   <4>4. QED BY <1>1, <2>4, <4>1, <4>2, <4>3
  <3>3. QED BY <3>1, <3>2
 <2>12. MessagesKeepTheirAttachments' BY <1>1, <2>11 DEF MessagesKeepTheirAttachments
 <2>13. QED BY <2>5, <2>6, <2>7, <2>9, <2>12
<1>4. QED BY <1>2, <1>3

MessageRow == [state : {"none", "live", "deleted"}, key : SendKey \cup {NoSendKey},
               content : {"", "sent", "edited"}, told : {"", "created", "updated", "deleted"}]

\* Rows are records of their type, and stay so when one of them is replaced.
LEMMA RowReplaced ==
    ASSUME MessageTypeOK, NEW x \in Message, NEW e \in MessageRow, message' = [message EXCEPT ![x] = e]
    PROVE  /\ message' \in [Message -> MessageRow] /\ message'[x] = e
           /\ \A y \in Message : y # x => message'[y] = message[y]
BY DEF MessageTypeOK, MessageRow

\* An edited row, a deleted one, one that was told.
LEMMA RowFields ==
    ASSUME MessageTypeOK, NEW x \in Message
    PROVE  /\ message[x] \in MessageRow /\ message[x].state \in {"none", "live", "deleted"}
           /\ LET e == [message[x] EXCEPT !.content = "edited"] IN
                  e \in MessageRow /\ e.state = message[x].state /\ e.told = message[x].told
           /\ LET e == [message[x] EXCEPT !.state = "deleted", !.content = ""] IN
                  e \in MessageRow /\ e.state = "deleted" /\ e.content = ""
           /\ \A to \in {"created", "updated", "deleted"} :
                  LET e == [message[x] EXCEPT !.told = to] IN
                  e \in MessageRow /\ e.state = message[x].state /\ e.content = message[x].content /\ e.told = to
<1> PICK m : m = message[x] OBVIOUS
<1>1. m \in MessageRow BY DEF MessageTypeOK, MessageRow
<1>2. PICK e : e = [m EXCEPT !.content = "edited"] OBVIOUS
<1>3. PICK d : d = [m EXCEPT !.state = "deleted", !.content = ""] OBVIOUS
<1>4. e \in MessageRow /\ e.state = m.state /\ e.told = m.told BY <1>1, <1>2 DEF MessageRow
<1>5. d \in MessageRow /\ d.state = "deleted" /\ d.content = "" BY <1>1, <1>3 DEF MessageRow
<1>6. ASSUME NEW to \in {"created", "updated", "deleted"}, NEW f, f = [m EXCEPT !.told = to]
      PROVE  f \in MessageRow /\ f.state = m.state /\ f.content = m.content /\ f.told = to
  BY <1>1, <1>6 DEF MessageRow
<1>7. m.state \in {"none", "live", "deleted"} BY <1>1 DEF MessageRow
<1>8. QED BY <1>1, <1>2, <1>3, <1>4, <1>5, <1>6, <1>7

\* A step on a row that neither brings it to life nor takes it away, by a task in no
\* attachment's stages.
LEMMA RowMoves ==
    ASSUME MessageIInv, NEW t \in MessageTask, NEW n \in MessageTaskType, Goes(t, n),
           UNCHANGED <<driver, channelUp, linkedTo, upload, object, url, carried, fought, overwritten, leaked>>,
           message' \in [Message -> MessageRow],
           revived \subseteq revived', revived' \subseteq Message,
           misheard \subseteq misheard', misheard' \subseteq Message,
           \A x \in Message : /\ message'[x].state = "none" <=> message[x].state = "none"
                              /\ message[x].state = "deleted" => message'[x].state = "deleted",
           \A o \in MessageTask : \A x \in Message :
               (o # t /\ messageTask[o].msg = x /\ message'[x].state = "deleted") =>
                   \/ message[x].state = "deleted"
                   \/ /\ messageTask[o].pc = "edit" => x \in revived'
                      /\ messageTask[o].pc \in {"created", "edit", "updated"} => x \in misheard',
           messageTask[t].pc \notin {"mark", "expirerow", "orphanrow"},
           n.pc \in {"idle", "updated", "deleted", "select"},
           n.doomed = {}, MessageTaskShaped(n), WorksOnGone(n)', MessagesFinal'
    PROVE  MessageIInv'
<1> USE DEF MessageIInv
<1> PICK q : q = messageTask[t] OBVIOUS
<1>1. MessageTypeOK'
 <2>1. messageTask' \in [MessageTask -> MessageTaskType] BY TaskGone
 <2>2. QED BY <2>1 DEF MessageTypeOK, MessageTaskType, MessagePc, MessageRow
<1>2. MessageTasksFit'
 <2>1. CondemnedUnwanted(n)' /\ SendsProcessed(n)'
  <3>1. CondemnedUnwanted(n)' BY DEF CondemnedUnwanted, Condemned
  <3>2. SendsProcessed(n)' BY DEF SendsProcessed
  <3>3. QED BY <3>1, <3>2
 <2>2. ASSUME NEW o \in MessageTask, NEW r \in MessageTaskType, o # t, r = messageTask[o],
              MessageTaskShaped(r), WorksOnGone(r), CondemnedUnwanted(r), SendsProcessed(r)
       PROVE  WorksOnGone(r)' /\ CondemnedUnwanted(r)' /\ SendsProcessed(r)'
  <3>1. WorksOnGone(r)' BY <2>2, StatesMatter
  <3>2. CondemnedUnwanted(r)' BY <2>2 DEF CondemnedUnwanted
  <3>3. SendsProcessed(r)' BY <2>2 DEF SendsProcessed
  <3>4. QED BY <3>1, <3>2, <3>3
 <2>3. QED BY <2>1, <2>2, TasksStillFit
<1>3. ASSUME NEW a
      PROVE  (RowStage(a)' <=> RowStage(a)) /\ (MarkStage(a)' <=> MarkStage(a))
 <2>1. ~AtRow(n, a) /\ ~AtRow(q, a) /\ ~AtMark(q, a) /\ ~AtMark(n, a) BY DEF AtRow, AtMark
 <2>2. /\ RowStage(a) <=> \E o \in MessageTask \ {t} : AtRow(messageTask[o], a)
       /\ MarkStage(a) <=> \E o \in MessageTask \ {t} : AtMark(messageTask[o], a)
   BY <2>1 DEF RowStage, MarkStage
 <2>3. QED BY <2>1, <2>2, StagesMove
<1>4. ProcessedStored' BY <1>3 DEF ProcessedStored
<1>5. ObjectsHaveRows' BY <1>3 DEF ObjectsHaveRows
<1>6. MessagesKeepTheirAttachments'
 <2>1. \A x \in Message : message'[x].state = "live" => message[x].state = "live" BY RowFields
 <2>2. QED BY <2>1 DEF MessagesKeepTheirAttachments
<1>7. RejectsUnfit' BY RejectsStand DEF MayRun
<1>8. QED BY <1>1, <1>2, <1>4, <1>5, <1>6, <1>7

\* An edit is written, to a deleted message too if it was in flight over the deletion.
LEMMA EditCommitKeeps == ASSUME MessageIInv, NEW t \in MessageTask, EditCommit(t) PROVE MessageIInv'
<1> USE DEF MessageIInv
<1> PICK q : q = messageTask[t] OBVIOUS
<1> PICK n : n = [q EXCEPT !.pc = "updated"] OBVIOUS
<1> PICK x : x = q.msg OBVIOUS
<1>1. /\ q.pc = "edit"
      /\ IF message[x].state = "none" THEN Done(t) /\ UNCHANGED message
         ELSE message' = [message EXCEPT ![x].content = "edited"] /\ Goes(t, n)
      /\ UNCHANGED <<driver, channelUp, linkedTo, upload, object, url, carried, fought, overwritten, leaked, revived,
                     misheard>>
  BY DEF EditCommit, Doing, attachmentRow, messageHistory
<1>2. /\ q \in MessageTaskType /\ MessageTaskShaped(q) /\ x \in Message
      /\ message[x].state = "deleted" => x \in revived /\ x \in misheard
  BY <1>1, MessageTaskTyped DEF MessageTasksFit, MessageTaskShaped, WorksOnGone
<1>3. CASE message[x].state = "none" BY <1>1, <1>3, OverKeeps
<1>4. CASE message[x].state # "none"
 <2>1. n \in MessageTaskType /\ n.pc = "updated" /\ n.doomed = {} /\ n.msg = x /\ Goes(t, n)
   BY <1>1, <1>2, <1>4 DEF MessageTaskType, MessagePc, MessageTaskShaped
 <2> PICK e : e = [message[x] EXCEPT !.content = "edited"] OBVIOUS
 <2>2. /\ message' = [message EXCEPT ![x] = e] /\ e \in MessageRow /\ e.state = message[x].state
       /\ e.told = message[x].told
   BY <1>1, <1>2, <1>4, RowFields, ZenonT(60)
 <2>3. /\ message' \in [Message -> MessageRow]
       /\ \A y \in Message : message'[y].state = message[y].state /\ message'[y].told = message[y].told
       /\ \A y \in Message : y # x => message'[y] = message[y]
   BY <1>2, <2>2, RowReplaced
 <2>4. \A y \in Message : Telling(y) => Telling(y)' BY <1>1, <2>1, TellersStay
 <2>5. MessagesFinal' BY <1>1, <1>2, <2>3, <2>4, ZenonT(60) DEF MessagesFinal
 <2>6. MessageTaskShaped(n) /\ WorksOnGone(n)' BY <1>1, <1>2, <2>1, <2>3 DEF MessageTaskShaped, WorksOnGone
 <2>7. revived \subseteq revived' /\ revived' \subseteq Message /\ misheard \subseteq misheard' /\ misheard' \subseteq Message
   BY <1>1 DEF MessageTypeOK
 <2>8. QED BY <1>1, <2>1, <2>3, <2>5, <2>6, <2>7, RowMoves
<1>5. QED BY <1>3, <1>4

\* A deletion leaves a row without text, which only an edit in flight can fill again.
LEMMA DropKeeps == ASSUME MessageIInv, NEW t \in MessageTask, Drop(t) PROVE MessageIInv'
<1> USE DEF MessageIInv
<1> PICK q : q = messageTask[t] OBVIOUS
<1> PICK x : x = q.msg OBVIOUS
<1>1. q.pc = "drop" /\ UNCHANGED <<driver, channelUp, linkedTo, upload, object, url, carried, fought, overwritten, leaked>>
  BY DEF Drop, Doing, attachmentRow
<1>2. q \in MessageTaskType /\ MessageTaskShaped(q) /\ WorksOnGone(q) BY MessageTaskTyped DEF MessageTasksFit
<1>3. x \in Message /\ q.doomed = {} /\ (channelUp => message[x].state # "none")
  BY <1>1, <1>2 DEF MessageTaskShaped, WorksOnGone
<1>4. ASSUME NEW pc \in {"select", "deleted"}, NEW n, n = [q EXCEPT !.pc = pc]
      PROVE  n \in MessageTaskType /\ n.pc = pc /\ n.doomed = {} /\ n.msg = x
  BY <1>2, <1>3, <1>4 DEF MessageTaskType, MessagePc
<1>5. CASE message[x].state # "live"
 <2> PICK n : n = [q EXCEPT !.pc = "select"] OBVIOUS
 <2>1. Goes(t, n) /\ UNCHANGED <<message, revived, misheard>> BY <1>5 DEF Drop
 <2>2. n \in MessageTaskType /\ n.pc = "select" /\ n.doomed = {} /\ n.msg = x BY <1>4
 <2>3. channelUp => message[x].state = "deleted" BY <1>3, <1>5, RowFields
 <2>4. MessageTaskShaped(n) /\ WorksOnGone(n) /\ CondemnedUnwanted(n) /\ SendsProcessed(n) /\ MayRun(n)
   BY <1>3, <2>2, <2>3 DEF MessageTaskShaped, WorksOnGone, CondemnedUnwanted, SendsProcessed, Condemned, MayRun
 <2>5. \A a : ~AtRow(n, a) /\ ~AtRow(q, a) BY <1>1, <2>2 DEF AtRow
 <2>6. leaked \subseteq leaked' /\ leaked' \subseteq Attachment BY <1>1 DEF MessageTypeOK
 <2>7. QED BY <1>1, <2>1, <2>2, <2>4, <2>5, <2>6, TaskOnlyKeeps
<1>6. CASE message[x].state = "live"
 <2> PICK n : n = [q EXCEPT !.pc = "deleted"] OBVIOUS
 <2>1. Goes(t, n) /\ message' = [message EXCEPT ![x].state = "deleted", ![x].content = ""] /\ DropMeets(x)
   BY <1>6 DEF Drop
 <2>2. n \in MessageTaskType /\ n.pc = "deleted" /\ n.doomed = {} /\ n.msg = x BY <1>4
 <2> PICK e : e = [message[x] EXCEPT !.state = "deleted", !.content = ""] OBVIOUS
 <2>3. message' = [message EXCEPT ![x] = e] /\ e \in MessageRow /\ e.state = "deleted" /\ e.content = ""
  <3>1. message' = [message EXCEPT ![x] = e] BY <2>1
  <3>2. e \in MessageRow /\ e.state = "deleted" /\ e.content = "" BY <1>3, RowFields
  <3>3. QED BY <3>1, <3>2
 <2>4. /\ message' \in [Message -> MessageRow] /\ \A y \in Message : y # x => message'[y] = message[y]
       /\ message'[x].state = "deleted" /\ message'[x].content = ""
   BY <1>3, <2>3, RowReplaced
 <2>5. \A y \in Message : /\ message'[y].state = "none" <=> message[y].state = "none"
                          /\ message[y].state = "deleted" => message'[y].state = "deleted"
  <3>1. ASSUME NEW y \in Message
        PROVE  /\ message'[y].state = "none" <=> message[y].state = "none"
               /\ message[y].state = "deleted" => message'[y].state = "deleted"
   <4>1. CASE y = x BY <1>6, <2>4, <4>1
   <4>2. CASE y # x BY <2>4, <4>2
   <4>3. QED BY <4>1, <4>2
  <3>2. QED BY <3>1
 <2>6. revived \subseteq revived' /\ revived' \subseteq Message /\ misheard \subseteq misheard' /\ misheard' \subseteq Message
   BY <1>3, <2>1 DEF DropMeets, MessageTypeOK
 <2>7. ASSUME NEW o \in MessageTask, messageTask[o].msg = x
       PROVE  /\ messageTask[o].pc = "edit" => x \in revived'
              /\ messageTask[o].pc \in {"created", "edit", "updated"} => x \in misheard'
   BY <2>1, <2>7 DEF DropMeets
 <2>8. MessagesFinal'
  <3>1. \A y \in Message : Telling(y) => Telling(y)' BY <1>1, <2>1, <2>2, TellersStay
  <3>2. Telling(x)' BY <2>1, <2>2, TaskGone DEF Telling
  <3>3. channelUp BY <1>3, <1>6 DEF MessagesFinal
  <3>4. ASSUME NEW y \in Message, message'[y].state = "deleted"
        PROVE  /\ y \notin revived' => message'[y].content = ""
               /\ y \notin misheard' => message'[y].told = "deleted" \/ Telling(y)'
   <4>1. CASE y = x BY <2>4, <3>2, <4>1
   <4>2. CASE y # x
    <5>1. message'[y] = message[y] /\ message[y].state = "deleted" BY <2>4, <3>4, <4>2
    <5>2. /\ y \notin revived => message[y].content = ""
          /\ y \notin misheard => message[y].told = "deleted" \/ Telling(y)
      BY <5>1 DEF MessagesFinal
    <5>3. QED BY <2>6, <3>1, <5>1, <5>2
   <4>3. QED BY <4>1, <4>2
  <3>5. QED BY <1>1, <3>3, <3>4 DEF MessagesFinal
 <2>9. MessageTaskShaped(n) /\ WorksOnGone(n)' BY <1>3, <2>2, <2>4 DEF MessageTaskShaped, WorksOnGone
 <2>10. \A o \in MessageTask : \A y \in Message :
            (o # t /\ messageTask[o].msg = y /\ message'[y].state = "deleted") =>
                \/ message[y].state = "deleted"
                \/ /\ messageTask[o].pc = "edit" => y \in revived'
                   /\ messageTask[o].pc \in {"created", "edit", "updated"} => y \in misheard'
   BY <2>4, <2>7
 <2>11. messageTask[t].pc \notin {"mark", "expirerow", "orphanrow"} /\ n.pc \in {"idle", "updated", "deleted", "select"}
   BY <1>1, <2>2
 <2>12. QED BY <1>1, <2>1, <2>2, <2>4, <2>5, <2>6, <2>8, <2>9, <2>10, <2>11, RowMoves
<1>7. QED BY <1>5, <1>6

\* What is told last of a deleted message is its deletion, unless others were to be told.
LEMMA TellKeeps == ASSUME MessageIInv, NEW t \in MessageTask, Tell(t) PROVE MessageIInv'
<1> USE DEF MessageIInv
<1> PICK q : q = messageTask[t] OBVIOUS
<1> PICK x : x = q.msg OBVIOUS
<1>1. /\ q.pc \in {"created", "updated", "deleted"}
      /\ message' = IF message[x].state = "none" THEN message ELSE [message EXCEPT ![x].told = q.pc]
      /\ IF q.pc = "deleted" THEN Goes(t, [q EXCEPT !.pc = "select"]) ELSE Done(t)
      /\ UNCHANGED <<driver, channelUp, linkedTo, upload, object, url, carried, fought, overwritten, leaked, revived,
                     misheard>>
  BY DEF Tell, attachmentRow, messageHistory
<1>2. /\ q \in MessageTaskType /\ MessageTaskShaped(q) /\ WorksOnGone(q) /\ x \in Message /\ q.doomed = {}
      /\ q.pc # "deleted" /\ message[x].state = "deleted" => x \in misheard
      /\ q.pc = "deleted" /\ channelUp => message[x].state = "deleted"
  BY <1>1, MessageTaskTyped DEF MessageTasksFit, MessageTaskShaped, WorksOnGone
<1>3. PICK n \in MessageTaskType : /\ Goes(t, n) /\ n.doomed = {}
                                   /\ n.pc = "idle" \/ (n.pc = "select" /\ n.msg = x /\ q.pc = "deleted")
 <2>1. CASE q.pc = "deleted"
  <3> PICK n : n = [q EXCEPT !.pc = "select"] OBVIOUS
  <3>1. n \in MessageTaskType /\ n.pc = "select" /\ n.msg = x /\ n.doomed = {}
    BY <1>2 DEF MessageTaskType, MessagePc
  <3>2. QED BY <1>1, <2>1, <3>1
 <2>2. CASE q.pc # "deleted" BY <1>1, <2>2, OverFields DEF Done
 <2>3. QED BY <2>1, <2>2
<1>4. /\ message' \in [Message -> MessageRow] /\ \A y \in Message : y # x => message'[y] = message[y]
      /\ message'[x].state = message[x].state /\ message'[x].content = message[x].content
      /\ message[x].state # "none" => message'[x].told = q.pc
 <2>1. CASE message[x].state = "none"
  <3>1. message' = message BY <1>1, <2>1
  <3>2. QED BY <2>1, <3>1 DEF MessageTypeOK, MessageRow
 <2>2. CASE message[x].state # "none"
  <3> PICK e : e = [message[x] EXCEPT !.told = q.pc] OBVIOUS
  <3>1. message' = [message EXCEPT ![x] = e] BY <1>1, <2>2
  <3>2. e \in MessageRow /\ e.state = message[x].state /\ e.content = message[x].content /\ e.told = q.pc
    BY <1>1, <1>2, RowFields
  <3>3. QED BY <1>2, <3>1, <3>2, RowReplaced
 <2>3. QED BY <2>1, <2>2
<1>5. MessagesFinal'
 <2>1. ASSUME NEW y \in Message, y # x, Telling(y) PROVE Telling(y)'
  <3>1. PICK o \in MessageTask : messageTask[o].pc = "deleted" /\ messageTask[o].msg = y BY <2>1 DEF Telling
  <3>2. o # t BY <2>1, <3>1
  <3>3. messageTask'[o] = messageTask[o] BY <1>3, <3>2, TaskGone
  <3>4. QED BY <3>1, <3>3 DEF Telling
 <2>2. ASSUME NEW y \in Message, message'[y].state = "deleted"
       PROVE  /\ y \notin revived => message'[y].content = ""
              /\ y \notin misheard => message'[y].told = "deleted" \/ Telling(y)'
  <3>1. /\ message[y].state = "deleted" /\ message'[y].content = message[y].content
        /\ y \notin revived => message[y].content = ""
        /\ y \notin misheard => message[y].told = "deleted" \/ Telling(y)
    BY <1>4, <2>2 DEF MessagesFinal
  <3>2. CASE y = x BY <1>2, <1>4, <3>1, <3>2
  <3>3. CASE y # x BY <1>4, <2>1, <3>1, <3>3
  <3>4. QED BY <3>2, <3>3
 <2>3. channelUp \/ \A y \in Message : message'[y].state = "none" BY <1>4 DEF MessagesFinal
 <2>4. QED BY <1>1, <2>2, <2>3 DEF MessagesFinal
<1>6. MessageTaskShaped(n) /\ WorksOnGone(n)'
 <2>1. MessageTaskShaped(n) BY <1>2, <1>3 DEF MessageTaskShaped
 <2>2. n.pc = "select" /\ channelUp => message'[n.msg].state = "deleted" BY <1>2, <1>3, <1>4
 <2>3. WorksOnGone(n)' BY <1>1, <1>3, <2>2 DEF WorksOnGone
 <2>4. QED BY <2>1, <2>3
<1>7. revived \subseteq revived' /\ revived' \subseteq Message /\ misheard \subseteq misheard' /\ misheard' \subseteq Message
  BY <1>1 DEF MessageTypeOK
<1>8. \A y \in Message : message'[y].state = message[y].state
 <2> TAKE y \in Message
 <2>1. CASE y = x BY <1>4, <2>1
 <2>2. CASE y # x BY <1>4, <2>2
 <2>3. QED BY <2>1, <2>2
<1>9. QED BY <1>1, <1>3, <1>4, <1>5, <1>6, <1>7, <1>8, RowMoves

\* Nothing but URLs changes.
LEMMA NoTaskKeeps ==
    ASSUME MessageIInv, url' \subseteq url,
           UNCHANGED <<driver, channelUp, message, linkedTo, upload, object, messageTask, carried, fought, overwritten,
                       leaked, revived, misheard>>
    PROVE  MessageIInv'
<1>1. MessageTypeOK' BY DEF MessageIInv, MessageTypeOK
<1>2. MessagesFinal' /\ RejectsUnfit' BY DEF MessageIInv, MessagesFinal, RejectsUnfit, Telling, RejectStage
<1>3. MessageTasksFit'
  BY DEF MessageIInv, MessageTasksFit, MessageTaskShaped, WorksOnGone, CondemnedUnwanted, SendsProcessed
<1>4. ProcessedStored' BY DEF MessageIInv, ProcessedStored, RowStage, MarkStage
<1>5. ObjectsHaveRows' BY DEF MessageIInv, ObjectsHaveRows, RowStage
<1>6. MessagesKeepTheirAttachments' BY DEF MessageIInv, MessagesKeepTheirAttachments
<1>7. QED BY <1>1, <1>2, <1>3, <1>4, <1>5, <1>6 DEF MessageIInv

\* A URL that no longer takes a PUT is nobody's business.
LEMMA UrlExpiresKeeps == ASSUME MessageIInv, NEW a \in Attachment, UrlExpires(a) PROVE MessageIInv'
<1>1. /\ url' \subseteq url
      /\ UNCHANGED <<driver, channelUp, message, linkedTo, upload, object, messageTask, carried, fought, overwritten,
                     leaked, revived, misheard>>
  BY DEF UrlExpires, attachmentRow, messageHistory
<1>2. QED BY <1>1, NoTaskKeeps

\* The channel goes with its messages; attachments are left to the sweep.
LEMMA DeleteTextChannelKeeps == ASSUME MessageIInv, DeleteTextChannel PROVE MessageIInv'
<1> USE DEF MessageIInv
<1>1. /\ channelUp' = FALSE /\ message' = [x \in Message |-> NoRow]
      /\ linkedTo' = [a \in Attachment |-> NoMessage]
      /\ UNCHANGED <<driver, upload, object, url, messageTask, carried, fought, overwritten, leaked,
                      revived, misheard>>
  BY DEF DeleteTextChannel, messageHistory
<1>2. \A x \in Message : message'[x].state = "none" BY <1>1 DEF NoRow
<1>3. MessageTypeOK'
 <2>1. NoRow \in [state : {"none", "live", "deleted"}, key : SendKey \cup {NoSendKey},
                  content : {"", "sent", "edited"}, told : {"", "created", "updated", "deleted"}]
   BY DEF NoRow
 <2>2. channelUp' \in BOOLEAN BY <1>1
 <2>3. QED BY <1>1, <2>1, <2>2 DEF MessageTypeOK
<1>4. MessageTasksFit'
 <2>1. ASSUME NEW o \in MessageTask
       PROVE  /\ MessageTaskShaped(messageTask[o])' /\ WorksOnGone(messageTask[o])'
              /\ CondemnedUnwanted(messageTask[o])' /\ SendsProcessed(messageTask[o])'
  <3> PICK r : r = messageTask[o] OBVIOUS
  <3>1. r \in MessageTaskType /\ MessageTaskShaped(r) /\ SendsProcessed(r) /\ r = messageTask'[o]
    BY <1>1, MessageTaskTyped DEF MessageTasksFit
  <3>2. WorksOnGone(r)' BY <1>1, <1>2, <3>1 DEF WorksOnGone, MessageTaskShaped
  <3>3. CondemnedUnwanted(r)' BY <1>1 DEF CondemnedUnwanted
  <3>4. SendsProcessed(r)' BY <1>1, <3>1 DEF SendsProcessed
  <3>5. QED BY <3>1, <3>2, <3>3, <3>4
 <2>2. QED BY <2>1 DEF MessageTasksFit
<1>5. MessagesFinal' /\ RejectsUnfit'
 <2>1. MessagesFinal' BY <1>2 DEF MessagesFinal
 <2>2. QED BY <1>1, <2>1 DEF RejectsUnfit, RejectStage
<1>6. ProcessedStored' BY <1>1 DEF ProcessedStored
<1>7. ObjectsHaveRows' BY <1>1 DEF ObjectsHaveRows, RowStage
<1>8. MessagesKeepTheirAttachments'
 <2>1. \A x \in Message : message'[x].state # "live" BY <1>2
 <2>2. QED BY <2>1 DEF MessagesKeepTheirAttachments
<1>9. QED BY <1>3, <1>4, <1>5, <1>6, <1>7, <1>8

\* The pairs left to a clean-up after it took one of them.
LEMMA PairTaken ==
    ASSUME NEW r \in MessageTaskType, r.pc \in {"expire", "orphan"}, NEW pair \in r.doomed
    PROVE  LET n == [r EXCEPT !.pc = IF @ = "expire" THEN "expirerow" ELSE "orphanrow",
                              !.at = pair[1], !.msg = pair[2], !.doomed = r.doomed \ {pair}]
               k == [r EXCEPT !.doomed = r.doomed \ {pair}]
           IN /\ n \in MessageTaskType /\ n.pc \in {"expirerow", "orphanrow"} /\ n.at = pair[1]
              /\ n.at \in Attachment /\ Condemned(n) \subseteq Condemned(r)
              /\ k \in MessageTaskType /\ k.pc = r.pc /\ Condemned(k) \subseteq Condemned(r)
<1>1. /\ r.doomed \subseteq Attachment \X (Message \cup {NoMessage}) /\ r.pc \in MessagePc BY MessageTaskFields
<1>2. pair = <<pair[1], pair[2]>> /\ pair[1] \in Attachment /\ pair[2] \in Message \cup {NoMessage} BY <1>1
<1> PICK rest : rest = r.doomed \ {pair} OBVIOUS
<1>3. rest \subseteq r.doomed OBVIOUS
<1> PICK pc : pc = IF r.pc = "expire" THEN "expirerow" ELSE "orphanrow" OBVIOUS
<1>4. pc \in {"expirerow", "orphanrow"} /\ pc \in MessagePc BY DEF MessagePc
<1> PICK n : n = [r EXCEPT !.pc = pc, !.at = pair[1], !.msg = pair[2], !.doomed = rest] OBVIOUS
<1>5. /\ n \in MessageTaskType /\ n.pc = pc /\ n.at = pair[1] /\ n.msg = pair[2] /\ n.doomed = rest
  BY <1>1, <1>2, <1>3, <1>4 DEF MessageTaskType
<1>6. Condemned(n) \subseteq Condemned(r) BY <1>2, <1>3, <1>4, <1>5 DEF Condemned
<1> PICK k : k = [r EXCEPT !.doomed = rest] OBVIOUS
<1>7. k \in MessageTaskType /\ k.pc = r.pc /\ k.doomed = rest BY <1>1, <1>3 DEF MessageTaskType
<1>8. Condemned(k) \subseteq Condemned(r) BY <1>3, <1>7 DEF Condemned
<1>9. n = [r EXCEPT !.pc = IF @ = "expire" THEN "expirerow" ELSE "orphanrow",
                    !.at = pair[1], !.msg = pair[2], !.doomed = r.doomed \ {pair}]
  OBVIOUS
<1>10. QED BY <1>2, <1>4, <1>5, <1>6, <1>7, <1>8, <1>9

\* A clean-up with fewer pairs to deal with still spares what others want.
LEMMA FewerUnwanted ==
    ASSUME NEW r, NEW n, CondemnedUnwanted(r), Condemned(n) \subseteq Condemned(r)
    PROVE  CondemnedUnwanted(n)
BY DEF CondemnedUnwanted

\* An object goes, or its deletion fails.
LEMMA DeleteObjectKeeps == ASSUME MessageIInv, NEW t \in MessageTask, DeleteObject(t) PROVE MessageIInv'
<1> USE DEF MessageIInv
<1> PICK q : q = messageTask[t] OBVIOUS
<1>1. PICK pair \in q.doomed :
          LET rest == q.doomed \ {pair}
              row == [q EXCEPT !.pc = IF @ = "expire" THEN "expirerow" ELSE "orphanrow",
                               !.at = pair[1], !.msg = pair[2], !.doomed = rest]
          IN
          \/ object' = [object EXCEPT ![pair[1]] = "absent"] /\ Goes(t, row) /\ UNCHANGED leaked
          \/ /\ driver = "local" /\ object[pair[1]] # "absent"
             /\ leaked' = leaked \cup {pair[1]} /\ Goes(t, row) /\ UNCHANGED object
          \/ /\ driver = "r2"
             /\ IF q.pc = "expire" THEN Goes(t, [q EXCEPT !.doomed = rest]) ELSE Done(t)
             /\ UNCHANGED <<object, leaked>>
  BY DEF DeleteObject
<1> PICK n : n = [q EXCEPT !.pc = IF @ = "expire" THEN "expirerow" ELSE "orphanrow",
                           !.at = pair[1], !.msg = pair[2], !.doomed = q.doomed \ {pair}] OBVIOUS
<1> PICK k : k = [q EXCEPT !.doomed = q.doomed \ {pair}] OBVIOUS
<1> PICK b : b = pair[1] OBVIOUS
<1>2. /\ q.pc \in {"expire", "orphan"}
      /\ UNCHANGED <<driver, channelUp, message, linkedTo, upload, url, carried, fought, overwritten, revived, misheard>>
  BY DEF DeleteObject, attachmentRow
<1>3. /\ q \in MessageTaskType /\ MessageTaskShaped(q) /\ CondemnedUnwanted(q)
  BY MessageTaskTyped DEF MessageTasksFit
<1>4. /\ n \in MessageTaskType /\ n.pc \in {"expirerow", "orphanrow"} /\ n.at = b
      /\ b \in Attachment /\ Condemned(n) \subseteq Condemned(q)
      /\ k \in MessageTaskType /\ k.pc = q.pc /\ Condemned(k) \subseteq Condemned(q)
  BY <1>2, <1>3, PairTaken, ZenonT(60)
<1>5. CASE UNCHANGED <<object, leaked>> /\ (Goes(t, k) \/ Done(t))
 <2>1. CASE Done(t) BY <1>2, <1>5, <2>1, OverKeeps
 <2>2. CASE Goes(t, k)
  <3>1. MessageTaskShaped(k) /\ WorksOnGone(k) /\ SendsProcessed(k) /\ MayRun(k) /\ k.pc # "mark" /\ q.pc # "deleted"
    BY <1>2, <1>4 DEF MessageTaskShaped, WorksOnGone, SendsProcessed, MayRun
  <3>2. CondemnedUnwanted(k) BY <1>3, <1>4, FewerUnwanted
  <3>3. \A a : ~AtRow(k, a) /\ ~AtMark(k, a) /\ ~AtRow(q, a) BY <1>2, <1>4 DEF AtRow, AtMark
  <3>4. leaked \subseteq leaked' /\ leaked' \subseteq Attachment BY <1>5 DEF MessageTypeOK
  <3>5. QED BY <1>2, <1>4, <1>5, <2>2, <3>1, <3>2, <3>3, <3>4, TaskOnlyKeeps
 <2>3. QED BY <1>5, <2>1, <2>2
<1>6. CASE /\ Goes(t, n)
           /\ \/ object' = [object EXCEPT ![b] = "absent"] /\ UNCHANGED leaked
              \/ leaked' = leaked \cup {b} /\ UNCHANGED object
 <2>1. /\ object' \in [Attachment -> {"absent", "fit", "unfit"}]
       /\ \A a \in Attachment : a # b => object'[a] = object[a]
       /\ b \in leaked' \/ object'[b] = "absent"
       /\ leaked \subseteq leaked' /\ leaked' \subseteq Attachment
  <3>1. CASE object' = [object EXCEPT ![b] = "absent"] /\ UNCHANGED leaked BY <1>4, <3>1 DEF MessageTypeOK
  <3>2. CASE leaked' = leaked \cup {b} /\ UNCHANGED object BY <1>4, <3>2 DEF MessageTypeOK
  <3>3. QED BY <1>6, <3>1, <3>2
 <2>2. MessageTypeOK'
  <3>1. messageTask' \in [MessageTask -> MessageTaskType] BY <1>4, <1>6, TaskGone
  <3>2. QED BY <1>2, <2>1, <3>1 DEF MessageTypeOK, MessageTaskType, MessagePc
 <2>3. MessageTasksFit'
  <3>1. \A r : (WorksOnGone(r) <=> WorksOnGone(r)') /\ (CondemnedUnwanted(r) <=> CondemnedUnwanted(r)')
               /\ (SendsProcessed(r) <=> SendsProcessed(r)')
    BY <1>2 DEF WorksOnGone, CondemnedUnwanted, SendsProcessed
  <3>2. CondemnedUnwanted(n) BY <1>3, <1>4, FewerUnwanted
  <3>3. MessageTaskShaped(n) /\ WorksOnGone(n) /\ SendsProcessed(n)
    BY <1>4 DEF MessageTaskShaped, WorksOnGone, SendsProcessed
  <3>4. QED BY <1>4, <1>6, <3>1, <3>2, <3>3, TasksStillFit
 <2>4. MessagesFinal' /\ RejectsUnfit'
  <3>1. MayRun(n) /\ q.pc # "deleted" BY <1>2, <1>4 DEF MayRun
  <3>2. \A a \in Attachment : object'[a] = "fit" => object[a] = "fit" BY <1>4, <1>6 DEF MessageTypeOK
  <3>3. MessagesFinal' BY <1>2, <1>4, <1>6, <3>1, FinalStands
  <3>4. RejectsUnfit' BY <1>2, <1>4, <1>6, <3>1, <3>2, RejectsStand
  <3>5. QED BY <3>3, <3>4
 <2>5. ASSUME NEW a
       PROVE  /\ (RowStage(a)' <=> a = b \/ RowStage(a)) /\ (MarkStage(a)' <=> MarkStage(a))
  <3>1. ~AtRow(q, a) /\ ~AtMark(q, a) /\ ~AtMark(n, a) /\ (AtRow(n, a) <=> a = b)
    BY <1>2, <1>4 DEF AtRow, AtMark
  <3>2. /\ RowStage(a) <=> \E o \in MessageTask \ {t} : AtRow(messageTask[o], a)
        /\ MarkStage(a) <=> \E o \in MessageTask \ {t} : AtMark(messageTask[o], a)
    BY <3>1 DEF RowStage, MarkStage
  <3>3. QED BY <1>4, <1>6, <3>1, <3>2, StagesMove
 <2>6. ProcessedStored' BY <1>2, <2>1, <2>5 DEF ProcessedStored
 <2>7. ObjectsHaveRows'
  <3>1. ASSUME NEW a \in Attachment \ leaked'
        PROVE  /\ object'[a] # "absent" => upload'[a] # "none"
               /\ RowStage(a)' => object'[a] = "absent"
   <4>1. CASE a = b BY <2>1, <3>1, <4>1
   <4>2. CASE a # b BY <1>2, <2>1, <2>5, <3>1, <4>2 DEF ObjectsHaveRows
   <4>3. QED BY <4>1, <4>2
  <3>2. QED BY <3>1 DEF ObjectsHaveRows
 <2>8. MessagesKeepTheirAttachments'
  <3>1. ASSUME NEW x \in Message, message'[x].state = "live", NEW a \in carried'[x] \ fought'
        PROVE  linkedTo'[a] = x /\ upload'[a] = "processed" /\ (a \notin overwritten' => object'[a] = "fit")
   <4>1. message[x].state = "live" /\ a \in carried[x] \ fought BY <1>2, <3>1
   <4>2. \A y \in Message \cup {NoMessage} : <<a, y>> \notin Condemned(q) BY <4>1, LiveUnwanted
   <4>3. a \in Attachment /\ linkedTo[a] = x /\ upload[a] = "processed" /\ (a \notin overwritten => object[a] = "fit")
     BY <4>1 DEF MessagesKeepTheirAttachments, MessageTypeOK
   <4>4. a # b
    <5>1. pair \in Condemned(q) /\ pair = <<b, pair[2]>> /\ pair[2] \in Message \cup {NoMessage}
      BY <1>3, MessageTaskFields DEF Condemned
    <5>2. QED BY <4>2, <5>1
   <4>5. QED BY <1>2, <2>1, <4>3, <4>4
  <3>2. QED BY <3>1 DEF MessagesKeepTheirAttachments
 <2>9. QED BY <2>2, <2>3, <2>4, <2>6, <2>7, <2>8
<1>7. QED BY <1>1, <1>5, <1>6

\* A row goes after its object, or stays because it is somebody else's by now.
LEMMA DeleteRowKeeps == ASSUME MessageIInv, NEW t \in MessageTask, DeleteRow(t) PROVE MessageIInv'
<1> USE DEF MessageIInv
<1> PICK q : q = messageTask[t] OBVIOUS
<1> PICK b : b = q.at OBVIOUS
<1>1. /\ q.pc \in {"expirerow", "orphanrow"}
      /\ UNCHANGED <<driver, channelUp, message, object, url, carried, fought, overwritten, leaked, revived,
                      misheard>>
  BY DEF DeleteRow, messageHistory
<1>2. /\ q \in MessageTaskType /\ MessageTaskShaped(q) /\ CondemnedUnwanted(q)
  BY MessageTaskTyped DEF MessageTasksFit
<1>3. b \in Attachment /\ q.msg \in Message \cup {NoMessage}
  BY <1>1, <1>2, MessageTaskFields DEF MessageTaskShaped
<1>4. PICK n \in MessageTaskType :
          /\ Goes(t, n) /\ n.pc \in {"idle", "expire", "orphan"} /\ n.doomed \subseteq q.doomed
          /\ n.pc = "idle" => n.doomed = {}
 <2>1. ASSUME NEW pc \in {"expire", "orphan"}
       PROVE  LET n == [Starts(t, pc) EXCEPT !.doomed = q.doomed] IN
              n \in MessageTaskType /\ n.pc = pc /\ n.doomed = q.doomed
  <3> PICK s : s = Starts(t, pc) OBVIOUS
  <3>1. s \in MessageTaskType /\ s.pc = pc BY StartFields DEF MessagePc
  <3>2. q.doomed \subseteq Attachment \X (Message \cup {NoMessage}) BY <1>2, MessageTaskFields
  <3> PICK n : n = [s EXCEPT !.doomed = q.doomed] OBVIOUS
  <3>3. n \in MessageTaskType /\ n.pc = pc /\ n.doomed = q.doomed BY <3>1, <3>2 DEF MessageTaskType
  <3>4. QED BY <3>3
 <2>2. NoMessageTask \in MessageTaskType /\ NoMessageTask.pc = "idle" /\ NoMessageTask.doomed = {} BY OverFields
 <2>3. \/ Goes(t, [Starts(t, "expire") EXCEPT !.doomed = q.doomed])
       \/ Goes(t, [Starts(t, "orphan") EXCEPT !.doomed = q.doomed])
       \/ Goes(t, NoMessageTask)
   BY DEF DeleteRow, Done
 <2>4. QED BY <2>1, <2>2, <2>3
<1>5. \/ RowGoes(b)
      \/ UNCHANGED <<linkedTo, upload>> /\ (upload[b] = "none" \/ linkedTo[b] # q.msg)
  BY DEF DeleteRow, attachmentRow
<1>6. /\ linkedTo' \in [Attachment -> Message \cup {NoMessage}]
      /\ upload' \in [Attachment -> {"none", "prepared", "processed"}]
      /\ \A a \in Attachment : a # b => linkedTo'[a] = linkedTo[a] /\ upload'[a] = upload[a]
      /\ upload'[b] = "none" \/ (linkedTo'[b] = linkedTo[b] /\ upload'[b] = upload[b] /\ linkedTo[b] # q.msg)
 <2>1. CASE RowGoes(b) BY <1>3, <2>1 DEF RowGoes, MessageTypeOK
 <2>2. CASE UNCHANGED <<linkedTo, upload>> /\ (upload[b] = "none" \/ linkedTo[b] # q.msg)
   BY <1>3, <2>2 DEF MessageTypeOK
 <2>3. QED BY <1>5, <2>1, <2>2
<1>7. MessageTypeOK'
 <2>1. messageTask' \in [MessageTask -> MessageTaskType] BY <1>4, TaskGone
 <2>2. QED BY <1>1, <1>6, <2>1 DEF MessageTypeOK, MessageTaskType, MessagePc
<1>8. ASSUME NEW r, CondemnedUnwanted(r) PROVE CondemnedUnwanted(r)'
 <2>1. \A a \in Attachment : upload'[a] = "none" \/ (linkedTo'[a] = linkedTo[a] /\ upload'[a] = upload[a])
   BY <1>6
 <2>2. QED BY <1>1, <1>8, <2>1 DEF CondemnedUnwanted
<1>9. MessageTasksFit'
 <2>1. \A r : WorksOnGone(r) <=> WorksOnGone(r)' BY <1>1 DEF WorksOnGone
 <2>2. ASSUME NEW r \in MessageTaskType, SendsProcessed(r) PROVE SendsProcessed(r)'
  <3>1. r.atts \subseteq Attachment BY MessageTaskFields
  <3>2. \A a \in Attachment : upload'[a] \in {upload[a], "none"} BY <1>6
  <3>3. QED BY <2>2, <3>1, <3>2 DEF SendsProcessed
 <2>3. CondemnedUnwanted(n)
  <3>1. Condemned(n) \subseteq Condemned(q) BY <1>4 DEF Condemned
  <3>2. QED BY <1>2, <3>1, FewerUnwanted
 <2>4. MessageTaskShaped(n) /\ WorksOnGone(n) /\ SendsProcessed(n)
   BY <1>4 DEF MessageTaskShaped, WorksOnGone, SendsProcessed
 <2>5. QED BY <1>4, <1>8, <2>1, <2>2, <2>3, <2>4, TasksStillFit
<1>10. MessagesFinal' /\ RejectsUnfit'
 <2>1. MayRun(n) /\ q.pc # "deleted" BY <1>1, <1>4 DEF MayRun
 <2>2. MessagesFinal' BY <1>1, <1>4, <2>1, FinalStands
 <2>3. RejectsUnfit' BY <1>1, <1>4, <2>1, RejectsStand
 <2>4. QED BY <2>2, <2>3
<1>11. ASSUME NEW a
       PROVE  /\ a # b => (RowStage(a)' <=> RowStage(a))
              /\ MarkStage(a)' <=> MarkStage(a)
 <2>1. ~AtMark(q, a) /\ ~AtMark(n, a) /\ ~AtRow(n, a) /\ (AtRow(q, a) => a = b) BY <1>1, <1>4 DEF AtRow, AtMark
 <2>2. /\ a # b => (RowStage(a) <=> \E o \in MessageTask \ {t} : AtRow(messageTask[o], a))
       /\ MarkStage(a) <=> \E o \in MessageTask \ {t} : AtMark(messageTask[o], a)
   BY <2>1 DEF RowStage, MarkStage
 <2>3. QED BY <1>4, <2>1, <2>2, StagesMove
<1>12. RowStage(b) /\ <<b, q.msg>> \in Condemned(q) BY <1>1 DEF RowStage, AtRow, Condemned
<1>13. ProcessedStored'
 <2>1. ASSUME channelUp, b \notin fought PROVE upload'[b] = "none"
  <3>1. upload[b] = "none" \/ linkedTo[b] = q.msg BY <1>2, <1>3, <1>12, <2>1 DEF CondemnedUnwanted
  <3>2. QED BY <1>6, <3>1
 <2>2. ASSUME channelUp, NEW a \in Attachment \ (fought \cup overwritten), ~RowStage(a)', upload'[a] # "none",
              upload'[a] = "processed" \/ MarkStage(a)'
       PROVE  object[a] = "fit"
   BY <1>6, <1>11, <2>1, <2>2 DEF ProcessedStored
 <2>3. QED BY <1>1, <2>2 DEF ProcessedStored
<1>14. ObjectsHaveRows'
 <2>1. b \notin leaked => object[b] = "absent" BY <1>3, <1>12 DEF ObjectsHaveRows
 <2>2. ASSUME NEW a \in Attachment \ leaked
       PROVE  /\ object[a] # "absent" => upload'[a] # "none"
              /\ RowStage(a)' => object[a] = "absent"
  <3>1. CASE a = b BY <2>1, <2>2, <3>1
  <3>2. CASE a # b BY <1>6, <1>11, <2>2, <3>2 DEF ObjectsHaveRows
  <3>3. QED BY <3>1, <3>2
 <2>3. QED BY <1>1, <2>2 DEF ObjectsHaveRows
<1>15. MessagesKeepTheirAttachments'
 <2>1. ASSUME NEW x \in Message, message[x].state = "live", NEW a \in carried[x] \ fought
       PROVE  linkedTo'[a] = x /\ upload'[a] = "processed" /\ (a \notin overwritten => object[a] = "fit")
  <3>1. a \in Attachment /\ linkedTo[a] = x /\ upload[a] = "processed" /\ (a \notin overwritten => object[a] = "fit")
    BY <2>1 DEF MessagesKeepTheirAttachments, MessageTypeOK
  <3>2. \A y \in Message \cup {NoMessage} : <<a, y>> \notin Condemned(q) BY <2>1, LiveUnwanted
  <3>3. a # b BY <1>3, <1>12, <3>2
  <3>4. QED BY <1>6, <3>1, <3>3
 <2>2. QED BY <1>1, <2>1 DEF MessagesKeepTheirAttachments
<1>16. QED BY <1>7, <1>9, <1>10, <1>13, <1>14, <1>15

\* Nothing is stored, sent or under way at first.
LEMMA MessageStart == ASSUME MessageInit PROVE MessageIInv
<1> USE DEF MessageInit
<1> PICK n : n = NoMessageTask OBVIOUS
<1>1. n \in MessageTaskType /\ n.pc = "idle" /\ n.doomed = {} /\ \A t \in MessageTask : messageTask[t] = n
  BY OverFields
<1>2. \A x \in Message : message[x].state = "none" BY DEF NoRow
<1>3. MessageTypeOK
 <2>1. NoRow \in MessageRow BY DEF NoRow, MessageRow
 <2>2. message \in [Message -> MessageRow] BY <2>1
 <2>3. messageTask \in [MessageTask -> MessageTaskType] BY <1>1
 <2>4. /\ linkedTo \in [Attachment -> Message \cup {NoMessage}]
       /\ upload \in [Attachment -> {"none", "prepared", "processed"}]
       /\ object \in [Attachment -> {"absent", "fit", "unfit"}]
       /\ carried \in [Message -> SUBSET Attachment]
   OBVIOUS
 <2>5. channelUp \in BOOLEAN OBVIOUS
 <2>6. QED BY <2>2, <2>3, <2>4, <2>5 DEF MessageTypeOK, MessageTaskType, MessagePc, MessageRow
<1>4. MessageTasksFit
  BY <1>1 DEF MessageTasksFit, MessageTaskShaped, WorksOnGone, CondemnedUnwanted, SendsProcessed, Condemned
<1>5. MessagesFinal BY <1>2 DEF MessagesFinal
<1>6. ProcessedStored /\ ObjectsHaveRows /\ RejectsUnfit
 <2>1. \A a : ~RowStage(a) BY <1>1 DEF RowStage, AtRow
 <2>2. ProcessedStored BY DEF ProcessedStored
 <2>3. ObjectsHaveRows BY <2>1 DEF ObjectsHaveRows
 <2>4. RejectsUnfit BY <1>1 DEF RejectsUnfit, RejectStage
 <2>5. QED BY <2>2, <2>3, <2>4
<1>7. MessagesKeepTheirAttachments BY <1>2 DEF MessagesKeepTheirAttachments
<1>8. QED BY <1>3, <1>4, <1>5, <1>6, <1>7 DEF MessageIInv

\* Every step keeps the invariant.
LEMMA MessageStepKeeps == ASSUME MessageIInv, [MessageNext]_messageVars PROVE MessageIInv'
<1>1. CASE \E a \in Attachment : Prepare(a) \/ BrowserPut(a) \/ UrlExpires(a)
  BY <1>1, PrepareKeeps, BrowserPutKeeps, UrlExpiresKeeps
<1>2. CASE \E t \in MessageTask :
               \/ \E a \in Attachment : UploadFile(t, a) \/ Complete(t, a)
               \/ \E atts \in SUBSET Attachment, key \in SendKey \cup {NoSendKey} : Send(t, atts, key)
               \/ \E x \in Message : Edit(t, x) \/ Delete(t, x)
  BY <1>2, RequestsKeep
<1>3. CASE \E t \in MessageTask : PutObject(t) \/ HeadObject(t) \/ RejectObject(t) \/ MarkProcessed(t)
  BY <1>3, PutObjectKeeps, HeadObjectKeeps, RejectObjectKeeps, MarkKeeps
<1>4. CASE \E t \in MessageTask : FindKey(t) \/ Insert(t) \/ EditCommit(t) \/ Drop(t) \/ Tell(t)
  BY <1>4, FindKeyKeeps, InsertKeeps, EditCommitKeeps, DropKeeps, TellKeeps
<1>5. CASE \E t \in MessageTask :
               \/ DeleteMessageAttachments(t) \/ DeleteExpired(t) \/ DeleteOrphaned(t) \/ CleanUpEnds(t)
  BY <1>5, CleanUpsKeep
<1>6. CASE \E t \in MessageTask : DeleteObject(t) \/ DeleteRow(t) BY <1>6, DeleteObjectKeeps, DeleteRowKeeps
<1>7. CASE DeleteTextChannel BY <1>7, DeleteTextChannelKeeps
<1>8. CASE UNCHANGED messageVars BY <1>8, NoTaskKeeps DEF messageVars
<1>9. QED BY <1>1, <1>2, <1>3, <1>4, <1>5, <1>6, <1>7, <1>8 DEF MessageNext

\* A message that has not been deleted keeps the attachments it was sent with, stored
\* and linked, whatever uploads, sends, deletions and sweeps overlap: MessageService,
\* UploadService and the clean-up timer.
THEOREM AttachmentsKept == MessageSpec => [](MessageTypeOK /\ MessagesKeepTheirAttachments)
<1>1. MessageInit => MessageIInv BY MessageStart
<1>2. MessageIInv /\ [MessageNext]_messageVars => MessageIInv' BY MessageStepKeeps
<1>3. QED BY <1>1, <1>2, PTL DEF MessageSpec, MessageIInv

\* Once nothing is in flight a deleted message is empty and was announced so, and what
\* storage holds has a row that a later sweep finds.
THEOREM DeletionsFinal == MessageSpec => []DeletionIsFinal
<1>1. MessageInit => MessageIInv BY MessageStart
<1>2. MessageIInv /\ [MessageNext]_messageVars => MessageIInv' BY MessageStepKeeps
<1>3. MessageIInv => DeletionIsFinal
  BY DEF MessageIInv, MessagesFinal, ObjectsHaveRows, DeletionIsFinal, Doing, Telling
<1>4. QED BY <1>1, <1>2, <1>3, PTL DEF MessageSpec

------------------------------------------------------------
(* Presence                                                                *)

\* The sockets that the counter has counted and not yet forgotten.
CountedSockets(u) ==
    {s \in Sockets(u) : greeting[s] # "incr" /\ (s \in socketUp \/ parting[s] = "decr")}

\* A socket that left while its greeting had not counted it is forgotten, or missed.
HandlerApart(s) ==
    /\ parting[s] # "idle" => s \notin socketUp
    /\ beat[s] # "idle" => greeting[s] = "idle"
    /\ greeting[s] = "incr" /\ s \notin socketUp => parting[s] = "decr" \/ PresentOf[s] \in miscounted

CounterCounts(u) ==
    /\ IsFiniteSet(CountedSockets(u))
    /\ u \notin miscounted => connections[u] = Cardinality(CountedSockets(u))

\* A user with connections has a status or is about to get one; a user without has none
\* or is about to lose it, and whoever writes meanwhile is ahead of that.
StatusFollows(u) ==
    (u \notin miscounted /\ u \notin stalePresence) =>
        /\ connections[u] > 0 =>
               ~Removing(u) /\ (presence[u] # NoStatus \/ \E s \in Sockets(u) : greeting[s] = "set")
        /\ connections[u] = 0 =>
               /\ presence[u] = NoStatus \/ Removing(u)
               /\ (\E s \in Sockets(u) : greeting[s] = "set" \/ beat[s] # "idle") => Removing(u)

PresenceIInv ==
    /\ PresenceTypeOK
    /\ \A s \in PresenceSocket : HandlerApart(s)
    /\ \A u \in PresentUser : CounterCounts(u) /\ StatusFollows(u)

\* A step of one socket's handlers is its user's affair.
LEMMA OneUsersAffair ==
    ASSUME PresenceIInv, NEW s \in PresenceSocket, PresenceTypeOK',
           \A o \in PresenceSocket \ {s} :
               /\ greeting'[o] = greeting[o] /\ parting'[o] = parting[o] /\ beat'[o] = beat[o]
               /\ o \in socketUp' <=> o \in socketUp,
           \A v \in PresentUser \ {PresentOf[s]} :
               /\ connections'[v] = connections[v] /\ presence'[v] = presence[v]
               /\ v \in miscounted' <=> v \in miscounted
               /\ v \in stalePresence' <=> v \in stalePresence,
           miscounted \subseteq miscounted' \/ Quiet(PresentOf[s]),
           HandlerApart(s)', CounterCounts(PresentOf[s])', StatusFollows(PresentOf[s])'
    PROVE  PresenceIInv'
<1>1. \A o \in PresenceSocket : PresentOf[o] \in PresentUser BY PresenceAssumption
<1>2. ASSUME NEW o \in PresenceSocket PROVE HandlerApart(o)'
 <2>1. CASE o = s BY <2>1
 <2>2. CASE o # s
  <3>1. HandlerApart(o) BY DEF PresenceIInv
  <3>2. PresentOf[o] \in miscounted => PresentOf[o] \in miscounted' \/ greeting[o] = "idle"
    BY <1>1 DEF Quiet, Sockets
  <3>3. QED BY <2>2, <3>1, <3>2 DEF HandlerApart
 <2>3. QED BY <2>1, <2>2
<1>3. ASSUME NEW v \in PresentUser PROVE CounterCounts(v)' /\ StatusFollows(v)'
 <2>1. CASE v = PresentOf[s] BY <2>1
 <2>2. CASE v # PresentOf[s]
  <3>1. \A o \in Sockets(v) : o \in PresenceSocket \ {s} BY <2>2 DEF Sockets
  <3>2. CountedSockets(v)' = CountedSockets(v) /\ Removing(v)' = Removing(v)
   <4>1. CountedSockets(v)' = CountedSockets(v) BY <3>1 DEF CountedSockets, Sockets
   <4>2. Removing(v)' <=> Removing(v) BY <3>1 DEF Removing, Sockets
   <4>3. QED BY <4>1, <4>2 DEF Removing
  <3>3. CounterCounts(v) /\ StatusFollows(v) BY DEF PresenceIInv
  <3>4. CounterCounts(v)' BY <2>2, <3>2, <3>3 DEF CounterCounts
  <3>5. StatusFollows(v)'
   <4>1. /\ (\E o \in Sockets(v)' : greeting'[o] = "set") <=> \E o \in Sockets(v) : greeting[o] = "set"
         /\ (\E o \in Sockets(v)' : greeting'[o] = "set" \/ beat'[o] # "idle") <=>
                \E o \in Sockets(v) : greeting[o] = "set" \/ beat[o] # "idle"
     BY <3>1 DEF Sockets
   <4>2. QED BY <2>2, <3>2, <3>3, <4>1 DEF StatusFollows
  <3>6. QED BY <3>4, <3>5
 <2>3. QED BY <2>1, <2>2
<1>4. QED BY <1>2, <1>3 DEF PresenceIInv

\* A socket that is up and greeted counts: its user's counter is not zero.
LEMMA CountedNotZero ==
    ASSUME PresenceIInv, NEW s \in PresenceSocket, s \in CountedSockets(PresentOf[s]),
           PresentOf[s] \notin miscounted
    PROVE  connections[PresentOf[s]] > 0
<1> PICK u : u = PresentOf[s] OBVIOUS
<1>1. u \in PresentUser BY PresenceAssumption
<1>2. IsFiniteSet(CountedSockets(u)) /\ connections[u] = Cardinality(CountedSockets(u))
  BY <1>1 DEF PresenceIInv, CounterCounts
<1>3. Cardinality(CountedSockets(u)) # 0 BY <1>2, FS_EmptySet
<1>4. connections[u] \in Nat BY <1>1 DEF PresenceIInv, PresenceTypeOK
<1>5. QED BY <1>2, <1>3, <1>4

\* The socket's user, and what the invariant says of both.
LEMMA OfOneUser ==
    ASSUME PresenceIInv, NEW s \in PresenceSocket
    PROVE  /\ PresentOf[s] \in PresentUser /\ s \in Sockets(PresentOf[s])
           /\ HandlerApart(s) /\ CounterCounts(PresentOf[s]) /\ StatusFollows(PresentOf[s])
BY PresenceAssumption DEF PresenceIInv, Sockets

\* A step that changes the status only, and not to what the counter denies.
LEMMA StatusKeeps ==
    ASSUME PresenceIInv, NEW s \in PresenceSocket,
           UNCHANGED <<connections, socketUp, parting, miscounted>>,
           NEW status \in PresenceStatus \cup {NoStatus}, presence' = [presence EXCEPT ![PresentOf[s]] = status],
           NEW g \in {"idle", "set"}, greeting' = [greeting EXCEPT ![s] = g], greeting[s] # "incr",
           NEW b \in PresenceStatus \cup {"idle", "count"}, beat' = [beat EXCEPT ![s] = b],
           stalePresence' \subseteq PresentUser,
           \A v \in PresentUser \ {PresentOf[s]} : v \in stalePresence' <=> v \in stalePresence,
           b # "idle" => g = "idle", StatusFollows(PresentOf[s])'
    PROVE  PresenceIInv'
<1> PICK u : u = PresentOf[s] OBVIOUS
<1> USE DEF PresenceIInv
<1>1. u \in PresentUser /\ s \in Sockets(u) /\ HandlerApart(s) /\ CounterCounts(u) BY OfOneUser
<1>2. PresenceTypeOK' BY <1>1 DEF PresenceTypeOK
<1>3. /\ greeting'[s] = g /\ beat'[s] = b
      /\ \A o \in PresenceSocket \ {s} : greeting'[o] = greeting[o] /\ beat'[o] = beat[o]
      /\ \A v \in PresentUser \ {u} : presence'[v] = presence[v]
  BY DEF PresenceTypeOK
<1>4. HandlerApart(s)' BY <1>1, <1>3 DEF HandlerApart
<1>5. CounterCounts(u)'
 <2>1. CountedSockets(u)' = CountedSockets(u) BY <1>3 DEF CountedSockets, Sockets
 <2>2. QED BY <1>1, <2>1 DEF CounterCounts
<1>6. miscounted \subseteq miscounted' OBVIOUS
<1>7. QED BY <1>2, <1>3, <1>4, <1>5, <1>6, OneUsersAffair

\* The first connection's status is written.
LEMMA SetOnlineKeeps == ASSUME PresenceIInv, NEW s \in PresenceSocket, SetOnline(s) PROVE PresenceIInv'
<1> PICK u : u = PresentOf[s] OBVIOUS
<1>1. /\ greeting[s] = "set" /\ presence' = [presence EXCEPT ![u] = "ONLINE"]
      /\ greeting' = [greeting EXCEPT ![s] = "idle"]
      /\ UNCHANGED <<connections, socketUp, parting, beat, miscounted, stalePresence>>
  BY DEF SetOnline
<1>2. u \in PresentUser /\ s \in Sockets(u) /\ HandlerApart(s) /\ StatusFollows(u) BY OfOneUser
<1>3. "ONLINE" \in PresenceStatus \cup {NoStatus} /\ "ONLINE" # NoStatus BY PresenceAssumption
<1>4. presence'[u] = "ONLINE" BY <1>1, <1>2 DEF PresenceIInv, PresenceTypeOK
<1>5. Removing(u)' <=> Removing(u) BY <1>1 DEF Removing
<1>6. StatusFollows(u)' BY <1>1, <1>2, <1>3, <1>4, <1>5 DEF StatusFollows
<1>7. /\ beat' = [beat EXCEPT ![s] = "idle"] /\ "idle" \in PresenceStatus \cup {"idle", "count"}
  BY <1>1, <1>2 DEF PresenceIInv, PresenceTypeOK, HandlerApart
<1>8. stalePresence' \subseteq PresentUser /\ \A v \in PresentUser \ {u} : v \in stalePresence' <=> v \in stalePresence
  BY <1>1 DEF PresenceIInv, PresenceTypeOK
<1>9. QED BY <1>1, <1>3, <1>6, <1>7, <1>8, StatusKeeps

\* A connected client sets its status.
LEMMA SetStatusKeeps ==
    ASSUME PresenceIInv, NEW s \in PresenceSocket, NEW status \in PresenceStatus, SetStatus(s, status)
    PROVE  PresenceIInv'
<1> PICK u : u = PresentOf[s] OBVIOUS
<1>1. /\ s \in socketUp /\ greeting[s] = "idle" /\ presence' = [presence EXCEPT ![u] = status]
      /\ UNCHANGED <<connections, socketUp, greeting, parting, beat, miscounted, stalePresence>>
  BY DEF SetStatus
<1>2. u \in PresentUser /\ s \in Sockets(u) /\ HandlerApart(s) /\ StatusFollows(u) BY OfOneUser
<1>3. status # NoStatus BY PresenceAssumption
<1>4. presence'[u] = status BY <1>1, <1>2 DEF PresenceIInv, PresenceTypeOK
<1>5. Removing(u)' <=> Removing(u) BY <1>1 DEF Removing
<1>6. u \notin miscounted => connections[u] > 0 BY <1>1, <1>2, CountedNotZero DEF CountedSockets
<1>7. StatusFollows(u)' BY <1>1, <1>2, <1>3, <1>4, <1>5, <1>6 DEF StatusFollows
<1>8. /\ greeting' = [greeting EXCEPT ![s] = "idle"] /\ beat' = [beat EXCEPT ![s] = beat[s]]
      /\ beat[s] \in PresenceStatus \cup {"idle", "count"}
  BY <1>1, <1>2 DEF PresenceIInv, PresenceTypeOK
<1>9. stalePresence' \subseteq PresentUser /\ \A v \in PresentUser \ {u} : v \in stalePresence' <=> v \in stalePresence
  BY <1>1 DEF PresenceIInv, PresenceTypeOK
<1>10. QED BY <1>1, <1>7, <1>8, <1>9, StatusKeeps

\* A heartbeat reads the status, counts the connections, and writes.
LEMMA HeartbeatKeeps ==
    ASSUME PresenceIInv, NEW s \in PresenceSocket, HeartbeatGet(s) \/ HeartbeatCount(s) \/ HeartbeatSet(s)
    PROVE  PresenceIInv'
<1> PICK u : u = PresentOf[s] OBVIOUS
<1>1. u \in PresentUser /\ s \in Sockets(u) /\ HandlerApart(s) /\ StatusFollows(u) BY OfOneUser
<1>2. /\ presence[u] \in PresenceStatus \cup {NoStatus} /\ connections[u] \in Nat
      /\ beat[s] \in PresenceStatus \cup {"idle", "count"}
      /\ beat[s] \in PresenceStatus => beat[s] \notin {"idle", "count", NoStatus}
  BY <1>1, PresenceAssumption DEF PresenceIInv, PresenceTypeOK
<1>3. UNCHANGED <<connections, socketUp, greeting, parting, miscounted>>
  BY DEF HeartbeatGet, HeartbeatCount, HeartbeatSet
<1>4. greeting[s] = "idle" BY <1>1, <1>2 DEF HeartbeatGet, HeartbeatCount, HeartbeatSet, HandlerApart
<1>5. greeting' = [greeting EXCEPT ![s] = "idle"] BY <1>3, <1>4 DEF PresenceIInv, PresenceTypeOK
<1>6. Removing(u)' <=> Removing(u) BY <1>3 DEF Removing
<1>7. s \in socketUp /\ u \notin miscounted => connections[u] > 0
  BY <1>1, <1>4, CountedNotZero DEF CountedSockets
<1>8. CASE HeartbeatGet(s) \/ HeartbeatCount(s)
 <2>1. PICK b : b = IF HeartbeatGet(s) THEN IF presence[u] = NoStatus THEN "count" ELSE presence[u]
                    ELSE IF connections[u] > 0 THEN "ONLINE" ELSE "idle"
   OBVIOUS
 <2>2. /\ beat' = [beat EXCEPT ![s] = b] /\ UNCHANGED <<presence, stalePresence>>
       /\ s \in socketUp \/ beat[s] = "count"
   BY <1>8, <2>1 DEF HeartbeatGet, HeartbeatCount
 <2>3. b \in PresenceStatus \cup {"idle", "count"} BY <1>2, <2>1, PresenceAssumption
 <2>4. StatusFollows(u)'
  <3>1. \A o \in PresenceSocket : o # s => beat'[o] = beat[o] BY <2>2 DEF PresenceIInv, PresenceTypeOK
  <3>2. CASE s \in socketUp BY <1>1, <1>3, <1>6, <1>7, <2>2, <3>2 DEF StatusFollows
  <3>3. CASE beat[s] = "count"
   <4>1. (\E o \in Sockets(u) : greeting[o] = "set" \/ beat'[o] # "idle")
         => \E o \in Sockets(u) : greeting[o] = "set" \/ beat[o] # "idle"
     BY <1>1, <3>1, <3>3 DEF Sockets
   <4>2. QED BY <1>1, <1>3, <1>6, <2>2, <4>1 DEF StatusFollows, Sockets
  <3>4. QED BY <2>2, <3>2, <3>3
 <2>5. presence' = [presence EXCEPT ![u] = presence[u]] BY <1>1, <2>2 DEF PresenceIInv, PresenceTypeOK
 <2>6. /\ stalePresence' \subseteq PresentUser
       /\ \A v \in PresentUser \ {u} : v \in stalePresence' <=> v \in stalePresence
   BY <2>2 DEF PresenceIInv, PresenceTypeOK
 <2>7. QED BY <1>2, <1>3, <1>4, <1>5, <2>2, <2>3, <2>4, <2>5, <2>6, StatusKeeps
<1>9. CASE HeartbeatSet(s)
 <2> PICK status : status = beat[s] OBVIOUS
 <2>1. /\ status \in PresenceStatus /\ presence' = [presence EXCEPT ![u] = status]
       /\ beat' = [beat EXCEPT ![s] = "idle"]
       /\ stalePresence' = IF s \in socketUp /\ ~Removing(u) THEN stalePresence \ {u} ELSE stalePresence
   BY <1>9 DEF HeartbeatSet
 <2>2. presence'[u] = status /\ status # NoStatus BY <1>1, <1>2, <2>1 DEF PresenceIInv, PresenceTypeOK
 <2>3. StatusFollows(u)'
  <3>1. CASE s \in socketUp /\ ~Removing(u) BY <1>3, <1>6, <1>7, <2>2, <3>1 DEF StatusFollows
  <3>2. CASE ~(s \in socketUp /\ ~Removing(u))
   <4>1. u \notin miscounted /\ u \notin stalePresence /\ connections[u] = 0 => Removing(u)
     BY <1>1, <1>2, <2>1 DEF StatusFollows
   <4>2. u \notin miscounted /\ u \notin stalePresence /\ connections[u] > 0 => ~Removing(u)
     BY <1>1 DEF StatusFollows
   <4>3. QED BY <1>3, <1>6, <2>1, <2>2, <3>2, <4>1, <4>2 DEF StatusFollows
  <3>3. QED BY <3>1, <3>2
 <2>4. /\ stalePresence' \subseteq PresentUser
       /\ \A v \in PresentUser \ {u} : v \in stalePresence' <=> v \in stalePresence
   BY <2>1 DEF PresenceIInv, PresenceTypeOK
 <2>5. QED BY <1>3, <1>4, <1>5, <2>1, <2>3, <2>4, StatusKeeps
<1>10. QED BY <1>8, <1>9

\* A socket connects: nobody has counted it yet.
LEMMA GreetKeeps == ASSUME PresenceIInv, NEW s \in PresenceSocket, Greet(s) PROVE PresenceIInv'
<1> PICK u : u = PresentOf[s] OBVIOUS
<1> USE DEF PresenceIInv
<1>1. u \in PresentUser /\ s \in Sockets(u) /\ HandlerApart(s) /\ CounterCounts(u) /\ StatusFollows(u)
  BY OfOneUser
<1>2. /\ s \notin socketUp /\ greeting[s] = "idle" /\ parting[s] = "idle" /\ beat[s] = "idle"
      /\ socketUp' = socketUp \cup {s} /\ greeting' = [greeting EXCEPT ![s] = "incr"]
      /\ UNCHANGED <<presence, connections, parting, beat>>
  BY DEF Greet
<1>3. \/ /\ Absent(u) /\ Quiet(u) /\ connections[u] = 0 /\ presence[u] = NoStatus
         /\ miscounted' = miscounted \ {u} /\ stalePresence' = stalePresence \ {u}
      \/ UNCHANGED <<miscounted, stalePresence>>
  BY DEF Greet
<1>4. PresenceTypeOK' BY <1>2, <1>3 DEF PresenceTypeOK
<1>5. greeting'[s] = "incr" /\ \A o \in PresenceSocket \ {s} : greeting'[o] = greeting[o]
  BY <1>2 DEF PresenceTypeOK
<1>6. HandlerApart(s)' BY <1>2, <1>5 DEF HandlerApart
<1>7. CountedSockets(u)' = CountedSockets(u) /\ (Removing(u)' <=> Removing(u))
 <2>1. CountedSockets(u)' = CountedSockets(u) BY <1>2, <1>5 DEF CountedSockets, Sockets
 <2>2. Removing(u)' <=> Removing(u) BY <1>2 DEF Removing
 <2>3. QED BY <2>1, <2>2
<1>8. CounterCounts(u)' /\ StatusFollows(u)'
 <2>1. CASE UNCHANGED <<miscounted, stalePresence>>
  <3>1. CounterCounts(u)' BY <1>1, <1>2, <1>7, <2>1 DEF CounterCounts
  <3>2. /\ (\E o \in Sockets(u) : greeting'[o] = "set") <=> \E o \in Sockets(u) : greeting[o] = "set"
        /\ (\E o \in Sockets(u) : greeting'[o] = "set" \/ beat'[o] # "idle") <=>
               \E o \in Sockets(u) : greeting[o] = "set" \/ beat[o] # "idle"
    BY <1>2, <1>5 DEF Sockets
  <3>3. StatusFollows(u)' BY <1>1, <1>2, <1>7, <2>1, <3>2 DEF StatusFollows, Sockets
  <3>4. QED BY <3>1, <3>3
 <2>2. CASE Absent(u) /\ Quiet(u) /\ connections[u] = 0 /\ presence[u] = NoStatus
  <3>1. CountedSockets(u) = {} BY <2>2 DEF CountedSockets, Absent, Quiet, Sockets
  <3>2. CounterCounts(u)' BY <1>2, <1>7, <2>2, <3>1, FS_EmptySet DEF CounterCounts
  <3>3. \A o \in Sockets(u) : greeting'[o] # "set" /\ beat'[o] = "idle" BY <1>2, <1>5, <2>2 DEF Quiet, Sockets
  <3>4. StatusFollows(u)' BY <1>2, <2>2, <3>3 DEF StatusFollows, Sockets
  <3>5. QED BY <3>2, <3>4
 <2>3. QED BY <1>3, <2>1, <2>2
<1>9. miscounted \subseteq miscounted' \/ Quiet(u) BY <1>3
<1>10. \A v \in PresentUser \ {u} :
           /\ v \in miscounted' <=> v \in miscounted
           /\ v \in stalePresence' <=> v \in stalePresence
  BY <1>3
<1>11. QED BY <1>2, <1>4, <1>5, <1>6, <1>8, <1>9, <1>10, OneUsersAffair

\* The counter counts the socket; the first one has the status written.
LEMMA IncrementKeeps ==
    ASSUME PresenceIInv, NEW s \in PresenceSocket, incrementConnections(s) PROVE PresenceIInv'
<1> PICK u : u = PresentOf[s] OBVIOUS
<1> USE DEF PresenceIInv
<1>1. u \in PresentUser /\ s \in Sockets(u) /\ HandlerApart(s) /\ CounterCounts(u) /\ StatusFollows(u)
  BY OfOneUser
<1> PICK g : g = IF connections[u] = 0 THEN "set" ELSE "idle" OBVIOUS
<1>2. /\ greeting[s] = "incr" /\ connections[u] < MaxConnections
      /\ connections' = [connections EXCEPT ![u] = connections[u] + 1]
      /\ greeting' = [greeting EXCEPT ![s] = g]
      /\ stalePresence' = IF Removing(u) THEN stalePresence \cup {u} ELSE stalePresence
      /\ UNCHANGED <<presence, socketUp, parting, beat, miscounted>>
  BY DEF incrementConnections
<1>3. connections[u] \in Nat /\ MaxConnections \in Nat /\ g \in {"set", "idle"}
  BY <1>1, PresenceAssumption DEF PresenceTypeOK
<1>4. PresenceTypeOK' BY <1>1, <1>2, <1>3 DEF PresenceTypeOK
<1>5. /\ greeting'[s] = g /\ \A o \in PresenceSocket \ {s} : greeting'[o] = greeting[o]
      /\ connections'[u] = connections[u] + 1
      /\ \A v \in PresentUser \ {u} : connections'[v] = connections[v]
  BY <1>1, <1>2 DEF PresenceTypeOK
<1>6. HandlerApart(s)' BY <1>1, <1>2, <1>3, <1>5 DEF HandlerApart
<1>7. CounterCounts(u)'
 <2>1. s \notin CountedSockets(u) BY <1>2 DEF CountedSockets
 <2>2. CountedSockets(u)' \subseteq CountedSockets(u) \cup {s} /\ CountedSockets(u) \subseteq CountedSockets(u)'
   BY <1>2, <1>5, <2>1 DEF CountedSockets, Sockets
 <2>3. u \notin miscounted => s \in CountedSockets(u)'
   BY <1>1, <1>2, <1>3, <1>5 DEF HandlerApart, CountedSockets, Sockets
 <2>4. CountedSockets(u)' = CountedSockets(u) \/ CountedSockets(u)' = CountedSockets(u) \cup {s} BY <2>2
 <2>5. u \notin miscounted => CountedSockets(u)' = CountedSockets(u) \cup {s} BY <2>2, <2>3
 <2>6. /\ IsFiniteSet(CountedSockets(u) \cup {s})
       /\ Cardinality(CountedSockets(u) \cup {s}) = Cardinality(CountedSockets(u)) + 1
   BY <1>1, <2>1, FS_AddElement DEF CounterCounts
 <2>7. QED BY <1>1, <1>2, <1>5, <2>4, <2>5, <2>6 DEF CounterCounts
<1>8. StatusFollows(u)'
 <2>1. Removing(u)' <=> Removing(u) BY <1>2 DEF Removing
 <2>2. ASSUME u \notin miscounted, u \notin stalePresence, ~Removing(u)
       PROVE  presence[u] # NoStatus \/ \E o \in Sockets(u) : greeting'[o] = "set"
  <3>1. CASE connections[u] = 0 BY <1>1, <1>5, <3>1
  <3>2. CASE connections[u] # 0
   <4>1. connections[u] > 0 BY <1>3, <3>2
   <4>2. presence[u] # NoStatus \/ \E o \in Sockets(u) : greeting[o] = "set"
     BY <1>1, <2>2, <4>1 DEF StatusFollows
   <4>3. \A o \in Sockets(u) : greeting[o] = "set" => greeting'[o] = "set" BY <1>2, <1>5 DEF Sockets
   <4>4. QED BY <4>2, <4>3
  <3>3. QED BY <3>1, <3>2
 <2>3. connections'[u] # 0 BY <1>3, <1>5
 <2>4. Sockets(u)' = Sockets(u) BY DEF Sockets
 <2>5. QED BY <1>2, <2>1, <2>2, <2>3, <2>4 DEF StatusFollows
<1>9. /\ miscounted \subseteq miscounted'
      /\ \A v \in PresentUser \ {u} : v \in stalePresence' <=> v \in stalePresence
  BY <1>2
<1>10. QED BY <1>2, <1>4, <1>5, <1>6, <1>7, <1>8, <1>9, OneUsersAffair

\* A socket goes; its handler has yet to count it out.
LEMMA PartKeeps == ASSUME PresenceIInv, NEW s \in PresenceSocket, Part(s) PROVE PresenceIInv'
<1> PICK u : u = PresentOf[s] OBVIOUS
<1> USE DEF PresenceIInv
<1>1. u \in PresentUser /\ s \in Sockets(u) /\ HandlerApart(s) /\ CounterCounts(u) /\ StatusFollows(u)
  BY OfOneUser
<1>2. /\ s \in socketUp /\ parting[s] = "idle" /\ socketUp' = socketUp \ {s}
      /\ parting' = [parting EXCEPT ![s] = "decr"]
      /\ UNCHANGED <<presence, connections, greeting, beat, miscounted, stalePresence>>
  BY DEF Part
<1>3. PresenceTypeOK' BY <1>2 DEF PresenceTypeOK
<1>4. parting'[s] = "decr" /\ \A o \in PresenceSocket \ {s} : parting'[o] = parting[o]
  BY <1>2 DEF PresenceTypeOK
<1>5. HandlerApart(s)' BY <1>1, <1>2, <1>4 DEF HandlerApart
<1>6. CountedSockets(u)' = CountedSockets(u) BY <1>2, <1>4 DEF CountedSockets, Sockets
<1>7. Removing(u)' <=> Removing(u) BY <1>2, <1>4 DEF Removing, Sockets
<1>8. CounterCounts(u)' BY <1>1, <1>2, <1>6 DEF CounterCounts
<1>9. StatusFollows(u)' BY <1>1, <1>2, <1>7 DEF StatusFollows, Sockets
<1>10. QED BY <1>2, <1>3, <1>4, <1>5, <1>8, <1>9, OneUsersAffair

\* The counter forgets a socket; the last one's handler removes the status.
LEMMA DecrementKeeps ==
    ASSUME PresenceIInv, NEW s \in PresenceSocket, decrementConnections(s) PROVE PresenceIInv'
<1> PICK u : u = PresentOf[s] OBVIOUS
<1> USE DEF PresenceIInv
<1>1. u \in PresentUser /\ s \in Sockets(u) /\ HandlerApart(s) /\ CounterCounts(u) /\ StatusFollows(u)
  BY OfOneUser
<1> PICK left : left = IF connections[u] = 0 THEN 0 ELSE connections[u] - 1 OBVIOUS
<1> PICK p : p = IF left = 0 THEN "remove" ELSE "idle" OBVIOUS
<1>2. /\ parting[s] = "decr" /\ connections' = [connections EXCEPT ![u] = left]
      /\ parting' = [parting EXCEPT ![s] = p]
      /\ miscounted' = IF greeting[s] = "incr" THEN miscounted \cup {u} ELSE miscounted
      /\ UNCHANGED <<presence, socketUp, greeting, beat, stalePresence>>
  BY DEF decrementConnections
<1>3. /\ connections[u] \in 0..MaxConnections /\ MaxConnections \in Nat
      /\ left \in 0..MaxConnections /\ (left = 0 => p = "remove") /\ (left # 0 => p = "idle")
  BY <1>1, PresenceAssumption DEF PresenceTypeOK
<1>4. PresenceTypeOK' BY <1>1, <1>2, <1>3 DEF PresenceTypeOK
<1>5. /\ parting'[s] = p /\ \A o \in PresenceSocket \ {s} : parting'[o] = parting[o]
      /\ connections'[u] = left /\ \A v \in PresentUser \ {u} : connections'[v] = connections[v]
  BY <1>1, <1>2 DEF PresenceTypeOK
<1>6. s \notin socketUp BY <1>1, <1>2 DEF HandlerApart
<1>7. HandlerApart(s)' BY <1>1, <1>2, <1>6 DEF HandlerApart
<1>8. CounterCounts(u)'
 <2>1. CountedSockets(u)' = CountedSockets(u) \ {s} BY <1>2, <1>3, <1>5, <1>6 DEF CountedSockets, Sockets
 <2>2. IsFiniteSet(CountedSockets(u)) /\ IsFiniteSet(CountedSockets(u) \ {s})
   BY <1>1, FS_RemoveElement DEF CounterCounts
 <2>3. ASSUME u \notin miscounted' PROVE left = Cardinality(CountedSockets(u) \ {s})
  <3>1. u \notin miscounted /\ s \in CountedSockets(u) BY <1>1, <1>2, <2>3 DEF CountedSockets
  <3>2. connections[u] = Cardinality(CountedSockets(u)) /\ connections[u] > 0
    BY <1>1, <3>1, CountedNotZero DEF CounterCounts
  <3>3. Cardinality(CountedSockets(u) \ {s}) = Cardinality(CountedSockets(u)) - 1
    BY <2>2, <3>1, FS_RemoveElement
  <3>4. QED BY <1>3, <3>2, <3>3
 <2>4. QED BY <1>5, <2>1, <2>2, <2>3 DEF CounterCounts
<1>9. StatusFollows(u)'
 <2>1. CASE left = 0
  <3>1. Removing(u)' BY <1>1, <1>3, <1>5, <2>1 DEF Removing, Sockets
  <3>2. ~(connections'[u] > 0) BY <1>5, <2>1
  <3>3. QED BY <3>1, <3>2 DEF StatusFollows
 <2>2. CASE left # 0
  <3>1. connections[u] > 0 /\ connections'[u] # 0 BY <1>3, <1>5, <2>2
  <3>2. Removing(u)' => Removing(u) BY <1>3, <1>5, <2>2 DEF Removing, Sockets
  <3>3. u \notin miscounted' => u \notin miscounted BY <1>2
  <3>4. QED BY <1>1, <1>2, <3>1, <3>2, <3>3 DEF StatusFollows, Sockets
 <2>3. QED BY <2>1, <2>2
<1>10. /\ miscounted \subseteq miscounted'
       /\ \A v \in PresentUser \ {u} : v \in miscounted' <=> v \in miscounted
  BY <1>2
<1>11. QED BY <1>2, <1>4, <1>5, <1>7, <1>8, <1>9, <1>10, OneUsersAffair

\* Redis fails and the counter is never told.
LEMMA DecrementFailsKeeps ==
    ASSUME PresenceIInv, NEW s \in PresenceSocket, DecrementFails(s) PROVE PresenceIInv'
<1> PICK u : u = PresentOf[s] OBVIOUS
<1> USE DEF PresenceIInv
<1>1. u \in PresentUser /\ s \in Sockets(u) /\ HandlerApart(s) /\ CounterCounts(u) /\ StatusFollows(u)
  BY OfOneUser
<1>2. /\ parting[s] = "decr" /\ parting' = [parting EXCEPT ![s] = "idle"]
      /\ miscounted' = miscounted \cup {u}
      /\ UNCHANGED <<presence, connections, socketUp, greeting, beat, stalePresence>>
  BY DEF DecrementFails
<1>3. PresenceTypeOK' BY <1>1, <1>2 DEF PresenceTypeOK
<1>4. parting'[s] = "idle" /\ \A o \in PresenceSocket \ {s} : parting'[o] = parting[o]
  BY <1>2 DEF PresenceTypeOK
<1>5. HandlerApart(s)' BY <1>1, <1>2, <1>4 DEF HandlerApart
<1>6. CounterCounts(u)'
 <2>1. CountedSockets(u)' \subseteq CountedSockets(u) BY <1>2, <1>4 DEF CountedSockets, Sockets
 <2>2. IsFiniteSet(CountedSockets(u)') BY <1>1, <2>1, FS_Subset DEF CounterCounts
 <2>3. QED BY <1>2, <2>2 DEF CounterCounts
<1>7. StatusFollows(u)' BY <1>2 DEF StatusFollows
<1>8. /\ miscounted \subseteq miscounted'
      /\ \A v \in PresentUser \ {u} : v \in miscounted' <=> v \in miscounted
  BY <1>2
<1>9. QED BY <1>2, <1>3, <1>4, <1>5, <1>6, <1>7, <1>8, OneUsersAffair

\* The last disconnect removes the status, unnoticed by whoever is about to write one.
LEMMA RemovePresenceKeeps ==
    ASSUME PresenceIInv, NEW s \in PresenceSocket, RemovePresence(s) PROVE PresenceIInv'
<1> PICK u : u = PresentOf[s] OBVIOUS
<1> USE DEF PresenceIInv
<1>1. u \in PresentUser /\ s \in Sockets(u) /\ HandlerApart(s) /\ CounterCounts(u) /\ StatusFollows(u)
  BY OfOneUser
<1>2. /\ parting[s] = "remove" /\ presence' = [presence EXCEPT ![u] = NoStatus]
      /\ parting' = [parting EXCEPT ![s] = "idle"]
      /\ stalePresence' = IF \E o \in Sockets(u) : beat[o] # "idle" \/ greeting[o] = "set"
                          THEN stalePresence \cup {u} ELSE stalePresence
      /\ UNCHANGED <<connections, socketUp, greeting, beat, miscounted>>
  BY DEF RemovePresence
<1>3. PresenceTypeOK' BY <1>1, <1>2 DEF PresenceTypeOK
<1>4. /\ parting'[s] = "idle" /\ \A o \in PresenceSocket \ {s} : parting'[o] = parting[o]
      /\ presence'[u] = NoStatus /\ \A v \in PresentUser \ {u} : presence'[v] = presence[v]
  BY <1>1, <1>2 DEF PresenceTypeOK
<1>5. s \notin socketUp BY <1>1, <1>2 DEF HandlerApart
<1>6. HandlerApart(s)' BY <1>1, <1>2, <1>4 DEF HandlerApart
<1>7. CounterCounts(u)'
 <2>1. CountedSockets(u)' = CountedSockets(u) BY <1>2, <1>4, <1>5 DEF CountedSockets, Sockets
 <2>2. QED BY <1>1, <1>2, <2>1 DEF CounterCounts
<1>8. StatusFollows(u)'
 <2>1. Removing(u) BY <1>1, <1>2 DEF Removing
 <2>2. ASSUME u \notin miscounted, u \notin stalePresence'
       PROVE  /\ ~(connections[u] > 0)
              /\ ~\E o \in Sockets(u) : greeting[o] = "set" \/ beat[o] # "idle"
   BY <1>1, <1>2, <2>1, <2>2 DEF StatusFollows
 <2>3. QED BY <1>2, <1>4, <2>2 DEF StatusFollows, Sockets
<1>9. \A v \in PresentUser \ {u} : v \in stalePresence' <=> v \in stalePresence BY <1>2
<1>10. QED BY <1>2, <1>3, <1>4, <1>6, <1>7, <1>8, <1>9, OneUsersAffair

\* A key's time runs out.
LEMMA ExpiryKeeps ==
    ASSUME PresenceIInv, NEW u \in PresentUser, PresenceExpires(u) \/ CounterExpires(u) PROVE PresenceIInv'
<1> USE DEF PresenceIInv
<1>1. /\ UNCHANGED <<socketUp, greeting, parting, beat>>
      /\ miscounted \subseteq miscounted' /\ stalePresence \subseteq stalePresence'
  BY DEF PresenceExpires, CounterExpires
<1>2. PresenceTypeOK'
 <2>1. CASE PresenceExpires(u) BY <2>1 DEF PresenceExpires, PresenceTypeOK
 <2>2. CASE CounterExpires(u) BY <2>2, PresenceAssumption DEF CounterExpires, PresenceTypeOK
 <2>3. QED BY <2>1, <2>2
<1>3. ASSUME NEW s \in PresenceSocket PROVE HandlerApart(s)' BY <1>1 DEF HandlerApart
<1>4. ASSUME NEW v \in PresentUser PROVE CounterCounts(v)' /\ StatusFollows(v)'
 <2>1. CounterCounts(v) /\ StatusFollows(v) OBVIOUS
 <2>2. /\ CountedSockets(v)' = CountedSockets(v) /\ Sockets(v)' = Sockets(v) BY <1>1 DEF CountedSockets, Sockets
 <2>3. Removing(v)' <=> Removing(v) BY <1>1 DEF Removing, Sockets
 <2>4. /\ v \notin miscounted' => connections'[v] = connections[v]
       /\ v \notin miscounted' /\ v \notin stalePresence' => presence'[v] = presence[v]
  <3>1. CASE PresenceExpires(u) BY <3>1 DEF PresenceExpires, PresenceTypeOK
  <3>2. CASE CounterExpires(u) BY <3>2 DEF CounterExpires, PresenceTypeOK
  <3>3. QED BY <3>1, <3>2
 <2>5. CounterCounts(v)' BY <1>1, <2>1, <2>2, <2>4 DEF CounterCounts
 <2>6. StatusFollows(v)' BY <1>1, <2>1, <2>2, <2>3, <2>4 DEF StatusFollows
 <2>7. QED BY <2>5, <2>6
<1>5. QED BY <1>2, <1>3, <1>4

\* When none of a user's handlers is in flight the counter is the number of the user's
\* sockets, and the user has a status exactly while connected: unless a key expired or
\* a command failed or overlapped, as WsGateway's handlers and PresenceService leave it.
THEOREM PresenceSettles == PresenceSpec => [](PresenceTypeOK /\ SettledPresence)
<1>1. PresenceInit => PresenceIInv
 <2> SUFFICES ASSUME PresenceInit PROVE PresenceIInv OBVIOUS
 <2> USE DEF PresenceInit
 <2>1. PresenceTypeOK BY PresenceAssumption DEF PresenceTypeOK
 <2>2. \A s \in PresenceSocket : HandlerApart(s) BY DEF HandlerApart
 <2>3. ASSUME NEW u \in PresentUser PROVE CounterCounts(u) /\ StatusFollows(u)
  <3>1. CountedSockets(u) = {} BY DEF CountedSockets, Sockets
  <3>2. CounterCounts(u) BY <3>1, FS_EmptySet DEF CounterCounts
  <3>3. StatusFollows(u) BY DEF StatusFollows, Sockets
  <3>4. QED BY <3>2, <3>3
 <2>4. QED BY <2>1, <2>2, <2>3 DEF PresenceIInv
<1>2. PresenceIInv /\ [PresenceNext]_presenceVars => PresenceIInv'
 <2> SUFFICES ASSUME PresenceIInv, [PresenceNext]_presenceVars PROVE PresenceIInv' OBVIOUS
 <2>1. CASE \E s \in PresenceSocket :
                \/ Greet(s) \/ incrementConnections(s) \/ SetOnline(s)
                \/ \E status \in PresenceStatus : SetStatus(s, status)
   BY <2>1, GreetKeeps, IncrementKeeps, SetOnlineKeeps, SetStatusKeeps
 <2>2. CASE \E s \in PresenceSocket :
                Part(s) \/ decrementConnections(s) \/ DecrementFails(s) \/ RemovePresence(s)
   BY <2>2, PartKeeps, DecrementKeeps, DecrementFailsKeeps, RemovePresenceKeeps
 <2>3. CASE \E s \in PresenceSocket : HeartbeatGet(s) \/ HeartbeatCount(s) \/ HeartbeatSet(s)
   BY <2>3, HeartbeatKeeps
 <2>4. CASE \E u \in PresentUser : PresenceExpires(u) \/ CounterExpires(u) BY <2>4, ExpiryKeeps
 <2>5. CASE UNCHANGED presenceVars
  <3>1. UNCHANGED <<presence, connections, socketUp, greeting, parting, beat, miscounted, stalePresence>>
    BY <2>5 DEF presenceVars
  <3>2. PresenceTypeOK' /\ \A s \in PresenceSocket : HandlerApart(s)'
    BY <3>1 DEF PresenceIInv, PresenceTypeOK, HandlerApart
  <3>3. \A u \in PresentUser : CounterCounts(u)' /\ StatusFollows(u)'
   <4>1. \A u \in PresentUser : CounterCounts(u)'
     BY <3>1 DEF PresenceIInv, CounterCounts, CountedSockets, Sockets
   <4>2. \A u \in PresentUser : StatusFollows(u)' BY <3>1 DEF PresenceIInv, StatusFollows, Removing, Sockets
   <4>3. QED BY <4>1, <4>2
  <3>4. QED BY <3>2, <3>3 DEF PresenceIInv
 <2>6. QED BY <2>1, <2>2, <2>3, <2>4, <2>5 DEF PresenceNext
<1>3. PresenceIInv => SettledPresence
 <2> SUFFICES ASSUME PresenceIInv, NEW u \in PresentUser, Quiet(u), u \notin miscounted
              PROVE  /\ connections[u] = Cardinality(Sockets(u) \cap socketUp)
                     /\ u \notin stalePresence => (presence[u] = NoStatus <=> connections[u] = 0)
   BY DEF SettledPresence
 <2>1. CounterCounts(u) /\ StatusFollows(u) /\ connections[u] \in Nat BY DEF PresenceIInv, PresenceTypeOK
 <2>2. CountedSockets(u) = Sockets(u) \cap socketUp BY DEF CountedSockets, Quiet
 <2>3. ~Removing(u) /\ ~\E s \in Sockets(u) : greeting[s] = "set" BY DEF Removing, Quiet
 <2>4. QED BY <2>1, <2>2, <2>3 DEF CounterCounts, StatusFollows
<1>4. QED BY <1>1, <1>2, <1>3, PTL DEF PresenceSpec, PresenceIInv

------------------------------------------------------------
(* Screen shares                                                           *)

\* The shares of a user, and what tasks are about to do to a share.
Mine(u) == {x \in Share : Live(x) /\ PresenterOf[shareKey[x]] = u}
Unlisting(u, x) == \E t \in ShareTask : RemovesFor(t, u) /\ At(t, "unlist") /\ shareTask[t].share = x
BeingListed(x) == \E t \in ShareTask : At(t, "index") /\ shareTask[t].share = x
BeingStopped(x) == \E t \in ShareTask : Removes(t) /\ (x \in shareTask[t].shares \/ shareTask[t].share = x)

RemovalPc == {"views", "count", "next", "del", "unlist"}

\* The form that the handlers give their tasks. A removal is of its own socket's shares.
ShareTaskShaped(r) ==
    /\ r.pc # "idle" => r.socket \in ShareSocket
    /\ r.pc \in {"index", "add", "track", "del", "unlist"} => r.share \in Share
    /\ r.pc \in {"del", "unlist"} => r.views = {}
    /\ r.pc = "unlist" => ~Live(r.share)
    /\ r.pc \in {"idle", "validate", "put", "index", "add", "track"} => r.shares = {} /\ r.views = {}
    /\ r.pc \in RemovalPc => \A x \in Share : (x \in r.shares \/ x = r.share) => shareKey[x] \in {r.socket, NoShareSocket}

\* Unless it clashed, a start is alone with what its user has.
StartAlone(u) ==
    \A t \in ShareTask : StartsFor(t, u) =>
        /\ shareTask[t].socket \in online
        /\ \A o \in ShareTask : o # t => ~StartsFor(o, u) /\ ~RemovesFor(o, u)
        /\ At(t, "validate") => Mine(u) \subseteq {userShare[u]}
        /\ At(t, "put") => Mine(u) = {}
        /\ At(t, "index") => Mine(u) = {shareTask[t].share}

\* The index names what the user has, up to what is about to be indexed or unlisted.
IndexNames(u) ==
    /\ (\A t \in ShareTask : ~StartsFor(t, u)) => Mine(u) \subseteq {userShare[u]}
    /\ userShare[u] # NoShare => userShare[u] \in Mine(u) \/ Unlisting(u, userShare[u])
    /\ \A t \in ShareTask : RemovesFor(t, u) /\ shareTask[t].share # NoShare =>
           userShare[u] \in {shareTask[t].share, NoShare}

\* A share is listed and its socket connected, or a task is seeing to it.
SharesShown(u) ==
    \A x \in Mine(u) :
        /\ x \in channelShares \/ BeingListed(x)
        /\ shareKey[x] \in online \/ BeingStopped(x)

UserAgrees(u) == u \notin clash => StartAlone(u) /\ IndexNames(u) /\ SharesShown(u)

\* Unless it met a removal, a viewer on its way is undisturbed.
JoinApart(r) ==
    \A s \in ShareSocket : (r.pc \in {"add", "track"} /\ r.socket = s /\ s \notin torn) =>
        /\ Live(r.share) /\ s \in online
        /\ r.pc = "track" => s \in viewersOf[r.share]
        /\ \A o \in ShareTask : Removes(o) =>
               shareTask[o].share # r.share /\ <<r.share, s>> \notin shareTask[o].views

Tracking(x, s) == \E t \in ShareTask : At(t, "track") /\ shareTask[t].socket = s /\ shareTask[t].share = x
ViewEnding(x, s) == \E t \in ShareTask : Removes(t) /\ <<x, s>> \in shareTask[t].views

\* A viewer and its share name each other, the share is live and the viewer connected,
\* or a task is seeing to it; and whoever removes the share removes the view.
ViewAgrees(x, s) ==
    /\ x \in sharesSeen[s] => s \in viewersOf[x]
    /\ s \in viewersOf[x] =>
           /\ Live(x)
           /\ x \in sharesSeen[s] \/ Tracking(x, s)
           /\ s \in online \/ ViewEnding(x, s)
           /\ \A t \in ShareTask : Removes(t) /\ shareTask[t].share = x => <<x, s>> \in shareTask[t].views

ViewerKept(s) ==
    /\ sharesSeen[s] # {} => s \in viewerKnown
    /\ s \in viewerKnown => sharesSeen[s] # {} \/ \E t \in ShareTask : At(t, "count")

ShareIInv ==
    /\ ScreenShareTypeOK
    /\ \A t \in ShareTask : ShareTaskShaped(shareTask[t]) /\ JoinApart(shareTask[t])
    /\ \A u \in Presenter : UserAgrees(u)
    /\ \A s \in ShareSocket : (s \notin torn => \A x \in Share : ViewAgrees(x, s)) /\ ViewerKept(s)

\* What a task's step does to the tasks.
LEMMA ShareTaskRuns ==
    ASSUME ScreenShareTypeOK, NEW t \in ShareTask, NEW n \in ShareTaskType, Running(t, n)
    PROVE  /\ shareTask' \in [ShareTask -> ShareTaskType] /\ shareTask'[t] = n
           /\ \A o \in ShareTask : o # t => shareTask'[o] = shareTask[o]
BY DEF ScreenShareTypeOK, Running

\* What a task of the invariant is.
LEMMA ShareTaskIs ==
    ASSUME ShareIInv, NEW t \in ShareTask
    PROVE  /\ shareTask[t] \in ShareTaskType /\ ShareTaskShaped(shareTask[t]) /\ JoinApart(shareTask[t])
           /\ shareTask[t].socket \in ShareSocket \cup {NoShareSocket}
           /\ shareTask[t].share \in Share \cup {NoShare} /\ shareTask[t].shares \subseteq Share
           /\ shareTask[t].views \subseteq Share \X ShareSocket
<1>1. shareTask[t] \in ShareTaskType BY DEF ShareIInv, ScreenShareTypeOK
<1>2. QED BY <1>1 DEF ShareIInv, ShareTaskType

\* Whether a record is a start, or a removal, for a user.
StartsIn(r, u) == r.pc \in {"validate", "put", "index"} /\ PresenterOf[r.socket] = u
RemovesIn(r, u) == r.pc \in RemovalPc /\ r.socket # NoShareSocket /\ PresenterOf[r.socket] = u

\* A step is no affair of a user whom neither the old nor the new task concerns.
LEMMA OtherPresenters ==
    ASSUME ShareIInv, NEW t \in ShareTask, NEW n \in ShareTaskType, Running(t, n), NEW u \in Presenter,
           ~StartsIn(shareTask[t], u), ~StartsIn(n, u), ~RemovesIn(shareTask[t], u), ~RemovesIn(n, u),
           userShare'[u] = userShare[u], clash \subseteq clash', Mine(u)' = Mine(u),
           \A x \in Mine(u) : shareKey'[x] = shareKey[x] /\ (x \in channelShares => x \in channelShares'),
           shareTask[t].pc = "index" => shareTask[t].share \in channelShares',
           \A s \in online : PresenterOf[s] = u => s \in online'
    PROVE  UserAgrees(u)'
<1> SUFFICES ASSUME u \notin clash' PROVE StartAlone(u)' /\ IndexNames(u)' /\ SharesShown(u)' BY DEF UserAgrees
<1>1. /\ shareTask'[t] = n /\ \A o \in ShareTask : o # t => shareTask'[o] = shareTask[o]
      /\ StartAlone(u) /\ IndexNames(u) /\ SharesShown(u)
  BY ShareTaskRuns DEF ShareIInv, UserAgrees
<1>2. ASSUME NEW o \in ShareTask
      PROVE  /\ StartsFor(o, u)' => o # t /\ StartsFor(o, u)
             /\ StartsFor(o, u) => o # t /\ StartsFor(o, u)'
             /\ RemovesFor(o, u)' => o # t /\ RemovesFor(o, u)
             /\ RemovesFor(o, u) => o # t /\ RemovesFor(o, u)'
  BY <1>1 DEF StartsFor, RemovesFor, Removes, StartsIn, RemovesIn, RemovalPc
<1>3. \A o \in ShareTask : o # t =>
          /\ At(o, "validate")' <=> At(o, "validate")
          /\ At(o, "put")' <=> At(o, "put")
          /\ At(o, "index")' <=> At(o, "index")
  BY <1>1 DEF At
<1>4. StartAlone(u)'
 <2>1. ASSUME NEW o \in ShareTask, StartsFor(o, u)'
       PROVE  /\ shareTask'[o].socket \in online'
              /\ \A p \in ShareTask : p # o => ~StartsFor(p, u)' /\ ~RemovesFor(p, u)'
              /\ At(o, "validate")' => Mine(u)' \subseteq {userShare'[u]}
              /\ At(o, "put")' => Mine(u)' = {}
              /\ At(o, "index")' => Mine(u)' = {shareTask'[o].share}
  <3>1. o # t /\ StartsFor(o, u) /\ shareTask'[o] = shareTask[o] BY <1>1, <1>2, <2>1
  <3>2. PresenterOf[shareTask[o].socket] = u BY <3>1 DEF StartsFor
  <3>3. QED BY <1>1, <1>2, <1>3, <3>1, <3>2 DEF StartAlone
 <2>2. QED BY <2>1 DEF StartAlone
<1>5. IndexNames(u)'
 <2>1. (\A o \in ShareTask : ~StartsFor(o, u)') => Mine(u)' \subseteq {userShare'[u]}
   BY <1>1, <1>2 DEF IndexNames
 <2>2. Unlisting(u, userShare[u]) => Unlisting(u, userShare[u])' BY <1>1, <1>2 DEF Unlisting, At
 <2>3. userShare'[u] # NoShare => userShare'[u] \in Mine(u)' \/ Unlisting(u, userShare[u])'
   BY <1>1, <2>2 DEF IndexNames
 <2>4. \A o \in ShareTask : RemovesFor(o, u)' /\ shareTask'[o].share # NoShare =>
           userShare'[u] \in {shareTask'[o].share, NoShare}
   BY <1>1, <1>2 DEF IndexNames
 <2>5. QED BY <2>1, <2>3, <2>4 DEF IndexNames, Unlisting
<1>6. SharesShown(u)'
 <2>1. ASSUME NEW x \in Mine(u)
       PROVE  /\ x \in channelShares' \/ BeingListed(x)'
              /\ shareKey'[x] \in online' \/ BeingStopped(x)'
  <3>1. x \in Share /\ Live(x) /\ PresenterOf[shareKey[x]] = u BY DEF Mine
  <3>2. BeingListed(x) => x \in channelShares' \/ BeingListed(x)' BY <1>1 DEF BeingListed, At
  <3>3. ASSUME NEW o \in ShareTask, Removes(o), x \in shareTask[o].shares \/ shareTask[o].share = x
        PROVE  o # t
   <4>1. shareTask[o].pc \in RemovalPc /\ ShareTaskShaped(shareTask[o])
     BY <3>3, ShareTaskIs DEF Removes, RemovalPc
   <4>2. shareTask[o].socket = shareKey[x] BY <3>1, <3>3, <4>1 DEF ShareTaskShaped, Live
   <4>3. RemovesIn(shareTask[o], u) BY <3>1, <4>1, <4>2 DEF RemovesIn, Live
   <4>4. QED BY <4>3
  <3>4. BeingStopped(x) => BeingStopped(x)' BY <1>1, <3>3 DEF BeingStopped, Removes
  <3>5. shareKey[x] \in online => shareKey'[x] \in online' BY <3>1
  <3>6. QED BY <1>1, <3>2, <3>4, <3>5 DEF SharesShown
 <2>2. QED BY <2>1 DEF SharesShown
<1>7. QED BY <1>4, <1>5, <1>6

\* A step that leaves the share keys alone, and is no start, keeps the users' agreement
\* if a removal keeps what it removes.
LEMMA SharesStand ==
    ASSUME ShareIInv, NEW t \in ShareTask, NEW n \in ShareTaskType, Running(t, n),
           UNCHANGED <<shareKey, channelShares, userShare>>, clash \subseteq clash',
           shareTask[t].pc \notin {"validate", "put", "index", "unlist"}, n.pc \notin {"validate", "put", "index"},
           \A u \in Presenter : (u \notin clash' /\ RemovesIn(n, u)) =>
               /\ \A o \in ShareTask : ~StartsFor(o, u)
               /\ n.share # NoShare => userShare[u] \in {n.share, NoShare},
           \A x \in Share : (Live(x) /\ shareTask[t].pc \in RemovalPc
                             /\ (x \in shareTask[t].shares \/ x = shareTask[t].share))
                            => n.pc \in RemovalPc /\ (x \in n.shares \/ x = n.share),
           \A x \in Share : (Live(x) /\ shareKey[x] \in online \ online')
                            => n.pc \in RemovalPc /\ (x \in n.shares \/ x = n.share),
           \A u \in Presenter : \A o \in ShareTask :
               (u \notin clash' /\ StartsFor(o, u)) => shareTask[o].socket \in online'
    PROVE  \A u \in Presenter : UserAgrees(u)'
<1> TAKE u \in Presenter
<1> SUFFICES ASSUME u \notin clash' PROVE StartAlone(u)' /\ IndexNames(u)' /\ SharesShown(u)' BY DEF UserAgrees
<1>1. /\ shareTask'[t] = n /\ \A o \in ShareTask : o # t => shareTask'[o] = shareTask[o]
      /\ StartAlone(u) /\ IndexNames(u) /\ SharesShown(u)
  BY ShareTaskRuns DEF ShareIInv, UserAgrees
<1>2. \A o \in ShareTask : StartsFor(o, u)' <=> StartsFor(o, u) BY <1>1 DEF StartsFor
<1>3. \A o \in ShareTask : o # t => (RemovesFor(o, u)' <=> RemovesFor(o, u)) BY <1>1 DEF RemovesFor, Removes
<1>4. RemovesFor(t, u)' <=> RemovesIn(n, u) BY <1>1 DEF RemovesFor, Removes, RemovesIn, RemovalPc
<1>5. Mine(u)' = Mine(u) BY DEF Mine, Live
<1>6. StartAlone(u)'
 <2>1. ASSUME NEW o \in ShareTask, StartsFor(o, u)'
       PROVE  /\ shareTask'[o].socket \in online'
              /\ \A p \in ShareTask : p # o => ~StartsFor(p, u)' /\ ~RemovesFor(p, u)'
              /\ At(o, "validate")' => Mine(u)' \subseteq {userShare'[u]}
              /\ At(o, "put")' => Mine(u)' = {}
              /\ At(o, "index")' => Mine(u)' = {shareTask'[o].share}
  <3>1. StartsFor(o, u) /\ o # t /\ shareTask'[o] = shareTask[o] BY <1>1, <1>2, <2>1 DEF StartsFor
  <3>2. ~RemovesFor(t, u)' BY <1>4, <3>1
  <3>3. \A p \in ShareTask : p # o => ~StartsFor(p, u)' /\ ~RemovesFor(p, u)'
    BY <1>1, <1>2, <1>3, <3>1, <3>2 DEF StartAlone
  <3>4. /\ At(o, "validate")' => Mine(u)' \subseteq {userShare'[u]}
        /\ At(o, "put")' => Mine(u)' = {}
        /\ At(o, "index")' => Mine(u)' = {shareTask'[o].share}
    BY <1>1, <1>5, <3>1 DEF StartAlone, At
  <3>5. QED BY <3>1, <3>3, <3>4
 <2>2. QED BY <2>1 DEF StartAlone
<1>7. IndexNames(u)'
 <2>1. (\A o \in ShareTask : ~StartsFor(o, u)') => Mine(u)' \subseteq {userShare'[u]}
   BY <1>1, <1>2, <1>5 DEF IndexNames
 <2>2. Unlisting(u, userShare[u]) => Unlisting(u, userShare[u])' BY <1>1, <1>3 DEF Unlisting, At
 <2>3. userShare'[u] # NoShare => userShare'[u] \in Mine(u)' \/ Unlisting(u, userShare[u])'
   BY <1>1, <1>5, <2>2 DEF IndexNames
 <2>4. ASSUME NEW o \in ShareTask, RemovesFor(o, u)', shareTask'[o].share # NoShare
       PROVE  userShare'[u] \in {shareTask'[o].share, NoShare}
  <3>1. CASE o = t BY <1>1, <1>4, <2>4, <3>1
  <3>2. CASE o # t BY <1>1, <1>3, <2>4, <3>2 DEF IndexNames
  <3>3. QED BY <3>1, <3>2
 <2>5. QED BY <2>1, <2>3, <2>4 DEF IndexNames, Unlisting
<1>8. SharesShown(u)'
 <2>1. ASSUME NEW x \in Mine(u)
       PROVE  /\ x \in channelShares' \/ BeingListed(x)'
              /\ shareKey'[x] \in online' \/ BeingStopped(x)'
  <3>1. x \in Share /\ Live(x) BY DEF Mine
  <3>2. BeingListed(x) => BeingListed(x)' BY <1>1 DEF BeingListed, At
  <3>3. BeingStopped(x) \/ (n.pc \in RemovalPc /\ (x \in n.shares \/ x = n.share)) => BeingStopped(x)'
   <4>1. ASSUME NEW o \in ShareTask, Removes(o), x \in shareTask[o].shares \/ shareTask[o].share = x
         PROVE  BeingStopped(x)'
    <5>1. CASE o # t BY <1>1, <4>1, <5>1 DEF BeingStopped, Removes
    <5>2. CASE o = t BY <1>1, <3>1, <4>1, <5>2 DEF BeingStopped, Removes, RemovalPc
    <5>3. QED BY <5>1, <5>2
   <4>2. (n.pc \in RemovalPc /\ (x \in n.shares \/ x = n.share)) => BeingStopped(x)'
     BY <1>1 DEF BeingStopped, Removes, RemovalPc
   <4>3. QED BY <4>1, <4>2 DEF BeingStopped
  <3>4. x \in channelShares \/ BeingListed(x) BY <1>1 DEF SharesShown
  <3>5. shareKey[x] \in online \/ BeingStopped(x) BY <1>1 DEF SharesShown
  <3>6. shareKey'[x] \in online' \/ BeingStopped(x)' BY <3>1, <3>3, <3>5
  <3>7. QED BY <3>2, <3>4, <3>6
 <2>2. QED BY <1>5, <2>1 DEF SharesShown
<1>9. QED BY <1>6, <1>7, <1>8

\* What a task becomes disturbs no viewer on the way to a share.
Undisturbed(t, n) ==
    \A o \in ShareTask : \A s \in ShareSocket :
        (o # t /\ s \notin torn' /\ AddsViewer(o, s)) =>
            /\ s \in online => s \in online'
            /\ n.pc \in RemovalPc => n.share # shareTask[o].share /\ <<shareTask[o].share, s>> \notin n.views

\* It sees to the views that it did, those of who disconnects and those of its share.
SeesToViews(t, n) ==
    \A x \in Share : \A s \in ShareSocket : s \notin torn' =>
        /\ (shareTask[t].pc \in RemovalPc /\ <<x, s>> \in shareTask[t].views)
               => n.pc \in RemovalPc /\ <<x, s>> \in n.views
        /\ (s \in viewersOf[x] /\ s \in online \ online' /\ x \in sharesSeen[s])
               => n.pc \in RemovalPc /\ <<x, s>> \in n.views
        /\ (n.pc \in RemovalPc /\ n.share = x /\ s \in viewersOf[x]) => <<x, s>> \in n.views

\* A step that leaves the viewers' keys alone keeps their agreement if what it begins
\* disturbs nobody on the way, and a removal keeps what it removes.
LEMMA ViewsStand ==
    ASSUME ShareIInv, NEW t \in ShareTask, NEW n \in ShareTaskType, Running(t, n),
           UNCHANGED <<viewersOf, sharesSeen, viewerKnown>>, torn \subseteq torn',
           \A x \in Share : Live(x) => Live(x)',
           shareTask[t].pc \notin {"track", "count"}, JoinApart(n)',
           Undisturbed(t, n), SeesToViews(t, n)
    PROVE  /\ \A o \in ShareTask : JoinApart(shareTask[o])'
           /\ \A s \in ShareSocket : (s \notin torn' => \A x \in Share : ViewAgrees(x, s)') /\ ViewerKept(s)'
<1>1. /\ shareTask'[t] = n /\ \A o \in ShareTask : o # t => shareTask'[o] = shareTask[o]
  BY ShareTaskRuns DEF ShareIInv
<1>2. ASSUME NEW o \in ShareTask PROVE JoinApart(shareTask[o])'
 <2>1. CASE o = t BY <1>1, <2>1
 <2>2. CASE o # t
  <3> PICK r : r = shareTask[o] OBVIOUS
  <3>1. ShareTaskShaped(r) /\ JoinApart(r) /\ shareTask'[o] = r BY <1>1, <2>2, ShareTaskIs
  <3>2. ASSUME NEW s \in ShareSocket, r.pc \in {"add", "track"}, r.socket = s, s \notin torn'
        PROVE  /\ Live(r.share)' /\ s \in online'
               /\ r.pc = "track" => s \in viewersOf'[r.share]
               /\ \A p \in ShareTask : Removes(p)' =>
                      shareTask'[p].share # r.share /\ <<r.share, s>> \notin shareTask'[p].views
   <4>1. s \notin torn /\ AddsViewer(o, s) /\ r.share \in Share BY <3>1, <3>2 DEF AddsViewer, ShareTaskShaped
   <4>2. /\ Live(r.share) /\ s \in online
         /\ r.pc = "track" => s \in viewersOf[r.share]
         /\ \A p \in ShareTask : Removes(p) =>
                shareTask[p].share # r.share /\ <<r.share, s>> \notin shareTask[p].views
     BY <3>1, <3>2, <4>1 DEF JoinApart
   <4>3. ASSUME NEW p \in ShareTask, Removes(p)'
         PROVE  shareTask'[p].share # r.share /\ <<r.share, s>> \notin shareTask'[p].views
    <5>1. CASE p = t BY <1>1, <2>2, <3>2, <4>1, <4>3, <5>1 DEF Removes, RemovalPc, Undisturbed
    <5>2. CASE p # t BY <1>1, <4>2, <4>3, <5>2 DEF Removes
    <5>3. QED BY <5>1, <5>2
   <4>4. s \in online' BY <2>2, <3>2, <4>1, <4>2 DEF Undisturbed
   <4>5. QED BY <4>1, <4>2, <4>3, <4>4
  <3>3. QED BY <3>1, <3>2 DEF JoinApart
 <2>3. QED BY <2>1, <2>2
<1>3. ASSUME NEW s \in ShareSocket, s \notin torn', NEW x \in Share PROVE ViewAgrees(x, s)'
 <2>1. ViewAgrees(x, s) /\ s \notin torn BY <1>3 DEF ShareIInv
 <2>2. Tracking(x, s) => Tracking(x, s)' BY <1>1 DEF Tracking, At
 <2>3. ViewEnding(x, s) \/ (n.pc \in RemovalPc /\ <<x, s>> \in n.views) => ViewEnding(x, s)'
  <3>1. ASSUME NEW o \in ShareTask, Removes(o), <<x, s>> \in shareTask[o].views
        PROVE  ViewEnding(x, s)'
   <4>1. CASE o # t BY <1>1, <3>1, <4>1 DEF ViewEnding, Removes
   <4>2. CASE o = t BY <1>1, <1>3, <3>1, <4>2 DEF ViewEnding, Removes, RemovalPc, SeesToViews
   <4>3. QED BY <4>1, <4>2
  <3>2. (n.pc \in RemovalPc /\ <<x, s>> \in n.views) => ViewEnding(x, s)'
    BY <1>1 DEF ViewEnding, Removes, RemovalPc
  <3>3. QED BY <3>1, <3>2 DEF ViewEnding
 <2>4. ASSUME s \in viewersOf[x]
       PROVE  /\ Live(x)' /\ (x \in sharesSeen[s] \/ Tracking(x, s)')
              /\ s \in online' \/ ViewEnding(x, s)'
  <3>1. Live(x)' /\ (x \in sharesSeen[s] \/ Tracking(x, s)') BY <2>1, <2>2, <2>4 DEF ViewAgrees
  <3>2. CASE s \notin online BY <2>1, <2>3, <2>4, <3>1, <3>2 DEF ViewAgrees
  <3>3. CASE s \in online /\ x \in sharesSeen[s] BY <1>3, <2>3, <2>4, <3>1, <3>3 DEF SeesToViews
  <3>4. CASE s \in online /\ Tracking(x, s)
   <4>1. PICK o \in ShareTask : At(o, "track") /\ shareTask[o].socket = s BY <3>4 DEF Tracking
   <4>2. o # t /\ AddsViewer(o, s) BY <4>1 DEF At, AddsViewer
   <4>3. QED BY <1>3, <3>1, <3>4, <4>2 DEF Undisturbed
  <3>5. QED BY <2>1, <2>4, <3>1, <3>2, <3>3, <3>4 DEF ViewAgrees
 <2>5. ASSUME s \in viewersOf[x], NEW o \in ShareTask, Removes(o)', shareTask'[o].share = x
       PROVE  <<x, s>> \in shareTask'[o].views
  <3>1. CASE o = t BY <1>1, <1>3, <2>5, <3>1 DEF Removes, RemovalPc, SeesToViews
  <3>2. CASE o # t BY <1>1, <2>1, <2>5, <3>2 DEF Removes, ViewAgrees
  <3>3. QED BY <3>1, <3>2
 <2>6. QED BY <2>1, <2>4, <2>5 DEF ViewAgrees
<1>4. ASSUME NEW s \in ShareSocket PROVE ViewerKept(s)'
 <2>1. ViewerKept(s) BY DEF ShareIInv
 <2>2. (\E o \in ShareTask : At(o, "count")) => \E o \in ShareTask : At(o, "count")' BY <1>1 DEF At
 <2>3. QED BY <2>1, <2>2 DEF ViewerKept
<1>5. QED BY <1>2, <1>3, <1>4

\* Tasks keep their shape where the share keys stand still.
LEMMA ShapesStand ==
    ASSUME ShareIInv, NEW t \in ShareTask, NEW n \in ShareTaskType, Running(t, n), UNCHANGED shareKey,
           ShareTaskShaped(n)
    PROVE  \A o \in ShareTask : ShareTaskShaped(shareTask[o])'
<1>1. /\ shareTask'[t] = n /\ \A o \in ShareTask : o # t => shareTask'[o] = shareTask[o]
  BY ShareTaskRuns DEF ShareIInv
<1>2. ASSUME NEW r, ShareTaskShaped(r) PROVE ShareTaskShaped(r)' BY <1>2 DEF ShareTaskShaped, Live
<1>3. ASSUME NEW o \in ShareTask PROVE ShareTaskShaped(shareTask[o])'
 <2> PICK r : r = shareTask'[o] OBVIOUS
 <2>1. ShareTaskShaped(r) BY <1>1, ShareTaskIs
 <2>2. ShareTaskShaped(r)' BY <1>2, <2>1
 <2>3. QED BY <2>2
<1>4. QED BY <1>3

\* The invariant from its parts, where a task's step keeps the types.
LEMMA SharesTogether ==
    ASSUME ScreenShareTypeOK',
           \A o \in ShareTask : ShareTaskShaped(shareTask[o])', \A o \in ShareTask : JoinApart(shareTask[o])',
           \A u \in Presenter : UserAgrees(u)',
           \A s \in ShareSocket : (s \notin torn' => \A x \in Share : ViewAgrees(x, s)') /\ ViewerKept(s)'
    PROVE  ShareIInv'
BY DEF ShareIInv

\* No task.
LEMMA NoShareTaskIs ==
    /\ NoShareTask \in ShareTaskType /\ NoShareTask.pc = "idle" /\ NoShareTask.socket = NoShareSocket
    /\ NoShareTask.share = NoShare /\ NoShareTask.shares = {} /\ NoShareTask.views = {}
<1> PICK r : r = NoShareTask OBVIOUS
<1>1. /\ r \in ShareTaskType /\ r.pc = "idle" /\ r.socket = NoShareSocket
      /\ r.share = NoShare /\ r.shares = {} /\ r.views = {}
  BY DEF NoShareTask, ShareTaskType
<1>2. QED BY <1>1

\* The task that a start begins with.
LEMMA StartTask ==
    ASSUME NEW s \in ShareSocket
    PROVE  LET n == [NoShareTask EXCEPT !.pc = "validate", !.socket = s] IN
               /\ n \in ShareTaskType /\ n.pc = "validate" /\ n.socket = s /\ n.share = NoShare
               /\ n.shares = {} /\ n.views = {}
<1> PICK r : r = NoShareTask OBVIOUS
<1>1. LET n == [r EXCEPT !.pc = "validate", !.socket = s] IN
          /\ n \in ShareTaskType /\ n.pc = "validate" /\ n.socket = s /\ n.share = NoShare
          /\ n.shares = {} /\ n.views = {}
  BY NoShareTaskIs DEF ShareTaskType
<1>2. QED BY <1>1

\* The task that a viewer-join begins with.
LEMMA JoinTask ==
    ASSUME NEW s \in ShareSocket, NEW x \in Share
    PROVE  LET n == [NoShareTask EXCEPT !.pc = "add", !.socket = s, !.share = x] IN
               /\ n \in ShareTaskType /\ n.pc = "add" /\ n.socket = s /\ n.share = x
               /\ n.shares = {} /\ n.views = {}
<1> PICK r : r = NoShareTask OBVIOUS
<1>1. LET n == [r EXCEPT !.pc = "add", !.socket = s, !.share = x] IN
          /\ n \in ShareTaskType /\ n.pc = "add" /\ n.socket = s /\ n.share = x
          /\ n.shares = {} /\ n.views = {}
  BY NoShareTaskIs DEF ShareTaskType
<1>2. QED BY <1>1

\* Tasks that add no viewer need nothing.
LEMMA NoJoin == ASSUME NEW r, r.pc \notin {"add", "track"} PROVE JoinApart(r)'
BY DEF JoinApart

\* A viewer begins to join: whatever removal concerns it tears its view.
LEMMA ViewerJoinKeeps ==
    ASSUME ShareIInv, NEW t \in ShareTask, NEW s \in ShareSocket, NEW x \in Share, ViewerJoin(t, s, x)
    PROVE  ShareIInv'
<1> PICK n : n = [NoShareTask EXCEPT !.pc = "add", !.socket = s, !.share = x] OBVIOUS
<1>1. /\ shareTask[t].pc = "idle" /\ s \in online /\ Live(x) /\ Running(t, n)
      /\ torn' = IF \E o \in ShareTask :
                        Removes(o) /\ (shareTask[o].share = x \/ x \in shareTask[o].shares
                                       \/ shareTask[o].socket = s
                                       \/ \E y \in Share : <<y, s>> \in shareTask[o].views)
                 THEN torn \cup {s} ELSE torn
      /\ UNCHANGED <<online, clash, shareKey, channelShares, userShare, viewersOf, sharesSeen, viewerKnown>>
  BY DEF ViewerJoin, At, shareKeys, viewerKeys
<1>2. /\ n \in ShareTaskType /\ n.pc = "add" /\ n.socket = s /\ n.share = x /\ n.shares = {} /\ n.views = {}
  BY JoinTask, ZenonT(60)
<1>3. torn \subseteq torn' /\ torn' \subseteq ShareSocket BY <1>1 DEF ShareIInv, ScreenShareTypeOK
<1>4. ScreenShareTypeOK'
 <2>1. shareTask' \in [ShareTask -> ShareTaskType] BY <1>1, <1>2, ShareTaskRuns DEF ShareIInv
 <2>2. QED BY <1>1, <1>3, <2>1 DEF ShareIInv, ScreenShareTypeOK
<1>5. \A o \in ShareTask : ShareTaskShaped(shareTask[o])'
 <2>1. ShareTaskShaped(n) BY <1>2 DEF ShareTaskShaped, RemovalPc
 <2>2. QED BY <1>1, <1>2, <2>1, ShapesStand
<1>6. \A u \in Presenter : UserAgrees(u)'
 <2>1. /\ clash \subseteq clash' /\ shareTask[t].pc \notin {"validate", "put", "index", "unlist"}
       /\ n.pc \notin {"validate", "put", "index"} /\ n.pc \notin RemovalPc /\ shareTask[t].pc \notin RemovalPc
   BY <1>1, <1>2 DEF RemovalPc
 <2>2. \A u \in Presenter : ~RemovesIn(n, u) BY <2>1 DEF RemovesIn
 <2>3. \A u \in Presenter : \A o \in ShareTask :
           (u \notin clash' /\ StartsFor(o, u)) => shareTask[o].socket \in online'
   BY <1>1 DEF ShareIInv, UserAgrees, StartAlone
 <2>4. QED BY <1>1, <1>2, <2>1, <2>2, <2>3, SharesStand
<1>7. JoinApart(n)'
 <2>1. ASSUME s \notin torn', NEW o \in ShareTask, Removes(o)'
       PROVE  shareTask'[o].share # x /\ <<x, s>> \notin shareTask'[o].views
  <3>1. o # t /\ shareTask'[o] = shareTask[o] BY <1>1, <1>2, <2>1, ShareTaskRuns DEF Removes, ShareIInv
  <3>2. QED BY <1>1, <2>1, <3>1 DEF Removes
 <2>2. Live(x)' /\ s \in online' BY <1>1 DEF Live
 <2>3. QED BY <1>2, <2>1, <2>2 DEF JoinApart
<1>8. /\ \A o \in ShareTask : JoinApart(shareTask[o])'
      /\ \A v \in ShareSocket : (v \notin torn' => \A y \in Share : ViewAgrees(y, v)') /\ ViewerKept(v)'
 <2>1. \A y \in Share : Live(y) => Live(y)' BY <1>1 DEF Live
 <2>2. n.pc \notin RemovalPc /\ shareTask[t].pc \notin RemovalPc /\ shareTask[t].pc \notin {"track", "count"}
   BY <1>1, <1>2 DEF RemovalPc
 <2>3. Undisturbed(t, n) /\ SeesToViews(t, n) BY <1>1, <2>2 DEF Undisturbed, SeesToViews
 <2>4. QED BY <1>1, <1>2, <1>3, <1>7, <2>1, <2>2, <2>3, ViewsStand
<1>9. QED BY <1>4, <1>5, <1>6, <1>8, SharesTogether

\* A viewer joins: its share learns of it first.
LEMMA AddViewerKeeps == ASSUME ShareIInv, NEW t \in ShareTask, AddViewer(t) PROVE ShareIInv'
<1> PICK q : q = shareTask[t] OBVIOUS
<1> PICK n : n = [q EXCEPT !.pc = "track"] OBVIOUS
<1>1. /\ q \in ShareTaskType /\ ShareTaskShaped(q) /\ JoinApart(q) BY ShareTaskIs
<1>2. /\ q.pc = "add" /\ Running(t, n)
      /\ viewersOf' = [viewersOf EXCEPT ![q.share] = viewersOf[q.share] \cup {q.socket}]
      /\ UNCHANGED <<online, sharesSeen, viewerKnown, clash, torn, shareKey, channelShares, userShare>>
  BY <1>1 DEF AddViewer, At, Becomes, Running, shareKeys, ShareIInv, ScreenShareTypeOK
<1>3. /\ n \in ShareTaskType /\ n.pc = "track" /\ n.socket = q.socket /\ n.share = q.share
      /\ n.shares = q.shares /\ n.views = q.views
  BY <1>1 DEF ShareTaskType
<1> PICK s : s = q.socket OBVIOUS
<1> PICK x : x = q.share OBVIOUS
<1>4. s \in ShareSocket /\ x \in Share BY <1>1, <1>2 DEF ShareTaskShaped
<1>5. /\ viewersOf' \in [Share -> SUBSET ShareSocket] /\ viewersOf'[x] = viewersOf[x] \cup {s}
      /\ \A y \in Share : y # x => viewersOf'[y] = viewersOf[y]
  BY <1>2, <1>4 DEF ShareIInv, ScreenShareTypeOK
<1>6. ScreenShareTypeOK'
 <2>1. shareTask' \in [ShareTask -> ShareTaskType] BY <1>2, <1>3, ShareTaskRuns DEF ShareIInv
 <2>2. QED BY <1>2, <1>5, <2>1 DEF ShareIInv, ScreenShareTypeOK
<1>7. \A o \in ShareTask : ShareTaskShaped(shareTask[o])'
 <2>1. ShareTaskShaped(n) BY <1>1, <1>2, <1>3 DEF ShareTaskShaped, RemovalPc
 <2>2. QED BY <1>2, <1>3, <2>1, ShapesStand
<1>8. \A u \in Presenter : UserAgrees(u)'
 <2>1. /\ clash \subseteq clash' /\ q.pc \notin {"validate", "put", "index", "unlist"}
       /\ n.pc \notin {"validate", "put", "index"} /\ n.pc \notin RemovalPc /\ q.pc \notin RemovalPc
   BY <1>2, <1>3 DEF RemovalPc
 <2>2. \A u \in Presenter : ~RemovesIn(n, u) BY <2>1 DEF RemovesIn
 <2>3. \A u \in Presenter : \A o \in ShareTask :
           (u \notin clash' /\ StartsFor(o, u)) => shareTask[o].socket \in online'
   BY <1>2 DEF ShareIInv, UserAgrees, StartAlone
 <2>4. QED BY <1>2, <1>3, <2>1, <2>2, <2>3, SharesStand
<1>9. shareTask'[t] = n /\ \A o \in ShareTask : o # t => shareTask'[o] = shareTask[o]
  BY <1>2, <1>3, ShareTaskRuns DEF ShareIInv
<1>10. \A o \in ShareTask : Removes(o)' => o # t /\ Removes(o) BY <1>3, <1>9 DEF Removes
<1>11. ASSUME NEW o \in ShareTask PROVE JoinApart(shareTask[o])'
 <2> PICK r : r = shareTask[o] OBVIOUS
 <2>1. JoinApart(r) /\ ShareTaskShaped(r) BY ShareTaskIs
 <2>2. JoinApart(r)'
  <3>1. ASSUME NEW v \in ShareSocket, r.pc \in {"add", "track"}, r.socket = v, v \notin torn'
        PROVE  /\ Live(r.share)' /\ v \in online'
               /\ r.pc = "track" => v \in viewersOf'[r.share]
               /\ \A p \in ShareTask : Removes(p)' =>
                      shareTask'[p].share # r.share /\ <<r.share, v>> \notin shareTask'[p].views
   <4>1. /\ Live(r.share) /\ v \in online
         /\ r.pc = "track" => v \in viewersOf[r.share]
         /\ \A p \in ShareTask : Removes(p) =>
                shareTask[p].share # r.share /\ <<r.share, v>> \notin shareTask[p].views
     BY <1>2, <2>1, <3>1 DEF JoinApart
   <4>2. r.share \in Share BY <2>1, <3>1 DEF ShareTaskShaped
   <4>3. Live(r.share)' BY <1>2, <4>1 DEF Live
   <4>4. r.pc = "track" => v \in viewersOf'[r.share] BY <1>5, <4>1, <4>2
   <4>5. \A p \in ShareTask : Removes(p)' =>
             shareTask'[p].share # r.share /\ <<r.share, v>> \notin shareTask'[p].views
     BY <1>9, <1>10, <4>1
   <4>6. QED BY <1>2, <4>1, <4>3, <4>4, <4>5
  <3>2. QED BY <3>1 DEF JoinApart
 <2>3. CASE o # t BY <1>9, <2>2, <2>3
 <2>4. CASE o = t
  <3>1. ASSUME s \notin torn'
        PROVE  /\ Live(x)' /\ s \in online'
               /\ \A p \in ShareTask : Removes(p)' =>
                      shareTask'[p].share # x /\ <<x, s>> \notin shareTask'[p].views
    BY <1>2, <1>4, <2>2, <2>4, <3>1 DEF JoinApart
  <3>2. JoinApart(n)' BY <1>3, <1>5, <3>1 DEF JoinApart
  <3>3. QED BY <1>9, <2>4, <3>2
 <2>5. QED BY <2>3, <2>4
<1>12. ASSUME NEW v \in ShareSocket, v \notin torn', NEW y \in Share PROVE ViewAgrees(y, v)'
 <2>1. ViewAgrees(y, v) BY <1>2, <1>12 DEF ShareIInv
 <2>2. Tracking(y, v) => Tracking(y, v)' BY <1>2, <1>9 DEF Tracking, At
 <2>3. ViewEnding(y, v) => ViewEnding(y, v)' BY <1>2, <1>9 DEF ViewEnding, Removes
 <2>4. CASE y = x /\ v = s
  <3>1. Tracking(y, v)' BY <1>3, <1>9, <2>4 DEF Tracking, At
  <3>2. JoinApart(n)' BY <1>9, <1>11
  <3>3. /\ Live(y)' /\ v \in online'
        /\ \A o \in ShareTask : Removes(o)' => shareTask'[o].share # y
    BY <1>3, <1>12, <2>4, <3>2 DEF JoinApart
  <3>4. v \in viewersOf'[y] BY <1>5, <2>4
  <3>5. QED BY <3>1, <3>3, <3>4 DEF ViewAgrees
 <2>5. CASE ~(y = x /\ v = s)
  <3>1. v \in viewersOf'[y] <=> v \in viewersOf[y] BY <1>5, <2>5
  <3>2. Live(y)' <=> Live(y) BY <1>2 DEF Live
  <3>3. (v \in viewersOf[y] /\ \A o \in ShareTask : Removes(o) /\ shareTask[o].share = y => <<y, v>> \in shareTask[o].views)
        => \A o \in ShareTask : Removes(o)' /\ shareTask'[o].share = y => <<y, v>> \in shareTask'[o].views
    BY <1>9, <1>10
  <3>4. QED BY <1>2, <2>1, <2>2, <2>3, <3>1, <3>2, <3>3 DEF ViewAgrees
 <2>6. QED BY <2>4, <2>5
<1>13. ASSUME NEW v \in ShareSocket PROVE ViewerKept(v)' BY <1>2, <1>9 DEF ShareIInv, ViewerKept, At
<1>14. QED BY <1>6, <1>7, <1>8, <1>11, <1>12, <1>13, SharesTogether

\* Viewers joining are no affair of the presenters.
LEMMA JoinsAside ==
    ASSUME ShareIInv, NEW t \in ShareTask, NEW n \in ShareTaskType, Running(t, n),
           UNCHANGED <<online, clash, shareKey, channelShares, userShare>>,
           shareTask[t].pc \in {"idle", "add", "track"}, n.pc \in {"idle", "add", "track"}
    PROVE  \A u \in Presenter : UserAgrees(u)'
<1>1. /\ clash \subseteq clash' /\ shareTask[t].pc \notin {"validate", "put", "index", "unlist"}
      /\ n.pc \notin {"validate", "put", "index"} /\ n.pc \notin RemovalPc /\ shareTask[t].pc \notin RemovalPc
  BY DEF RemovalPc
<1>2. \A u \in Presenter : ~RemovesIn(n, u) BY <1>1 DEF RemovesIn
<1>3. \A u \in Presenter : \A o \in ShareTask :
          (u \notin clash' /\ StartsFor(o, u)) => shareTask[o].socket \in online'
  BY DEF ShareIInv, UserAgrees, StartAlone
<1>4. QED BY <1>1, <1>2, <1>3, SharesStand

\* A removal's views are no affair of the presenters either.
LEMMA ViewsAside ==
    ASSUME ShareIInv, NEW t \in ShareTask, NEW n \in ShareTaskType, Running(t, n),
           UNCHANGED <<online, clash, shareKey, channelShares, userShare>>,
           shareTask[t].pc \in {"views", "count"}, n.pc \in RemovalPc,
           n.socket = shareTask[t].socket, n.share = shareTask[t].share, n.shares = shareTask[t].shares
    PROVE  \A u \in Presenter : UserAgrees(u)'
<1>1. /\ clash \subseteq clash' /\ shareTask[t].pc \notin {"validate", "put", "index", "unlist"}
      /\ n.pc \notin {"validate", "put", "index"} /\ shareTask[t].pc \in RemovalPc
  BY DEF RemovalPc
<1>2. \A u \in Presenter : (u \notin clash' /\ RemovesIn(n, u)) =>
          /\ \A o \in ShareTask : ~StartsFor(o, u)
          /\ n.share # NoShare => userShare[u] \in {n.share, NoShare}
 <2>1. ASSUME NEW u \in Presenter, u \notin clash', RemovesIn(n, u)
       PROVE  /\ \A o \in ShareTask : ~StartsFor(o, u)
              /\ n.share # NoShare => userShare[u] \in {n.share, NoShare}
  <3>1. RemovesFor(t, u) /\ StartAlone(u) /\ IndexNames(u)
    BY <1>1, <2>1 DEF RemovesFor, Removes, RemovesIn, RemovalPc, ShareIInv, UserAgrees
  <3>2. ~StartsFor(t, u) BY <1>1 DEF StartsFor
  <3>3. QED BY <3>1, <3>2 DEF StartAlone, IndexNames
 <2>2. QED BY <2>1
<1>3. \A u \in Presenter : \A o \in ShareTask :
          (u \notin clash' /\ StartsFor(o, u)) => shareTask[o].socket \in online'
  BY DEF ShareIInv, UserAgrees, StartAlone
<1>4. QED BY <1>1, <1>2, <1>3, SharesStand

\* The viewer learns of the share it watches.
LEMMA TrackViewerKeeps == ASSUME ShareIInv, NEW t \in ShareTask, TrackViewer(t) PROVE ShareIInv'
<1> PICK q : q = shareTask[t] OBVIOUS
<1> PICK n : n = NoShareTask OBVIOUS
<1> PICK s : s = q.socket OBVIOUS
<1> PICK x : x = q.share OBVIOUS
<1>1. /\ q \in ShareTaskType /\ ShareTaskShaped(q) /\ JoinApart(q) BY ShareTaskIs
<1>2. /\ q.pc = "track" /\ Running(t, n)
      /\ sharesSeen' = [sharesSeen EXCEPT ![s] = sharesSeen[s] \cup {x}] /\ viewerKnown' = viewerKnown \cup {s}
      /\ UNCHANGED <<online, viewersOf, clash, torn, shareKey, channelShares, userShare>>
  BY <1>1 DEF TrackViewer, At, Over, shareKeys, ShareIInv, ScreenShareTypeOK
<1>3. n \in ShareTaskType /\ n.pc = "idle" /\ n.shares = {} /\ n.views = {} BY NoShareTaskIs
<1>4. s \in ShareSocket /\ x \in Share BY <1>1, <1>2 DEF ShareTaskShaped
<1>5. /\ sharesSeen' \in [ShareSocket -> SUBSET Share] /\ sharesSeen'[s] = sharesSeen[s] \cup {x}
      /\ \A v \in ShareSocket : v # s => sharesSeen'[v] = sharesSeen[v]
  BY <1>2, <1>4 DEF ShareIInv, ScreenShareTypeOK
<1>6. ScreenShareTypeOK'
 <2>1. shareTask' \in [ShareTask -> ShareTaskType] BY <1>2, <1>3, ShareTaskRuns DEF ShareIInv
 <2>2. QED BY <1>2, <1>4, <1>5, <2>1 DEF ShareIInv, ScreenShareTypeOK
<1>7. \A o \in ShareTask : ShareTaskShaped(shareTask[o])'
 <2>1. ShareTaskShaped(n) BY <1>3 DEF ShareTaskShaped, RemovalPc
 <2>2. QED BY <1>2, <1>3, <2>1, ShapesStand
<1>8. \A u \in Presenter : UserAgrees(u)' BY <1>2, <1>3, JoinsAside
<1>9. shareTask'[t] = n /\ \A o \in ShareTask : o # t => shareTask'[o] = shareTask[o]
  BY <1>2, <1>3, ShareTaskRuns DEF ShareIInv
<1>10. \A o \in ShareTask : /\ Removes(o)' => o # t /\ Removes(o)
                            /\ Removes(o) => o # t /\ Removes(o)'
  BY <1>2, <1>3, <1>9 DEF Removes
<1>11. ASSUME NEW o \in ShareTask PROVE JoinApart(shareTask[o])'
 <2> PICK r : r = shareTask'[o] OBVIOUS
 <2>1. CASE o = t BY <1>3, <1>9, <2>1 DEF JoinApart
 <2>2. CASE o # t
  <3>1. JoinApart(r) /\ r = shareTask[o] BY <1>9, <2>2, ShareTaskIs
  <3>2. JoinApart(r)' BY <1>2, <1>9, <1>10, <3>1 DEF JoinApart, Live
  <3>3. QED BY <3>2
 <2>3. QED BY <2>1, <2>2
<1>12. ASSUME NEW v \in ShareSocket, v \notin torn', NEW y \in Share PROVE ViewAgrees(y, v)'
 <2>1. ViewAgrees(y, v) BY <1>2, <1>12 DEF ShareIInv
 <2>2. y \in sharesSeen'[v] <=> y \in sharesSeen[v] \/ (y = x /\ v = s) BY <1>4, <1>5
 <2>3. Tracking(y, v) => Tracking(y, v)' \/ (y = x /\ v = s) BY <1>2, <1>9 DEF Tracking, At
 <2>4. ViewEnding(y, v) => ViewEnding(y, v)' BY <1>9, <1>10 DEF ViewEnding
 <2>5. (y = x /\ v = s) => v \in viewersOf[y] BY <1>1, <1>2, <1>12 DEF JoinApart
 <2>6. Live(y)' <=> Live(y) BY <1>2 DEF Live
 <2>7. (\A o \in ShareTask : Removes(o) /\ shareTask[o].share = y => <<y, v>> \in shareTask[o].views)
       => \A o \in ShareTask : Removes(o)' /\ shareTask'[o].share = y => <<y, v>> \in shareTask'[o].views
   BY <1>9, <1>10
 <2>8. QED BY <1>2, <2>1, <2>2, <2>3, <2>4, <2>5, <2>6, <2>7 DEF ViewAgrees
<1>13. ASSUME NEW v \in ShareSocket PROVE ViewerKept(v)'
 <2>1. ViewerKept(v) BY DEF ShareIInv
 <2>2. (\E o \in ShareTask : At(o, "count")) => \E o \in ShareTask : At(o, "count")' BY <1>2, <1>9 DEF At
 <2>3. CASE v = s BY <1>2, <1>5, <2>3 DEF ViewerKept
 <2>4. CASE v # s BY <1>2, <1>5, <2>1, <2>2, <2>4 DEF ViewerKept
 <2>5. QED BY <2>3, <2>4
<1>14. QED BY <1>6, <1>7, <1>8, <1>11, <1>12, <1>13, SharesTogether

\* One view goes, from both sets.
LEMMA RemoveViewKeeps == ASSUME ShareIInv, NEW t \in ShareTask, RemoveView(t) PROVE ShareIInv'
<1> PICK q : q = shareTask[t] OBVIOUS
<1>1. /\ q \in ShareTaskType /\ ShareTaskShaped(q) /\ q.pc = "views" /\ q.views \subseteq Share \X ShareSocket
      /\ UNCHANGED <<online, viewerKnown, clash, torn, shareKey, channelShares, userShare>>
  BY ShareTaskIs DEF RemoveView, At, shareKeys
<1>2. PICK view \in q.views :
          /\ viewersOf' = [viewersOf EXCEPT ![view[1]] = @ \ {view[2]}]
          /\ sharesSeen' = [sharesSeen EXCEPT ![view[2]] = @ \ {view[1]}]
          /\ Running(t, [q EXCEPT !.pc = "count", !.views = @ \ {view}])
  BY DEF RemoveView
<1> PICK x : x = view[1] OBVIOUS
<1> PICK s : s = view[2] OBVIOUS
<1> PICK n : n = [q EXCEPT !.pc = "count", !.views = @ \ {view}] OBVIOUS
<1>3. x \in Share /\ s \in ShareSocket /\ view = <<x, s>> BY <1>1
<1>4. /\ n \in ShareTaskType /\ n.pc = "count" /\ n.socket = q.socket /\ n.share = q.share
      /\ n.shares = q.shares /\ n.views = q.views \ {view} /\ Running(t, n)
  BY <1>1, <1>2 DEF ShareTaskType
<1>5. /\ viewersOf' \in [Share -> SUBSET ShareSocket] /\ sharesSeen' \in [ShareSocket -> SUBSET Share]
      /\ \A y \in Share : \A v \in ShareSocket :
             /\ v \in viewersOf'[y] <=> v \in viewersOf[y] /\ ~(y = x /\ v = s)
             /\ y \in sharesSeen'[v] <=> y \in sharesSeen[v] /\ ~(y = x /\ v = s)
  BY <1>2, <1>3 DEF ShareIInv, ScreenShareTypeOK
<1>6. ScreenShareTypeOK'
 <2>1. shareTask' \in [ShareTask -> ShareTaskType] BY <1>4, ShareTaskRuns DEF ShareIInv
 <2>2. QED BY <1>1, <1>5, <2>1 DEF ShareIInv, ScreenShareTypeOK
<1>7. \A o \in ShareTask : ShareTaskShaped(shareTask[o])'
 <2>1. ShareTaskShaped(n) BY <1>1, <1>4 DEF ShareTaskShaped, RemovalPc
 <2>2. QED BY <1>1, <1>4, <2>1, ShapesStand
<1>8. \A u \in Presenter : UserAgrees(u)' BY <1>1, <1>4, ViewsAside DEF RemovalPc
<1>9. shareTask'[t] = n /\ \A o \in ShareTask : o # t => shareTask'[o] = shareTask[o]
  BY <1>4, ShareTaskRuns DEF ShareIInv
<1>10. \A o \in ShareTask : /\ Removes(o)' <=> Removes(o)
                            /\ shareTask'[o].share = shareTask[o].share
                            /\ shareTask'[o].views \subseteq shareTask[o].views
                            /\ \A w \in shareTask[o].views : w # view => w \in shareTask'[o].views
  BY <1>1, <1>4, <1>9 DEF Removes
<1>11. ASSUME NEW o \in ShareTask PROVE JoinApart(shareTask[o])'
 <2> PICK r : r = shareTask'[o] OBVIOUS
 <2>1. CASE o = t BY <1>4, <1>9, <2>1 DEF JoinApart
 <2>2. CASE o # t
  <3>1. JoinApart(r) /\ ShareTaskShaped(r) /\ r = shareTask[o] BY <1>9, <2>2, ShareTaskIs
  <3>2. ASSUME NEW v \in ShareSocket, r.pc \in {"add", "track"}, r.socket = v, v \notin torn'
        PROVE  /\ Live(r.share)' /\ v \in online'
               /\ r.pc = "track" => v \in viewersOf'[r.share]
               /\ \A p \in ShareTask : Removes(p)' =>
                      shareTask'[p].share # r.share /\ <<r.share, v>> \notin shareTask'[p].views
   <4>1. /\ Live(r.share) /\ v \in online
         /\ r.pc = "track" => v \in viewersOf[r.share]
         /\ \A p \in ShareTask : Removes(p) =>
                shareTask[p].share # r.share /\ <<r.share, v>> \notin shareTask[p].views
     BY <1>1, <3>1, <3>2 DEF JoinApart
   <4>2. r.share \in Share BY <3>1, <3>2 DEF ShareTaskShaped
   <4>3. Live(r.share)' BY <1>1, <4>1 DEF Live
   <4>4. <<r.share, v>> # view BY <1>1, <4>1 DEF Removes
   <4>5. r.pc = "track" => v \in viewersOf'[r.share] BY <1>3, <1>5, <4>1, <4>2, <4>4
   <4>6. QED BY <1>1, <1>10, <4>1, <4>3, <4>5
  <3>3. QED BY <3>2 DEF JoinApart
 <2>3. QED BY <2>1, <2>2
<1>12. ASSUME NEW v \in ShareSocket, v \notin torn', NEW y \in Share PROVE ViewAgrees(y, v)'
 <2>1. ViewAgrees(y, v) BY <1>1, <1>12 DEF ShareIInv
 <2>2. CASE y = x /\ v = s BY <1>5, <2>2 DEF ViewAgrees
 <2>3. CASE ~(y = x /\ v = s)
  <3>1. (v \in viewersOf'[y] <=> v \in viewersOf[y]) /\ (y \in sharesSeen'[v] <=> y \in sharesSeen[v])
    BY <1>5, <2>3
  <3>2. <<y, v>> # view BY <1>3, <2>3
  <3>3. Tracking(y, v) => Tracking(y, v)' BY <1>1, <1>9 DEF Tracking, At
  <3>4. ViewEnding(y, v) => ViewEnding(y, v)' BY <1>10, <3>2 DEF ViewEnding
  <3>5. (\A o \in ShareTask : Removes(o) /\ shareTask[o].share = y => <<y, v>> \in shareTask[o].views)
        => \A o \in ShareTask : Removes(o)' /\ shareTask'[o].share = y => <<y, v>> \in shareTask'[o].views
    BY <1>10, <3>2
  <3>6. Live(y)' <=> Live(y) BY <1>1 DEF Live
  <3>7. QED BY <1>1, <2>1, <3>1, <3>3, <3>4, <3>5, <3>6 DEF ViewAgrees
 <2>4. QED BY <2>2, <2>3
<1>13. ASSUME NEW v \in ShareSocket PROVE ViewerKept(v)'
 <2>1. ViewerKept(v) BY DEF ShareIInv
 <2>2. sharesSeen'[v] \subseteq sharesSeen[v] BY <1>5
 <2>3. \E o \in ShareTask : At(o, "count")' BY <1>4, <1>9 DEF At
 <2>4. QED BY <1>1, <2>1, <2>2, <2>3 DEF ViewerKept
<1>14. QED BY <1>6, <1>7, <1>8, <1>11, <1>12, <1>13, SharesTogether

\* A viewer that watches nothing is forgotten.
LEMMA CountViewsKeeps == ASSUME ShareIInv, NEW t \in ShareTask, CountViews(t) PROVE ShareIInv'
<1> PICK q : q = shareTask[t] OBVIOUS
<1> PICK n : n = [q EXCEPT !.pc = "views"] OBVIOUS
<1>1. /\ q \in ShareTaskType /\ ShareTaskShaped(q) /\ q.pc = "count" /\ Running(t, n)
      /\ viewerKnown' = {s \in viewerKnown : sharesSeen[s] # {}}
      /\ UNCHANGED <<online, viewersOf, sharesSeen, clash, torn, shareKey, channelShares, userShare>>
  BY ShareTaskIs DEF CountViews, At, shareKeys, Becomes, Running, ShareIInv, ScreenShareTypeOK
<1>2. /\ n \in ShareTaskType /\ n.pc = "views" /\ n.socket = q.socket /\ n.share = q.share
      /\ n.shares = q.shares /\ n.views = q.views
  BY <1>1 DEF ShareTaskType
<1>3. ScreenShareTypeOK'
 <2>1. shareTask' \in [ShareTask -> ShareTaskType] BY <1>1, <1>2, ShareTaskRuns DEF ShareIInv
 <2>2. QED BY <1>1, <2>1 DEF ShareIInv, ScreenShareTypeOK
<1>4. \A o \in ShareTask : ShareTaskShaped(shareTask[o])'
 <2>1. ShareTaskShaped(n) BY <1>1, <1>2 DEF ShareTaskShaped, RemovalPc
 <2>2. QED BY <1>1, <1>2, <2>1, ShapesStand
<1>5. \A u \in Presenter : UserAgrees(u)' BY <1>1, <1>2, ViewsAside DEF RemovalPc
<1>6. shareTask'[t] = n /\ \A o \in ShareTask : o # t => shareTask'[o] = shareTask[o]
  BY <1>1, <1>2, ShareTaskRuns DEF ShareIInv
<1>7. \A o \in ShareTask : /\ Removes(o)' <=> Removes(o)
                           /\ shareTask'[o].share = shareTask[o].share
                           /\ shareTask'[o].views = shareTask[o].views
  BY <1>1, <1>2, <1>6 DEF Removes
<1>8. ASSUME NEW o \in ShareTask PROVE JoinApart(shareTask[o])'
 <2> PICK r : r = shareTask'[o] OBVIOUS
 <2>1. CASE o = t BY <1>2, <1>6, <2>1 DEF JoinApart
 <2>2. CASE o # t
  <3>1. JoinApart(r) /\ r = shareTask[o] BY <1>6, <2>2, ShareTaskIs
  <3>2. JoinApart(r)' BY <1>1, <1>7, <3>1 DEF JoinApart, Live
  <3>3. QED BY <3>2
 <2>3. QED BY <2>1, <2>2
<1>9. ASSUME NEW v \in ShareSocket, v \notin torn', NEW y \in Share PROVE ViewAgrees(y, v)'
 <2>1. ViewAgrees(y, v) BY <1>1, <1>9 DEF ShareIInv
 <2>2. Tracking(y, v) => Tracking(y, v)' BY <1>1, <1>6 DEF Tracking, At
 <2>3. ViewEnding(y, v) => ViewEnding(y, v)' BY <1>7 DEF ViewEnding
 <2>4. Live(y)' <=> Live(y) BY <1>1 DEF Live
 <2>5. QED BY <1>1, <1>7, <2>1, <2>2, <2>3, <2>4 DEF ViewAgrees
<1>10. ASSUME NEW v \in ShareSocket PROVE ViewerKept(v)' BY <1>1 DEF ShareIInv, ViewerKept
<1>11. QED BY <1>3, <1>4, <1>5, <1>8, <1>9, <1>10, SharesTogether

\* A removal begins, of a socket's shares and of views: starts of its user clash with it,
\* joins that it concerns are torn, and what a socket that goes leaves is all removed.
LEMMA RemovalBegins ==
    ASSUME ShareIInv, NEW t \in ShareTask, NEW s \in ShareSocket,
           NEW shares \in SUBSET Share, NEW views \in SUBSET (Share \X ShareSocket), At(t, "idle"),
           Running(t, [NoShareTask EXCEPT !.pc = "views", !.socket = s, !.shares = shares, !.views = views]),
           \A x \in shares : shareKey[x] = s,
           UNCHANGED <<shareKey, channelShares, userShare, viewersOf, sharesSeen, viewerKnown>>,
           online' \subseteq online, online \ online' \subseteq {s},
           s \notin online' => \A x \in Share : /\ shareKey[x] = s => x \in shares
                                                /\ x \in sharesSeen[s] => <<x, s>> \in views,
           clash' = IF \E o \in ShareTask : StartsFor(o, PresenterOf[s])
                    THEN clash \cup {PresenterOf[s]} ELSE clash,
           torn \subseteq torn', torn' \subseteq ShareSocket,
           \A o \in ShareTask : \A v \in ShareSocket :
               (AddsViewer(o, v) /\ ((\E x \in Share : <<x, v>> \in views) \/ v \notin online')) =>
                   v \notin online \/ v \in torn'
    PROVE  ShareIInv'
<1> PICK q : q = shareTask[t] OBVIOUS
<1> PICK n : n = [NoShareTask EXCEPT !.pc = "views", !.socket = s, !.shares = shares, !.views = views] OBVIOUS
<1>a. /\ n \in ShareTaskType /\ n.pc = "views" /\ n.socket = s /\ n.share = NoShare /\ n.shares = shares
      /\ n.views = views
 <2> PICK r : r = NoShareTask OBVIOUS
 <2>1. n = [r EXCEPT !.pc = "views", !.socket = s, !.shares = shares, !.views = views] OBVIOUS
 <2>2. QED BY <2>1, NoShareTaskIs DEF ShareTaskType
<1>b. Running(t, n)
  OBVIOUS
<1>c. q.pc = "idle" /\ PresenterOf[s] \in Presenter
  BY ScreenShareAssumption DEF At
<1>1. /\ n \in ShareTaskType /\ n.pc = "views" /\ n.socket = s /\ n.share = NoShare /\ n.shares = shares
      /\ n.views = views /\ Running(t, n) /\ q.pc = "idle" /\ PresenterOf[s] \in Presenter
  BY <1>a, <1>b, <1>c
<1>2. ScreenShareTypeOK'
 <2>1. shareTask' \in [ShareTask -> ShareTaskType] BY <1>1, ShareTaskRuns DEF ShareIInv
 <2>2. clash' \subseteq Presenter BY <1>1 DEF ShareIInv, ScreenShareTypeOK
 <2>3. QED BY <2>1, <2>2 DEF ShareIInv, ScreenShareTypeOK
<1>3. \A o \in ShareTask : ShareTaskShaped(shareTask[o])'
 <2>1. ShareTaskShaped(n) BY <1>1, ScreenShareAssumption DEF ShareTaskShaped, RemovalPc
 <2>2. QED BY <1>1, <2>1, ShapesStand
<1>4. \A u \in Presenter : UserAgrees(u)'
 <2>1. /\ clash \subseteq clash' /\ q.pc \notin {"validate", "put", "index", "unlist"} /\ q.pc \notin RemovalPc
       /\ n.pc \notin {"validate", "put", "index"} /\ n.pc \in RemovalPc
   BY <1>1 DEF RemovalPc
 <2>2. ASSUME NEW u \in Presenter, u \notin clash', RemovesIn(n, u)
       PROVE  \A o \in ShareTask : ~StartsFor(o, u)
   BY <1>1, <2>2 DEF RemovesIn
 <2>3. ASSUME NEW u \in Presenter, NEW o \in ShareTask, u \notin clash', StartsFor(o, u)
       PROVE  shareTask[o].socket \in online'
  <3>1. u # PresenterOf[s] /\ u \notin clash BY <2>1, <2>3
  <3>2. shareTask[o].socket \in online /\ PresenterOf[shareTask[o].socket] = u
    BY <2>3, <3>1 DEF ShareIInv, UserAgrees, StartAlone, StartsFor
  <3>3. QED BY <3>1, <3>2
 <2>4. \A x \in Share : (Live(x) /\ shareKey[x] \in online \ online') => x \in n.shares BY <1>1
 <2>5. QED BY <1>1, <2>1, <2>2, <2>3, <2>4, SharesStand
<1>5. /\ \A o \in ShareTask : JoinApart(shareTask[o])'
      /\ \A v \in ShareSocket : (v \notin torn' => \A y \in Share : ViewAgrees(y, v)') /\ ViewerKept(v)'
 <2>1. \A x \in Share : Live(x) => Live(x)' BY DEF Live
 <2>2. q.pc \notin {"track", "count"} /\ q.pc \notin RemovalPc /\ n.pc \in RemovalPc BY <1>1 DEF RemovalPc
 <2>3. JoinApart(n)' BY <1>1 DEF JoinApart
 <2>4. ASSUME NEW o \in ShareTask, NEW v \in ShareSocket, o # t, v \notin torn', AddsViewer(o, v)
       PROVE  /\ v \in online => v \in online'
              /\ n.share # shareTask[o].share /\ <<shareTask[o].share, v>> \notin n.views
  <3>1. shareTask[o].share \in Share /\ v \notin torn BY <2>4, ShareTaskIs DEF ShareTaskShaped, AddsViewer
  <3>2. v \in online BY <2>4, <3>1, ShareTaskIs DEF JoinApart, AddsViewer
  <3>3. QED BY <1>1, <2>4, <3>1, <3>2, ScreenShareAssumption
 <2>5. ASSUME NEW x \in Share, NEW v \in ShareSocket, v \notin torn'
       PROVE  /\ (v \in viewersOf[x] /\ v \in online \ online' /\ x \in sharesSeen[v]) => <<x, v>> \in n.views
              /\ n.share # x
   BY <1>1, ScreenShareAssumption
 <2>6. Undisturbed(t, n) BY <2>4 DEF Undisturbed
 <2>7. SeesToViews(t, n) BY <2>2, <2>5 DEF SeesToViews
 <2>8. UNCHANGED <<viewersOf, sharesSeen, viewerKnown>> /\ torn \subseteq torn' OBVIOUS
 <2>9. n \in ShareTaskType /\ Running(t, n) /\ shareTask[t].pc \notin {"track", "count"} BY <1>1, <2>2
 <2>10. QED BY <2>1, <2>3, <2>6, <2>7, <2>8, <2>9, ViewsStand
<1>6. QED BY <1>2, <1>3, <1>4, <1>5, SharesTogether

\* Leaving a share, stopping one, losing the right to one: each begins a removal.
LEMMA RemovalStartsKeeps ==
    ASSUME ShareIInv, NEW t \in ShareTask, NEW s \in ShareSocket,
           NEW shares \in SUBSET Share, NEW views \in SUBSET (Share \X ShareSocket),
           \A x \in shares : shareKey[x] = s, s \in online, RemovalStarts(t, s, shares, views)
    PROVE  ShareIInv'
<1>1. /\ At(t, "idle")
      /\ Running(t, [NoShareTask EXCEPT !.pc = "views", !.socket = s, !.shares = shares, !.views = views])
      /\ clash' = IF \E o \in ShareTask : StartsFor(o, PresenterOf[s])
                  THEN clash \cup {PresenterOf[s]} ELSE clash
      /\ torn' = torn \cup {v \in ShareSocket : (\E x \in Share : <<x, v>> \in views)
                                                /\ \E o \in ShareTask : AddsViewer(o, v)}
      /\ UNCHANGED <<online, shareKey, channelShares, userShare, viewersOf, sharesSeen, viewerKnown>>
  BY DEF RemovalStarts, shareKeys, viewerKeys
<1>2. torn \subseteq torn' /\ torn' \subseteq ShareSocket BY <1>1 DEF ShareIInv, ScreenShareTypeOK
<1>3. /\ online' \subseteq online /\ online \ online' \subseteq {s} /\ s \in online'
      /\ \A o \in ShareTask : \A v \in ShareSocket :
             (AddsViewer(o, v) /\ ((\E x \in Share : <<x, v>> \in views) \/ v \notin online')) =>
                 v \notin online \/ v \in torn'
  BY <1>1
<1>4. QED BY <1>1, <1>2, <1>3, RemovalBegins

\* The handlers that begin so.
LEMMA RemovalsKeep ==
    ASSUME ShareIInv, NEW t \in ShareTask, NEW s \in ShareSocket,
           \/ \E x \in Share : ShareStop(t, s, x) \/ ViewerLeave(t, s, x)
           \/ ShareEvict(t, s)
    PROVE  ShareIInv'
<1>1. ASSUME NEW x \in Share, ShareStop(t, s, x) PROVE ShareIInv'
 <2>1. shareKey[x] = s /\ s \in online /\ RemovalStarts(t, s, {x}, {}) BY <1>1 DEF ShareStop
 <2>2. {x} \in SUBSET Share /\ {} \in SUBSET (Share \X ShareSocket) /\ \A y \in {x} : shareKey[y] = s BY <2>1
 <2>3. QED BY <2>1, <2>2, RemovalStartsKeeps
<1>2. ASSUME NEW x \in Share, ViewerLeave(t, s, x) PROVE ShareIInv'
 <2>1. s \in online /\ RemovalStarts(t, s, {}, {<<x, s>>}) BY <1>2 DEF ViewerLeave
 <2>2. {} \in SUBSET Share /\ {<<x, s>>} \in SUBSET (Share \X ShareSocket) /\ \A y \in {} : shareKey[y] = s
   OBVIOUS
 <2>3. QED BY <2>1, <2>2, RemovalStartsKeeps
<1>3. ASSUME ShareEvict(t, s) PROVE ShareIInv'
 <2> PICK shares : shares = {x \in Share : shareKey[x] = s} OBVIOUS
 <2> PICK views : views = {<<x, s>> : x \in sharesSeen[s]} OBVIOUS
 <2>1. s \in online /\ RemovalStarts(t, s, shares, views) BY <1>3 DEF ShareEvict
 <2>2. sharesSeen[s] \subseteq Share BY DEF ShareIInv, ScreenShareTypeOK
 <2>3. shares \in SUBSET Share /\ views \in SUBSET (Share \X ShareSocket) /\ \A y \in shares : shareKey[y] = s
   BY <2>2
 <2>4. QED BY <2>1, <2>3, RemovalStartsKeeps
<1>4. QED BY <1>1, <1>2, <1>3

\* A socket disconnects: everything it presents and watches is removed.
LEMMA ShareDisconnectKeeps ==
    ASSUME ShareIInv, NEW t \in ShareTask, NEW s \in ShareSocket, ShareDisconnect(t, s) PROVE ShareIInv'
<1>a. PICK shares : shares = {x \in Share : shareKey[x] = s} OBVIOUS
<1>b. PICK views : views = {<<x, s>> : x \in sharesSeen[s]} OBVIOUS
<1>1. /\ At(t, "idle")
      /\ Running(t, [NoShareTask EXCEPT !.pc = "views", !.socket = s, !.shares = shares, !.views = views])
      /\ clash' = IF \E o \in ShareTask : StartsFor(o, PresenterOf[s])
                  THEN clash \cup {PresenterOf[s]} ELSE clash
      /\ UNCHANGED <<shareKey, channelShares, userShare, viewersOf, sharesSeen, viewerKnown>>
  BY <1>a, <1>b DEF ShareDisconnect, ViewsOf, shareKeys, viewerKeys
<1>c. online' = online \ {s} /\ torn' = IF \E o \in ShareTask : AddsViewer(o, s) THEN torn \cup {s} ELSE torn
  BY DEF ShareDisconnect
<1>2. sharesSeen[s] \subseteq Share BY DEF ShareIInv, ScreenShareTypeOK
<1>3. /\ shares \in SUBSET Share /\ views \in SUBSET (Share \X ShareSocket)
      /\ \A x \in shares : shareKey[x] = s
      /\ \A x \in Share : (shareKey[x] = s => x \in shares) /\ (x \in sharesSeen[s] => <<x, s>> \in views)
      /\ \A v \in ShareSocket : (\E x \in Share : <<x, v>> \in views) => v = s
  BY <1>a, <1>b, <1>2
<1>4. torn \subseteq torn' /\ torn' \subseteq ShareSocket BY <1>c DEF ShareIInv, ScreenShareTypeOK
<1>5. /\ online' \subseteq online /\ online \ online' \subseteq {s}
      /\ \A o \in ShareTask : \A v \in ShareSocket :
             (AddsViewer(o, v) /\ ((\E x \in Share : <<x, v>> \in views) \/ v \notin online')) =>
                 v \notin online \/ v \in torn'
  BY <1>1, <1>c, <1>3
<1>6. s \notin online' => \A x \in Share : /\ shareKey[x] = s => x \in shares
                                           /\ x \in sharesSeen[s] => <<x, s>> \in views
  BY <1>3
<1>7. \A x \in shares : shareKey[x] = s BY <1>3
<1>8. shares \in SUBSET Share /\ views \in SUBSET (Share \X ShareSocket) BY <1>3
<1>9. QED BY <1>1, <1>4, <1>5, <1>6, <1>7, <1>8, RemovalBegins, Zenon

\* A removal goes on to what it removes next: a share that it already had, or one that
\* its socket has live.
LEMMA RemovalMoves ==
    ASSUME ShareIInv, NEW t \in ShareTask, NEW n \in ShareTaskType, Running(t, n),
           At(t, "views"), shareTask[t].views = {},
           UNCHANGED <<online, clash, shareKey, channelShares, userShare, viewersOf, sharesSeen, viewerKnown>>,
           torn \subseteq torn', torn' \subseteq ShareSocket,
           ShareTaskShaped(n), n.pc \in {"idle", "views", "del"}, n.pc # "idle" => n.socket = shareTask[t].socket,
           \A x \in Share : (Live(x) /\ (x \in shareTask[t].shares \/ x = shareTask[t].share)) =>
               n.pc # "idle" /\ (x \in n.shares \/ x = n.share),
           n.share \in Share => n.share = shareTask[t].share
                                \/ (Live(n.share) /\ shareKey[n.share] = shareTask[t].socket),
           Undisturbed(t, n), SeesToViews(t, n)
    PROVE  ShareIInv'
<1> PICK q : q = shareTask[t] OBVIOUS
<1>1. /\ q.pc = "views" /\ q.socket \in ShareSocket /\ n.share \in Share \cup {NoShare}
      /\ NoShare \notin Share /\ q.pc \in RemovalPc /\ q.pc \notin {"validate", "put", "index", "unlist", "track", "count"}
  BY ShareTaskIs, ScreenShareAssumption DEF At, ShareTaskShaped, RemovalPc, ShareTaskType
<1>2. ScreenShareTypeOK'
 <2>1. shareTask' \in [ShareTask -> ShareTaskType] BY ShareTaskRuns DEF ShareIInv
 <2>2. QED BY <2>1 DEF ShareIInv, ScreenShareTypeOK
<1>3. \A o \in ShareTask : ShareTaskShaped(shareTask[o])' BY ShapesStand
<1>4. \A u \in Presenter : UserAgrees(u)'
 <2>1. /\ clash \subseteq clash' /\ n.pc \notin {"validate", "put", "index"}
       /\ n.pc # "idle" => n.pc \in RemovalPc
   BY DEF RemovalPc
 <2>2. ASSUME NEW u \in Presenter, u \notin clash', RemovesIn(n, u)
       PROVE  /\ \A o \in ShareTask : ~StartsFor(o, u)
              /\ n.share # NoShare => userShare[u] \in {n.share, NoShare}
  <3>1. n.pc # "idle" /\ n.socket = q.socket /\ PresenterOf[q.socket] = u BY <2>2 DEF RemovesIn, RemovalPc
  <3>2. RemovesFor(t, u) /\ StartAlone(u) /\ IndexNames(u)
    BY <1>1, <2>2, <3>1 DEF RemovesFor, Removes, RemovesIn, ShareIInv, UserAgrees, RemovalPc
  <3>3. ~StartsFor(t, u) BY <1>1 DEF StartsFor
  <3>4. \A o \in ShareTask : ~StartsFor(o, u) BY <3>2, <3>3 DEF StartAlone
  <3>5. CASE n.share = q.share BY <3>2, <3>4, <3>5 DEF IndexNames
  <3>6. CASE n.share \in Share /\ n.share # q.share
   <4>1. n.share \in Mine(u) BY <3>1, <3>6 DEF Mine
   <4>2. QED BY <3>2, <3>4, <4>1 DEF IndexNames
  <3>7. QED BY <1>1, <3>4, <3>5, <3>6
 <2>3. \A u \in Presenter : \A o \in ShareTask :
           (u \notin clash' /\ StartsFor(o, u)) => shareTask[o].socket \in online'
   BY DEF ShareIInv, UserAgrees, StartAlone
 <2>4. \A x \in Share : (Live(x) /\ q.pc \in RemovalPc /\ (x \in q.shares \/ x = q.share))
                        => n.pc \in RemovalPc /\ (x \in n.shares \/ x = n.share)
   BY <2>1
 <2>5. QED BY <1>1, <2>1, <2>2, <2>3, <2>4, SharesStand
<1>5. /\ \A o \in ShareTask : JoinApart(shareTask[o])'
      /\ \A s \in ShareSocket : (s \notin torn' => \A x \in Share : ViewAgrees(x, s)') /\ ViewerKept(s)'
 <2>1. JoinApart(n)' BY NoJoin
 <2>2. \A x \in Share : Live(x) => Live(x)' BY DEF Live
 <2>3. QED BY <1>1, <2>1, <2>2, ViewsStand
<1>6. QED BY <1>2, <1>3, <1>4, <1>5, SharesTogether

\* The viewers of a share that is being removed: their views go with it.
LEMMA NextRemovalKeeps == ASSUME ShareIInv, NEW t \in ShareTask, NextRemoval(t) PROVE ShareIInv'
<1> PICK q : q = shareTask[t] OBVIOUS
<1>1. /\ q \in ShareTaskType /\ ShareTaskShaped(q) /\ q.pc = "views" /\ q.views = {} /\ At(t, "views")
      /\ q.socket \in ShareSocket /\ q.shares \subseteq Share /\ q.share \in Share \cup {NoShare}
      /\ shareTask[t].pc \in RemovalPc
      /\ UNCHANGED <<online, clash, shareKey, channelShares, userShare, viewersOf, sharesSeen, viewerKnown>>
  BY ShareTaskIs DEF NextRemoval, At, ShareTaskShaped, shareKeys, viewerKeys, RemovalPc
<1>2. NoShare \notin Share /\ torn \subseteq ShareSocket
  BY ScreenShareAssumption DEF ShareIInv, ScreenShareTypeOK
<1>3. ASSUME NEW o \in ShareTask, NEW s \in ShareSocket, AddsViewer(o, s)
      PROVE  shareTask[o].share \in Share /\ (s \notin torn => shareTask[o].share # q.share)
 <2>1. ShareTaskShaped(shareTask[o]) /\ JoinApart(shareTask[o]) /\ Removes(t) BY <1>1, ShareTaskIs DEF Removes
 <2>2. QED BY <1>3, <2>1 DEF ShareTaskShaped, AddsViewer, JoinApart
<1>4. CASE q.share # NoShare /\ Becomes(t, "del") /\ torn' = torn
 <2> PICK n : n = [q EXCEPT !.pc = "del"] OBVIOUS
 <2>1. /\ n \in ShareTaskType /\ n.pc = "del" /\ n.socket = q.socket /\ n.share = q.share
       /\ n.shares = q.shares /\ n.views = {} /\ Running(t, n)
   BY <1>1, <1>4 DEF ShareTaskType, Becomes, Running, ShareIInv, ScreenShareTypeOK
 <2>2. ShareTaskShaped(n) BY <1>1, <1>4, <2>1 DEF ShareTaskShaped, RemovalPc
 <2>3. Undisturbed(t, n) BY <1>1, <1>3, <1>4, <2>1 DEF Undisturbed
 <2>4. ASSUME NEW s \in ShareSocket, s \notin torn, q.share \in Share PROVE s \notin viewersOf[q.share]
  <3>1. ViewAgrees(q.share, s) /\ Removes(t) BY <1>1, <2>4 DEF ShareIInv, Removes
  <3>2. QED BY <1>1, <3>1 DEF ViewAgrees
 <2>5. SeesToViews(t, n) BY <1>1, <1>4, <2>1, <2>4 DEF SeesToViews
 <2>6. torn \subseteq torn' /\ torn' \subseteq ShareSocket BY <1>2, <1>4
 <2>7. QED BY <1>1, <2>1, <2>2, <2>3, <2>5, <2>6, RemovalMoves
<1>5. CASE q.share = NoShare /\ q.shares = {} /\ Over(t) /\ torn' = torn
 <2> PICK n : n = NoShareTask OBVIOUS
 <2>1. n \in ShareTaskType /\ n.pc = "idle" /\ n.share = NoShare /\ n.shares = {} /\ n.views = {} /\ Running(t, n)
   BY <1>5, NoShareTaskIs DEF Over
 <2>2. ShareTaskShaped(n) /\ n.pc \notin RemovalPc BY <2>1 DEF ShareTaskShaped, RemovalPc
 <2>3. Undisturbed(t, n) BY <1>1, <2>2 DEF Undisturbed
 <2>4. SeesToViews(t, n) BY <1>1, <2>2 DEF SeesToViews
 <2>5. torn \subseteq torn' /\ torn' \subseteq ShareSocket BY <1>2, <1>5
 <2>6. QED BY <1>1, <1>2, <1>5, <2>1, <2>2, <2>3, <2>4, <2>5, RemovalMoves
<1>6. ASSUME NEW x \in q.shares, q.share = NoShare, Live(x),
             Running(t, [q EXCEPT !.shares = @ \ {x}, !.share = x, !.views = {<<x, v>> : v \in viewersOf[x]}]),
             torn' = torn \cup {v \in ShareSocket : \E o \in ShareTask :
                                    AddsViewer(o, v) /\ shareTask[o].share = x}
      PROVE  ShareIInv'
 <2>a. PICK views : views = {<<x, v>> : v \in viewersOf[x]} OBVIOUS
 <2> PICK n : n = [q EXCEPT !.shares = @ \ {x}, !.share = x, !.views = views] OBVIOUS
 <2>1. /\ x \in Share /\ views \subseteq Share \X ShareSocket
       /\ \A y \in Share : \A v \in ShareSocket : <<y, v>> \in views <=> y = x /\ v \in viewersOf[x]
   BY <1>1, <2>a DEF ShareIInv, ScreenShareTypeOK
 <2>2. /\ n \in ShareTaskType /\ n.pc = "views" /\ n.socket = q.socket /\ n.share = x
       /\ n.shares = q.shares \ {x} /\ n.views = views /\ Running(t, n)
   BY <1>1, <1>6, <2>a, <2>1 DEF ShareTaskType
 <2>3. ShareTaskShaped(n) BY <1>1, <1>6, <2>1, <2>2 DEF ShareTaskShaped, RemovalPc
 <2>4. shareKey[x] = q.socket BY <1>1, <1>6, <2>1 DEF ShareTaskShaped, RemovalPc, Live
 <2>5. torn \subseteq torn' /\ torn' \subseteq ShareSocket BY <1>2, <1>6
 <2>6. ASSUME NEW o \in ShareTask, NEW s \in ShareSocket, s \notin torn', AddsViewer(o, s)
       PROVE  shareTask[o].share \in Share /\ shareTask[o].share # x
   BY <1>3, <1>6, <2>6
 <2>7. Undisturbed(t, n) BY <1>1, <2>1, <2>2, <2>6 DEF Undisturbed
 <2>8. SeesToViews(t, n) BY <1>1, <2>1, <2>2 DEF SeesToViews, RemovalPc
 <2>9. \A y \in Share : (Live(y) /\ (y \in q.shares \/ y = q.share)) =>
           n.pc # "idle" /\ (y \in n.shares \/ y = n.share)
   BY <1>2, <1>6, <2>2
 <2>10. n.pc \in {"idle", "views", "del"} /\ (n.pc # "idle" => n.socket = shareTask[t].socket)
        /\ (n.share \in Share => n.share = shareTask[t].share
                                \/ (Live(n.share) /\ shareKey[n.share] = shareTask[t].socket))
   BY <1>6, <2>2, <2>4
 <2>11. \A y \in Share : (Live(y) /\ (y \in shareTask[t].shares \/ y = shareTask[t].share)) =>
            n.pc # "idle" /\ (y \in n.shares \/ y = n.share)
   BY <2>9
 <2>12. n \in ShareTaskType /\ Running(t, n) /\ shareTask[t].views = {} BY <1>1, <2>2
 <2>13. QED BY <1>1, <2>3, <2>5, <2>7, <2>8, <2>10, <2>11, <2>12, RemovalMoves
<1>7. ASSUME NEW x \in q.shares, q.share = NoShare, ~Live(x),
             Running(t, [q EXCEPT !.shares = @ \ {x}]), torn' = torn
      PROVE  ShareIInv'
 <2> PICK n : n = [q EXCEPT !.shares = @ \ {x}] OBVIOUS
 <2>1. /\ n \in ShareTaskType /\ n.pc = "views" /\ n.socket = q.socket /\ n.share = NoShare
       /\ n.shares = q.shares \ {x} /\ n.views = {} /\ Running(t, n)
   BY <1>1, <1>7 DEF ShareTaskType
 <2>2. ShareTaskShaped(n) BY <1>1, <1>7, <2>1 DEF ShareTaskShaped, RemovalPc
 <2>3. Undisturbed(t, n) BY <1>1, <1>2, <1>3, <2>1 DEF Undisturbed
 <2>4. SeesToViews(t, n) BY <1>1, <1>2, <2>1 DEF SeesToViews
 <2>5. torn \subseteq torn' /\ torn' \subseteq ShareSocket BY <1>2, <1>7
 <2>6. \A y \in Share : (Live(y) /\ (y \in q.shares \/ y = q.share)) =>
           n.pc # "idle" /\ (y \in n.shares \/ y = n.share)
   BY <1>2, <1>7, <2>1
 <2>7. QED BY <1>1, <1>2, <2>1, <2>2, <2>3, <2>4, <2>5, <2>6, RemovalMoves
<1>8. \/ q.share # NoShare /\ Becomes(t, "del") /\ torn' = torn
      \/ q.share = NoShare /\ q.shares = {} /\ Over(t) /\ torn' = torn
      \/ q.share = NoShare /\ \E x \in q.shares :
             IF Live(x)
             THEN /\ Running(t, [q EXCEPT !.shares = @ \ {x}, !.share = x,
                                          !.views = {<<x, v>> : v \in viewersOf[x]}])
                  /\ torn' = torn \cup {v \in ShareSocket : \E o \in ShareTask :
                                            AddsViewer(o, v) /\ shareTask[o].share = x}
             ELSE Running(t, [q EXCEPT !.shares = @ \ {x}]) /\ UNCHANGED torn
  BY DEF NextRemoval
<1>9. QED BY <1>4, <1>5, <1>6, <1>7, <1>8

\* What lists a share, and what stops it, a task that does neither leaves alone.
LEMMA TaskKeepsShown ==
    ASSUME NEW t \in ShareTask, \A o \in ShareTask : o # t => shareTask'[o] = shareTask[o],
           shareTask[t].pc \notin RemovalPc, shareTask[t].pc # "index",
           UNCHANGED <<online, shareKey, channelShares>>, NEW u \in Presenter, SharesShown(u)
    PROVE  SharesShown(u)'
<1>1. Mine(u)' = Mine(u) BY DEF Mine, Live
<1>2. ASSUME NEW x \in Mine(u)
      PROVE  (BeingListed(x) => BeingListed(x)') /\ (BeingStopped(x) => BeingStopped(x)')
  BY DEF BeingListed, BeingStopped, Removes, At, RemovalPc
<1>3. QED BY <1>1, <1>2 DEF SharesShown

\* A start begins: alone, what its user has is what the index names.
LEMMA ShareStartKeeps ==
    ASSUME ShareIInv, NEW t \in ShareTask, NEW s \in ShareSocket, ShareStart(t, s) PROVE ShareIInv'
<1> PICK q : q = shareTask[t] OBVIOUS
<1> PICK n : n = [NoShareTask EXCEPT !.pc = "validate", !.socket = s] OBVIOUS
<1> PICK c : c = PresenterOf[s] OBVIOUS
<1>1. /\ q.pc = "idle" /\ s \in online /\ c \in Presenter
      /\ clash' = IF \E o \in ShareTask : StartsFor(o, c) \/ RemovesFor(o, c) THEN clash \cup {c} ELSE clash
      /\ UNCHANGED <<online, torn, shareKey, channelShares, userShare, viewersOf, sharesSeen, viewerKnown>>
  BY ScreenShareAssumption DEF ShareStart, At, shareKeys, viewerKeys
<1>2. Running(t, n) BY DEF ShareStart
<1>3. /\ n \in ShareTaskType /\ n.pc = "validate" /\ n.socket = s /\ n.share = NoShare
      /\ n.shares = {} /\ n.views = {}
  BY StartTask
<1>4. clash \subseteq clash' /\ clash' \subseteq Presenter BY <1>1 DEF ShareIInv, ScreenShareTypeOK
<1>5. ScreenShareTypeOK'
 <2>1. shareTask' \in [ShareTask -> ShareTaskType] BY <1>2, <1>3, ShareTaskRuns DEF ShareIInv
 <2>2. QED BY <1>1, <1>4, <2>1 DEF ShareIInv, ScreenShareTypeOK
<1>6. \A o \in ShareTask : ShareTaskShaped(shareTask[o])'
 <2>1. ShareTaskShaped(n) BY <1>3 DEF ShareTaskShaped, RemovalPc
 <2>2. QED BY <1>1, <1>2, <1>3, <2>1, ShapesStand
<1>7. shareTask'[t] = n /\ \A o \in ShareTask : o # t => shareTask'[o] = shareTask[o]
  BY <1>2, <1>3, ShareTaskRuns DEF ShareIInv
<1>8. \A u \in Presenter : Mine(u)' = Mine(u) BY <1>1 DEF Mine, Live
<1>9. ASSUME NEW u \in Presenter, u # c PROVE UserAgrees(u)'
 <2>1. ~StartsIn(q, u) /\ ~StartsIn(n, u) /\ ~RemovesIn(q, u) /\ ~RemovesIn(n, u)
   BY <1>1, <1>3, <1>9 DEF StartsIn, RemovesIn, RemovalPc
 <2>2. QED BY <1>1, <1>2, <1>3, <1>4, <1>8, <2>1, OtherPresenters
<1>10. UserAgrees(c)'
 <2> SUFFICES ASSUME c \notin clash' PROVE StartAlone(c)' /\ IndexNames(c)' /\ SharesShown(c)' BY DEF UserAgrees
 <2>1. /\ IndexNames(c) /\ SharesShown(c)
       /\ \A o \in ShareTask : ~StartsFor(o, c) /\ ~RemovesFor(o, c)
   BY <1>1, <1>4 DEF ShareIInv, UserAgrees
 <2>2. Mine(c) \subseteq {userShare[c]} /\ (userShare[c] # NoShare => userShare[c] \in Mine(c))
   BY <2>1 DEF IndexNames, Unlisting
 <2>3. \A o \in ShareTask : (StartsFor(o, c)' <=> o = t) /\ ~RemovesFor(o, c)'
   BY <1>3, <1>7, <2>1 DEF StartsFor, RemovesFor, Removes
 <2>4. StartAlone(c)'
  <3>1. shareTask'[t].socket \in online' /\ ~At(t, "put")' /\ ~At(t, "index")' /\ Mine(c)' \subseteq {userShare'[c]}
    BY <1>1, <1>3, <1>7, <1>8, <2>2 DEF At
  <3>2. QED BY <2>3, <3>1 DEF StartAlone
 <2>5. IndexNames(c)' BY <1>1, <1>8, <2>2, <2>3 DEF IndexNames
 <2>6. SharesShown(c)'
  <3>1. q.pc \notin RemovalPc /\ q.pc # "index" BY <1>1 DEF RemovalPc
  <3>2. QED BY <1>1, <1>7, <2>1, <3>1, TaskKeepsShown
 <2>7. QED BY <2>4, <2>5, <2>6
<1>11. \A u \in Presenter : UserAgrees(u)' BY <1>9, <1>10
<1>12. /\ \A o \in ShareTask : JoinApart(shareTask[o])'
       /\ \A v \in ShareSocket : (v \notin torn' => \A x \in Share : ViewAgrees(x, v)') /\ ViewerKept(v)'
 <2>1. n.pc \notin RemovalPc /\ q.pc \notin RemovalPc /\ q.pc \notin {"track", "count"}
   BY <1>1, <1>3 DEF RemovalPc
 <2>2. JoinApart(n)' /\ torn \subseteq torn' /\ \A x \in Share : Live(x) => Live(x)'
   BY <1>1, <1>3 DEF JoinApart, Live
 <2>3. Undisturbed(t, n) /\ SeesToViews(t, n) BY <1>1, <2>1 DEF Undisturbed, SeesToViews
 <2>4. QED BY <1>1, <1>2, <1>3, <2>1, <2>2, <2>3, ViewsStand
<1>13. QED BY <1>5, <1>6, <1>11, <1>12, SharesTogether

\* The start is refused, or goes on: alone, its user then has nothing.
LEMMA ShareFindKeeps == ASSUME ShareIInv, NEW t \in ShareTask, ShareFind(t) PROVE ShareIInv'
<1> PICK q : q = shareTask[t] OBVIOUS
<1> PICK s : s = q.socket OBVIOUS
<1> PICK c : c = PresenterOf[s] OBVIOUS
<1>1. /\ q \in ShareTaskType /\ ShareTaskShaped(q) /\ q.pc = "validate" /\ s \in ShareSocket /\ c \in Presenter
      /\ UNCHANGED <<online, clash, torn, shareKey, channelShares, userShare, viewersOf, sharesSeen, viewerKnown>>
  BY ShareTaskIs, ScreenShareAssumption DEF ShareFind, At, ShareTaskShaped, shareKeys, viewerKeys
<1>2. PICK n \in ShareTaskType :
          /\ Running(t, n) /\ n.shares = {} /\ n.views = {}
          /\ \/ n.pc = "idle"
             \/ n.pc = "put" /\ n.socket = s /\ (userShare[c] # NoShare => ~Live(userShare[c]))
 <2>1. CASE Over(t) BY <2>1, NoShareTaskIs DEF Over
 <2>2. CASE Becomes(t, "put") /\ (userShare[c] # NoShare => ~Live(userShare[c]))
  <3> PICK n : n = [q EXCEPT !.pc = "put"] OBVIOUS
  <3>1. n \in ShareTaskType /\ n.pc = "put" /\ n.socket = s /\ n.shares = {} /\ n.views = {}
    BY <1>1 DEF ShareTaskType, ShareTaskShaped
  <3>2. Running(t, n) BY <1>1, <2>2 DEF Becomes, Running, ShareIInv, ScreenShareTypeOK
  <3>3. QED BY <2>2, <3>1, <3>2
 <2>3. QED BY <2>1, <2>2 DEF ShareFind
<1>3. ScreenShareTypeOK'
 <2>1. shareTask' \in [ShareTask -> ShareTaskType] BY <1>2, ShareTaskRuns DEF ShareIInv
 <2>2. QED BY <1>1, <2>1 DEF ShareIInv, ScreenShareTypeOK
<1>4. \A o \in ShareTask : ShareTaskShaped(shareTask[o])'
 <2>1. ShareTaskShaped(n) BY <1>1, <1>2 DEF ShareTaskShaped, RemovalPc
 <2>2. QED BY <1>1, <1>2, <2>1, ShapesStand
<1>5. shareTask'[t] = n /\ \A o \in ShareTask : o # t => shareTask'[o] = shareTask[o]
  BY <1>2, ShareTaskRuns DEF ShareIInv
<1>6. \A u \in Presenter : Mine(u)' = Mine(u) BY <1>1 DEF Mine, Live
<1>7. ASSUME NEW u \in Presenter, u # c PROVE UserAgrees(u)'
 <2>1. ~StartsIn(q, u) /\ ~StartsIn(n, u) /\ ~RemovesIn(q, u) /\ ~RemovesIn(n, u) /\ q.pc # "index"
   BY <1>1, <1>2, <1>7 DEF StartsIn, RemovesIn, RemovalPc
 <2>2. QED BY <1>1, <1>2, <1>6, <2>1, OtherPresenters
<1>8. UserAgrees(c)'
 <2> SUFFICES ASSUME c \notin clash' PROVE StartAlone(c)' /\ IndexNames(c)' /\ SharesShown(c)' BY DEF UserAgrees
 <2>1. StartAlone(c) /\ IndexNames(c) /\ SharesShown(c) /\ StartsFor(t, c) /\ At(t, "validate") /\ ~RemovesFor(t, c)
   BY <1>1 DEF ShareIInv, UserAgrees, StartsFor, RemovesFor, Removes, At
 <2>2. /\ s \in online /\ Mine(c) \subseteq {userShare[c]} /\ Mine(c) \subseteq Share
       /\ \A o \in ShareTask : o # t => ~StartsFor(o, c) /\ ~RemovesFor(o, c)
   BY <2>1 DEF StartAlone, Mine
 <2>3. userShare[c] # NoShare => userShare[c] \in Mine(c) BY <2>1, <2>2 DEF IndexNames, Unlisting
 <2>4. /\ \A o \in ShareTask : ~RemovesFor(o, c)' /\ (StartsFor(o, c)' => o = t)
       /\ StartsFor(t, c)' => n.pc = "put"
   BY <1>2, <1>5, <2>2 DEF StartsFor, RemovesFor, Removes
 <2>5. n.pc = "put" => Mine(c) = {}
  <3>1. \A x \in Mine(c) : Live(x) BY DEF Mine
  <3>2. QED BY <1>2, <2>2, <2>3, <3>1, ScreenShareAssumption
 <2>6. StartAlone(c)'
  <3>1. ASSUME StartsFor(t, c)'
        PROVE  /\ shareTask'[t].socket \in online' /\ Mine(c)' = {}
               /\ ~At(t, "index")'
    BY <1>1, <1>2, <1>5, <1>6, <2>2, <2>4, <2>5, <3>1 DEF At
  <3>2. QED BY <2>4, <3>1 DEF StartAlone
 <2>7. IndexNames(c)' BY <1>1, <1>6, <2>2, <2>3, <2>4 DEF IndexNames
 <2>8. SharesShown(c)' BY <1>1, <1>5, <2>1, TaskKeepsShown DEF RemovalPc
 <2>9. QED BY <2>6, <2>7, <2>8
<1>9. /\ \A o \in ShareTask : JoinApart(shareTask[o])'
      /\ \A v \in ShareSocket : (v \notin torn' => \A x \in Share : ViewAgrees(x, v)') /\ ViewerKept(v)'
 <2>1. n.pc \notin RemovalPc /\ q.pc \notin RemovalPc /\ q.pc \notin {"track", "count"}
   BY <1>1, <1>2 DEF RemovalPc
 <2>2. JoinApart(n)' /\ torn \subseteq torn' /\ \A x \in Share : Live(x) => Live(x)'
   BY <1>1, <1>2 DEF JoinApart, Live
 <2>3. Undisturbed(t, n) /\ SeesToViews(t, n) BY <1>1, <2>1 DEF Undisturbed, SeesToViews
 <2>4. QED BY <1>1, <1>2, <2>1, <2>2, <2>3, ViewsStand
<1>10. QED BY <1>3, <1>4, <1>7, <1>8, <1>9, SharesTogether

\* The share itself is written under an id that nothing names.
LEMMA SharePutKeeps == ASSUME ShareIInv, NEW t \in ShareTask, SharePut(t) PROVE ShareIInv'
<1> PICK q : q = shareTask[t] OBVIOUS
<1> PICK s : s = q.socket OBVIOUS
<1> PICK c : c = PresenterOf[s] OBVIOUS
<1>1. /\ q \in ShareTaskType /\ ShareTaskShaped(q) /\ q.pc = "put" /\ s \in ShareSocket /\ c \in Presenter
      /\ UNCHANGED <<online, channelShares, userShare, clash, torn, viewersOf, sharesSeen, viewerKnown>>
  BY ShareTaskIs, ScreenShareAssumption DEF SharePut, At, ShareTaskShaped, viewerKeys
<1>2. PICK x \in Fresh : /\ shareKey' = [shareKey EXCEPT ![x] = s]
                         /\ Running(t, [q EXCEPT !.pc = "index", !.share = x])
  BY DEF SharePut
<1> PICK n : n = [q EXCEPT !.pc = "index", !.share = x] OBVIOUS
<1>3. /\ x \in Share /\ ~Live(x)
      /\ \A o \in ShareTask : shareTask[o].share # x /\ x \notin shareTask[o].shares
  BY DEF Fresh
<1>4. /\ n \in ShareTaskType /\ n.pc = "index" /\ n.socket = s /\ n.share = x
      /\ n.shares = {} /\ n.views = {} /\ Running(t, n)
  BY <1>1, <1>2, <1>3 DEF ShareTaskType, ShareTaskShaped
<1>5. /\ shareKey' \in [Share -> ShareSocket \cup {NoShareSocket}] /\ shareKey'[x] = s
      /\ \A y \in Share : y # x => shareKey'[y] = shareKey[y]
  BY <1>1, <1>2, <1>3 DEF ShareIInv, ScreenShareTypeOK
<1>6. /\ Live(x)' /\ \A y \in Share : y # x => (Live(y)' <=> Live(y))
  BY <1>1, <1>5, ScreenShareAssumption DEF Live
<1>7. ScreenShareTypeOK'
 <2>1. shareTask' \in [ShareTask -> ShareTaskType] BY <1>4, ShareTaskRuns DEF ShareIInv
 <2>2. QED BY <1>1, <1>5, <2>1 DEF ShareIInv, ScreenShareTypeOK
<1>8. shareTask'[t] = n /\ \A o \in ShareTask : o # t => shareTask'[o] = shareTask[o]
  BY <1>4, ShareTaskRuns DEF ShareIInv
<1>9. ASSUME NEW o \in ShareTask PROVE ShareTaskShaped(shareTask[o])'
 <2> PICK r : r = shareTask'[o] OBVIOUS
 <2>1. CASE o = t
  <3>1. ShareTaskShaped(r)' BY <1>1, <1>3, <1>4, <1>8, <2>1 DEF ShareTaskShaped, RemovalPc
  <3>2. QED BY <3>1
 <2>2. CASE o # t
  <3>1. ShareTaskShaped(r) /\ r.share # x /\ x \notin r.shares BY <1>3, <1>8, <2>2, ShareTaskIs
  <3>2. (r.pc = "unlist" => r.share \in Share /\ ~Live(r.share)) BY <3>1 DEF ShareTaskShaped
  <3>3. ShareTaskShaped(r)' BY <1>5, <1>6, <3>1, <3>2 DEF ShareTaskShaped
  <3>4. QED BY <3>3
 <2>3. QED BY <2>1, <2>2
<1>a. \A y \in Share : \A u \in Presenter :
          y \in Mine(u)' <=> y \in Mine(u) \/ (y = x /\ u = c)
  BY <1>3, <1>5, <1>6 DEF Mine
<1>b. \A u \in Presenter : Mine(u) \subseteq Share /\ Mine(u)' \subseteq Share
  BY DEF Mine
<1>10. Mine(c)' = Mine(c) \cup {x} /\ \A u \in Presenter : u # c => Mine(u)' = Mine(u) BY <1>1, <1>3, <1>a, <1>b
<1>11. ASSUME NEW u \in Presenter, u # c PROVE UserAgrees(u)'
 <2>1. ~StartsIn(q, u) /\ ~StartsIn(n, u) /\ ~RemovesIn(q, u) /\ ~RemovesIn(n, u) /\ q.pc # "index"
   BY <1>1, <1>4, <1>11 DEF StartsIn, RemovesIn, RemovalPc
 <2>2. Mine(u)' = Mine(u) /\ clash \subseteq clash' /\ userShare'[u] = userShare[u] /\ online' = online
   BY <1>1, <1>10, <1>11
 <2>3. \A y \in Mine(u) : shareKey'[y] = shareKey[y] /\ (y \in channelShares => y \in channelShares')
   BY <1>1, <1>3, <1>5 DEF Mine
 <2>4. QED BY <1>4, <2>1, <2>2, <2>3, OtherPresenters
<1>12. UserAgrees(c)'
 <2> SUFFICES ASSUME c \notin clash' PROVE StartAlone(c)' /\ IndexNames(c)' /\ SharesShown(c)' BY DEF UserAgrees
 <2>1. StartAlone(c) /\ IndexNames(c) /\ StartsFor(t, c) /\ ~RemovesFor(t, c)
   BY <1>1 DEF ShareIInv, UserAgrees, StartsFor, RemovesFor, Removes
 <2>2. /\ Mine(c) = {} /\ s \in online
       /\ \A o \in ShareTask : o # t => ~StartsFor(o, c) /\ ~RemovesFor(o, c)
   BY <1>1, <2>1 DEF StartAlone, At
 <2>3. userShare[c] = NoShare BY <2>1, <2>2 DEF IndexNames, Unlisting
 <2>4. \A o \in ShareTask : (StartsFor(o, c)' <=> o = t) /\ ~RemovesFor(o, c)'
   BY <1>4, <1>8, <2>1, <2>2 DEF StartsFor, RemovesFor, Removes
 <2>5. Mine(c)' = {x} BY <1>1, <1>10, <2>2
 <2>6. StartAlone(c)'
  <3>1. /\ shareTask'[t].socket \in online' /\ ~At(t, "validate")' /\ ~At(t, "put")'
        /\ Mine(c)' = {shareTask'[t].share}
    BY <1>1, <1>4, <1>8, <2>2, <2>5 DEF At
  <3>2. QED BY <2>4, <3>1 DEF StartAlone
 <2>7. IndexNames(c)' BY <1>1, <2>3, <2>4 DEF IndexNames
 <2>8. SharesShown(c)'
  <3>1. BeingListed(x)' BY <1>4, <1>8 DEF BeingListed, At
  <3>2. QED BY <1>1, <1>5, <2>2, <2>5, <3>1 DEF SharesShown
 <2>9. QED BY <2>6, <2>7, <2>8
<1>13. /\ \A o \in ShareTask : JoinApart(shareTask[o])'
       /\ \A v \in ShareSocket : (v \notin torn' => \A y \in Share : ViewAgrees(y, v)') /\ ViewerKept(v)'
 <2>1. n.pc \notin RemovalPc /\ q.pc \notin RemovalPc /\ q.pc \notin {"track", "count"}
   BY <1>1, <1>4 DEF RemovalPc
 <2>2. JoinApart(n)' /\ torn \subseteq torn' /\ \A y \in Share : Live(y) => Live(y)'
   BY <1>1, <1>4, <1>6 DEF JoinApart
 <2>3. Undisturbed(t, n) /\ SeesToViews(t, n) BY <1>1, <2>1 DEF Undisturbed, SeesToViews
 <2>4. QED BY <1>1, <1>4, <2>1, <2>2, <2>3, ViewsStand
<1>14. QED BY <1>7, <1>9, <1>11, <1>12, <1>13, SharesTogether

\* The share is listed and indexed.
LEMMA ShareIndexKeeps == ASSUME ShareIInv, NEW t \in ShareTask, ShareIndex(t) PROVE ShareIInv'
<1> PICK q : q = shareTask[t] OBVIOUS
<1> PICK s : s = q.socket OBVIOUS
<1> PICK x : x = q.share OBVIOUS
<1> PICK c : c = PresenterOf[s] OBVIOUS
<1> PICK n : n = NoShareTask OBVIOUS
<1>1. /\ q.pc = "index" /\ s \in ShareSocket /\ c \in Presenter /\ x \in Share
      /\ channelShares' = channelShares \cup {x} /\ userShare' = [userShare EXCEPT ![c] = x] /\ Running(t, n)
      /\ UNCHANGED <<online, shareKey, clash, torn, viewersOf, sharesSeen, viewerKnown>>
  BY ShareTaskIs, ScreenShareAssumption DEF ShareIndex, At, Over, ShareTaskShaped, viewerKeys
<1>2. n \in ShareTaskType /\ n.pc = "idle" /\ n.shares = {} /\ n.views = {} BY NoShareTaskIs
<1>3. /\ userShare' \in [Presenter -> Share \cup {NoShare}] /\ userShare'[c] = x
      /\ \A u \in Presenter : u # c => userShare'[u] = userShare[u]
  BY <1>1 DEF ShareIInv, ScreenShareTypeOK
<1>4. ScreenShareTypeOK'
 <2>1. shareTask' \in [ShareTask -> ShareTaskType] BY <1>1, <1>2, ShareTaskRuns DEF ShareIInv
 <2>2. QED BY <1>1, <1>3, <2>1 DEF ShareIInv, ScreenShareTypeOK
<1>5. \A o \in ShareTask : ShareTaskShaped(shareTask[o])'
 <2>1. ShareTaskShaped(n) BY <1>2 DEF ShareTaskShaped, RemovalPc
 <2>2. QED BY <1>1, <1>2, <2>1, ShapesStand
<1>6. shareTask'[t] = n /\ \A o \in ShareTask : o # t => shareTask'[o] = shareTask[o]
  BY <1>1, <1>2, ShareTaskRuns DEF ShareIInv
<1>7. \A u \in Presenter : Mine(u)' = Mine(u) BY <1>1 DEF Mine, Live
<1>8. ASSUME NEW u \in Presenter, u # c PROVE UserAgrees(u)'
 <2>1. ~StartsIn(q, u) /\ ~StartsIn(n, u) /\ ~RemovesIn(q, u) /\ ~RemovesIn(n, u)
   BY <1>1, <1>2, <1>8 DEF StartsIn, RemovesIn, RemovalPc
 <2>2. Mine(u)' = Mine(u) /\ clash \subseteq clash' /\ userShare'[u] = userShare[u] /\ online' = online
   BY <1>1, <1>3, <1>7, <1>8
 <2>3. \A y \in Mine(u) : shareKey'[y] = shareKey[y] /\ (y \in channelShares => y \in channelShares') BY <1>1
 <2>4. shareTask[t].share \in channelShares' BY <1>1
 <2>5. QED BY <1>1, <1>2, <2>1, <2>2, <2>3, <2>4, OtherPresenters
<1>9. UserAgrees(c)'
 <2> SUFFICES ASSUME c \notin clash' PROVE StartAlone(c)' /\ IndexNames(c)' /\ SharesShown(c)' BY DEF UserAgrees
 <2>1. StartAlone(c) /\ SharesShown(c) /\ StartsFor(t, c) BY <1>1 DEF ShareIInv, UserAgrees, StartsFor
 <2>2. /\ Mine(c) = {x}
       /\ \A o \in ShareTask : o # t => ~StartsFor(o, c) /\ ~RemovesFor(o, c)
   BY <1>1, <2>1 DEF StartAlone, At
 <2>3. \A o \in ShareTask : ~StartsFor(o, c)' /\ ~RemovesFor(o, c)'
   BY <1>2, <1>6, <2>2 DEF StartsFor, RemovesFor, Removes
 <2>a. Mine(c)' = {x} /\ userShare'[c] = x
   BY <1>1, <1>3, <1>7, <2>2
 <2>4. IndexNames(c)' BY <2>3, <2>a DEF IndexNames
 <2>5. SharesShown(c)'
  <3>1. BeingStopped(x) => BeingStopped(x)' BY <1>1, <1>6 DEF BeingStopped, Removes
  <3>2. QED BY <1>1, <1>7, <2>1, <2>2, <3>1 DEF SharesShown
 <2>6. QED BY <2>3, <2>4, <2>5 DEF StartAlone
<1>10. /\ \A o \in ShareTask : JoinApart(shareTask[o])'
       /\ \A v \in ShareSocket : (v \notin torn' => \A y \in Share : ViewAgrees(y, v)') /\ ViewerKept(v)'
 <2>1. n.pc \notin RemovalPc /\ q.pc \notin RemovalPc /\ q.pc \notin {"track", "count"}
   BY <1>1, <1>2 DEF RemovalPc
 <2>2. JoinApart(n)' /\ torn \subseteq torn' /\ \A y \in Share : Live(y) => Live(y)'
   BY <1>1, <1>2 DEF JoinApart, Live
 <2>3. Undisturbed(t, n) /\ SeesToViews(t, n) BY <1>1, <2>1 DEF Undisturbed, SeesToViews
 <2>4. QED BY <1>1, <1>2, <2>1, <2>2, <2>3, ViewsStand
<1>11. QED BY <1>4, <1>5, <1>8, <1>9, <1>10, SharesTogether

\* The keys of a share go: nobody else's views name it any more.
LEMMA RemoveKeysKeeps == ASSUME ShareIInv, NEW t \in ShareTask, RemoveKeys(t) PROVE ShareIInv'
<1> PICK q : q = shareTask[t] OBVIOUS
<1> PICK x : x = q.share OBVIOUS
<1> PICK c : c = PresenterOf[q.socket] OBVIOUS
<1> PICK n : n = [q EXCEPT !.pc = "unlist"] OBVIOUS
<1>1. /\ q \in ShareTaskType /\ ShareTaskShaped(q) /\ q.pc = "del" /\ Running(t, n)
      /\ x \in Share /\ q.socket \in ShareSocket /\ c \in Presenter /\ q.views = {}
      /\ shareKey' = [shareKey EXCEPT ![x] = NoShareSocket] /\ viewersOf' = [viewersOf EXCEPT ![x] = {}]
      /\ UNCHANGED <<online, channelShares, userShare, sharesSeen, viewerKnown, clash, torn>>
  BY ShareTaskIs, ScreenShareAssumption
  DEF RemoveKeys, At, Becomes, Running, ShareTaskShaped, ShareIInv, ScreenShareTypeOK
<1>2. /\ n \in ShareTaskType /\ n.pc = "unlist" /\ n.socket = q.socket /\ n.share = x
      /\ n.shares = q.shares /\ n.views = {}
  BY <1>1 DEF ShareTaskType
<1>3. /\ shareKey' \in [Share -> ShareSocket \cup {NoShareSocket}] /\ shareKey'[x] = NoShareSocket
      /\ viewersOf' \in [Share -> SUBSET ShareSocket] /\ viewersOf'[x] = {}
      /\ \A y \in Share : y # x => shareKey'[y] = shareKey[y] /\ viewersOf'[y] = viewersOf[y]
  BY <1>1 DEF ShareIInv, ScreenShareTypeOK
<1>4. /\ ~Live(x)' /\ \A y \in Share : y # x => (Live(y)' <=> Live(y)) BY <1>1, <1>3 DEF Live
<1>5. Live(x) => shareKey[x] = q.socket BY <1>1 DEF ShareTaskShaped, RemovalPc, Live
<1>6. ScreenShareTypeOK'
 <2>1. shareTask' \in [ShareTask -> ShareTaskType] BY <1>1, <1>2, ShareTaskRuns DEF ShareIInv
 <2>2. QED BY <1>1, <1>3, <2>1 DEF ShareIInv, ScreenShareTypeOK
<1>7. shareTask'[t] = n /\ \A o \in ShareTask : o # t => shareTask'[o] = shareTask[o]
  BY <1>1, <1>2, ShareTaskRuns DEF ShareIInv
<1>8. ASSUME NEW o \in ShareTask PROVE ShareTaskShaped(shareTask[o])'
 <2> PICK r : r = shareTask'[o] OBVIOUS
 <2>1. \A y \in Share : shareKey'[y] \in {shareKey[y], NoShareSocket} /\ (~Live(y) => ~Live(y)') BY <1>3, <1>4
 <2>2. CASE o = t
  <3>1. r.pc = "unlist" /\ r.socket = q.socket /\ r.share = x /\ r.shares = q.shares /\ r.views = {}
    BY <1>2, <1>7, <2>2
  <3>2. \A y \in Share : (y \in r.shares \/ y = r.share) => shareKey[y] \in {r.socket, NoShareSocket}
    BY <1>1, <3>1 DEF ShareTaskShaped, RemovalPc
  <3>3. ShareTaskShaped(r)' BY <1>1, <1>4, <2>1, <3>1, <3>2 DEF ShareTaskShaped, RemovalPc
  <3>4. QED BY <3>3
 <2>3. CASE o # t
  <3>1. ShareTaskShaped(r) BY <1>7, <2>3, ShareTaskIs
  <3>2. r.pc = "unlist" => r.share \in Share BY <3>1 DEF ShareTaskShaped
  <3>3. ShareTaskShaped(r)' BY <2>1, <3>1, <3>2 DEF ShareTaskShaped
  <3>4. QED BY <3>3
 <2>4. QED BY <2>2, <2>3
<1>9. ASSUME NEW u \in Presenter, u # c PROVE UserAgrees(u)'
 <2>1. ~StartsIn(q, u) /\ ~StartsIn(n, u) /\ ~RemovesIn(q, u) /\ ~RemovesIn(n, u) /\ q.pc # "index"
   BY <1>1, <1>2, <1>9 DEF StartsIn, RemovesIn, RemovalPc
 <2>2. x \notin Mine(u) BY <1>5, <1>9 DEF Mine
 <2>a. \A y \in Share : y \in Mine(u)' <=> y \in Mine(u)
   BY <1>3, <1>4, <2>2 DEF Mine
 <2>b. Mine(u) \subseteq Share /\ Mine(u)' \subseteq Share
   BY DEF Mine
 <2>3. Mine(u)' = Mine(u) /\ clash \subseteq clash' /\ userShare'[u] = userShare[u] /\ online' = online
   BY <1>1, <2>a, <2>b
 <2>4. \A y \in Mine(u) : shareKey'[y] = shareKey[y] /\ (y \in channelShares => y \in channelShares')
   BY <1>1, <1>3, <2>2, <2>b
 <2>5. QED BY <1>1, <1>2, <2>1, <2>3, <2>4, OtherPresenters
<1>10. UserAgrees(c)'
 <2> SUFFICES ASSUME c \notin clash' PROVE StartAlone(c)' /\ IndexNames(c)' /\ SharesShown(c)' BY DEF UserAgrees
 <2>1. StartAlone(c) /\ IndexNames(c) /\ SharesShown(c) /\ RemovesFor(t, c) /\ ~StartsFor(t, c) /\ x # NoShare
   BY <1>1, ScreenShareAssumption DEF ShareIInv, UserAgrees, RemovesFor, Removes, StartsFor
 <2>2. \A o \in ShareTask : ~StartsFor(o, c) BY <2>1 DEF StartAlone
 <2>3. Mine(c) \subseteq {userShare[c]} /\ userShare[c] \in {x, NoShare} BY <1>1, <2>1, <2>2 DEF IndexNames
 <2>4. \A o \in ShareTask : /\ ~StartsFor(o, c)' /\ (RemovesFor(o, c)' <=> RemovesFor(o, c))
                            /\ shareTask'[o].share = shareTask[o].share
  <3>1. ASSUME NEW o \in ShareTask, o # t
        PROVE  /\ ~StartsFor(o, c)' /\ (RemovesFor(o, c)' <=> RemovesFor(o, c))
               /\ shareTask'[o].share = shareTask[o].share
    BY <1>7, <2>2, <3>1 DEF StartsFor, RemovesFor, Removes
  <3>2. ~StartsFor(t, c)' /\ RemovesFor(t, c)' /\ shareTask'[t].share = shareTask[t].share
    BY <1>1, <1>2, <1>7, ScreenShareAssumption DEF StartsFor, RemovesFor, Removes
  <3>3. QED BY <2>1, <3>1, <3>2
 <2>5. StartAlone(c)' BY <2>4 DEF StartAlone
 <2>6. Mine(c)' = {}
  <3>1. \A y \in Mine(c)' : y \in Mine(c) /\ y # x /\ y \in Share BY <1>3, <1>4 DEF Mine
  <3>2. QED BY <2>3, <3>1, ScreenShareAssumption
 <2>7. IndexNames(c)'
  <3>1. Unlisting(c, x)' BY <1>1, <1>2, <1>7, <2>1, <2>4 DEF Unlisting, At
  <3>2. userShare'[c] # NoShare => Unlisting(c, userShare[c])' BY <1>1, <2>3, <3>1
  <3>3. \A o \in ShareTask : RemovesFor(o, c)' /\ shareTask'[o].share # NoShare =>
            userShare'[c] \in {shareTask'[o].share, NoShare}
    BY <1>1, <2>1, <2>4 DEF IndexNames
  <3>4. userShare'[c] # NoShare => Unlisting(c, userShare[c])' /\ userShare'[c] = userShare[c] BY <1>1, <3>2
  <3>5. QED BY <2>6, <3>3, <3>4 DEF IndexNames, Unlisting
 <2>8. SharesShown(c)' BY <2>6 DEF SharesShown
 <2>9. QED BY <2>5, <2>7, <2>8
<1>11. \A o \in ShareTask : /\ Removes(o)' <=> Removes(o)
                            /\ shareTask'[o].share = shareTask[o].share
                            /\ shareTask'[o].views = shareTask[o].views
  BY <1>1, <1>2, <1>7 DEF Removes
<1>12. Removes(t) BY <1>1 DEF Removes
<1>13. ASSUME NEW o \in ShareTask PROVE JoinApart(shareTask[o])'
 <2> PICK r : r = shareTask'[o] OBVIOUS
 <2>1. CASE o = t BY <1>2, <1>7, <2>1 DEF JoinApart
 <2>2. CASE o # t
  <3>1. JoinApart(r) /\ ShareTaskShaped(r) /\ r = shareTask[o] BY <1>7, <2>2, ShareTaskIs
  <3>2. ASSUME NEW v \in ShareSocket, r.pc \in {"add", "track"}, r.socket = v, v \notin torn'
        PROVE  /\ Live(r.share)' /\ v \in online'
               /\ r.pc = "track" => v \in viewersOf'[r.share]
               /\ \A p \in ShareTask : Removes(p)' =>
                      shareTask'[p].share # r.share /\ <<r.share, v>> \notin shareTask'[p].views
   <4>1. /\ Live(r.share) /\ v \in online
         /\ r.pc = "track" => v \in viewersOf[r.share]
         /\ \A p \in ShareTask : Removes(p) =>
                shareTask[p].share # r.share /\ <<r.share, v>> \notin shareTask[p].views
     BY <1>1, <3>1, <3>2 DEF JoinApart
   <4>2. r.share \in Share /\ r.share # x BY <1>1, <1>12, <3>1, <3>2, <4>1 DEF ShareTaskShaped
   <4>3. Live(r.share)' /\ (r.pc = "track" => v \in viewersOf'[r.share]) BY <1>3, <1>4, <4>1, <4>2
   <4>4. QED BY <1>1, <1>11, <4>1, <4>3
  <3>3. QED BY <3>2 DEF JoinApart
 <2>3. QED BY <2>1, <2>2
<1>14. ASSUME NEW v \in ShareSocket, v \notin torn', NEW y \in Share PROVE ViewAgrees(y, v)'
 <2>1. ViewAgrees(y, v) BY <1>1, <1>14 DEF ShareIInv
 <2>2. CASE y = x
  <3>1. v \notin viewersOf[x] BY <1>1, <1>12, <2>1, <2>2 DEF ViewAgrees
  <3>2. x \notin sharesSeen'[v] /\ v \notin viewersOf'[x] BY <1>1, <1>3, <2>1, <2>2, <3>1 DEF ViewAgrees
  <3>3. QED BY <2>2, <3>2 DEF ViewAgrees
 <2>3. CASE y # x
  <3>1. Tracking(y, v) => Tracking(y, v)' BY <1>1, <1>7 DEF Tracking, At
  <3>2. ViewEnding(y, v) => ViewEnding(y, v)' BY <1>11 DEF ViewEnding
  <3>3. Live(y)' <=> Live(y) BY <1>4, <2>3
  <3>4. viewersOf'[y] = viewersOf[y] BY <1>3, <2>3
  <3>5. QED BY <1>1, <1>11, <2>1, <3>1, <3>2, <3>3, <3>4 DEF ViewAgrees
 <2>4. QED BY <2>2, <2>3
<1>15. ASSUME NEW v \in ShareSocket PROVE ViewerKept(v)'
 <2>1. ViewerKept(v) BY DEF ShareIInv
 <2>2. (\E o \in ShareTask : At(o, "count")) => \E o \in ShareTask : At(o, "count")' BY <1>1, <1>7 DEF At
 <2>3. QED BY <1>1, <2>1, <2>2 DEF ViewerKept
<1>16. QED BY <1>6, <1>8, <1>9, <1>10, <1>13, <1>14, <1>15, SharesTogether

\* The share leaves the list, and its user's index with it.
LEMMA UnlistKeeps == ASSUME ShareIInv, NEW t \in ShareTask, Unlist(t) PROVE ShareIInv'
<1> PICK q : q = shareTask[t] OBVIOUS
<1> PICK x : x = q.share OBVIOUS
<1> PICK c : c = PresenterOf[q.socket] OBVIOUS
<1> PICK n : n = [q EXCEPT !.pc = "views", !.share = NoShare] OBVIOUS
<1>1. /\ q \in ShareTaskType /\ ShareTaskShaped(q) /\ q.pc = "unlist" /\ Running(t, n)
      /\ x \in Share /\ q.socket \in ShareSocket /\ c \in Presenter /\ q.views = {} /\ ~Live(x)
      /\ channelShares' = channelShares \ {x} /\ userShare' = [userShare EXCEPT ![c] = NoShare]
      /\ UNCHANGED <<online, shareKey, clash, torn, viewersOf, sharesSeen, viewerKnown>>
  BY ShareTaskIs, ScreenShareAssumption DEF Unlist, At, ShareTaskShaped, viewerKeys
<1>2. /\ n \in ShareTaskType /\ n.pc = "views" /\ n.socket = q.socket /\ n.share = NoShare
      /\ n.shares = q.shares /\ n.views = {} /\ NoShare \notin Share
  BY <1>1, ScreenShareAssumption DEF ShareTaskType
<1>3. /\ userShare' \in [Presenter -> Share \cup {NoShare}] /\ userShare'[c] = NoShare
      /\ \A u \in Presenter : u # c => userShare'[u] = userShare[u]
  BY <1>1 DEF ShareIInv, ScreenShareTypeOK
<1>4. ScreenShareTypeOK'
 <2>1. shareTask' \in [ShareTask -> ShareTaskType] BY <1>1, <1>2, ShareTaskRuns DEF ShareIInv
 <2>2. QED BY <1>1, <1>3, <2>1 DEF ShareIInv, ScreenShareTypeOK
<1>5. \A o \in ShareTask : ShareTaskShaped(shareTask[o])'
 <2>1. ShareTaskShaped(n) BY <1>1, <1>2 DEF ShareTaskShaped, RemovalPc
 <2>2. QED BY <1>1, <1>2, <2>1, ShapesStand
<1>6. shareTask'[t] = n /\ \A o \in ShareTask : o # t => shareTask'[o] = shareTask[o]
  BY <1>1, <1>2, ShareTaskRuns DEF ShareIInv
<1>7. \A u \in Presenter : Mine(u)' = Mine(u) /\ x \notin Mine(u) /\ Mine(u) \subseteq Share
  BY <1>1 DEF Mine, Live
<1>8. ASSUME NEW u \in Presenter, u # c PROVE UserAgrees(u)'
 <2>1. ~StartsIn(q, u) /\ ~StartsIn(n, u) /\ ~RemovesIn(q, u) /\ ~RemovesIn(n, u) /\ q.pc # "index"
   BY <1>1, <1>2, <1>8 DEF StartsIn, RemovesIn, RemovalPc
 <2>2. Mine(u)' = Mine(u) /\ clash \subseteq clash' /\ userShare'[u] = userShare[u] /\ online' = online
   BY <1>1, <1>3, <1>7, <1>8
 <2>3. \A y \in Mine(u) : shareKey'[y] = shareKey[y] /\ (y \in channelShares => y \in channelShares')
   BY <1>1, <1>7
 <2>4. QED BY <1>1, <1>2, <2>1, <2>2, <2>3, OtherPresenters
<1>9. UserAgrees(c)'
 <2> SUFFICES ASSUME c \notin clash' PROVE StartAlone(c)' /\ IndexNames(c)' /\ SharesShown(c)' BY DEF UserAgrees
 <2>1. StartAlone(c) /\ IndexNames(c) /\ RemovesFor(t, c) /\ ~StartsFor(t, c) /\ x # NoShare
   BY <1>1, <1>2, ScreenShareAssumption DEF ShareIInv, UserAgrees, RemovesFor, Removes, StartsFor
 <2>2. \A o \in ShareTask : ~StartsFor(o, c) BY <2>1 DEF StartAlone
 <2>3. Mine(c) \subseteq {userShare[c]} /\ userShare[c] \in {x, NoShare} BY <1>1, <2>1, <2>2 DEF IndexNames
 <2>4. Mine(c) = {} BY <1>1, <1>2, <1>7, <2>3
 <2>5. \A o \in ShareTask : ~StartsFor(o, c)' BY <1>2, <1>6, <2>2 DEF StartsFor
 <2>6. StartAlone(c)' BY <2>5 DEF StartAlone
 <2>7. Mine(c)' = {} /\ userShare'[c] = NoShare BY <1>1, <1>3, <1>7, <2>4
 <2>8. IndexNames(c)' /\ SharesShown(c)' BY <2>7 DEF IndexNames, SharesShown
 <2>9. QED BY <2>6, <2>8
<1>10. /\ \A o \in ShareTask : JoinApart(shareTask[o])'
       /\ \A v \in ShareSocket : (v \notin torn' => \A y \in Share : ViewAgrees(y, v)') /\ ViewerKept(v)'
 <2>1. q.pc \notin {"track", "count"} /\ torn \subseteq torn' /\ \A y \in Share : Live(y) => Live(y)'
   BY <1>1 DEF Live
 <2>2. JoinApart(n)' BY <1>2 DEF JoinApart
 <2>3. \A o \in ShareTask : \A v \in ShareSocket : AddsViewer(o, v) => shareTask[o].share \in Share
   BY ShareTaskIs DEF AddsViewer, ShareTaskShaped
 <2>4. Undisturbed(t, n) BY <1>1, <1>2, <2>3 DEF Undisturbed
 <2>5. SeesToViews(t, n) BY <1>1, <1>2 DEF SeesToViews
 <2>6. QED BY <1>1, <1>2, <2>1, <2>2, <2>4, <2>5, ViewsStand
<1>11. QED BY <1>4, <1>5, <1>8, <1>9, <1>10, SharesTogether

\* Who connects again is a new socket: no key and no task names it.
LEMMA ShareReconnectKeeps == ASSUME ShareIInv, NEW s \in ShareSocket, ShareReconnect(s) PROVE ShareIInv'
<1>1. /\ online' = online \cup {s} /\ torn' = torn \ {s} /\ sharesSeen[s] = {}
      /\ \A x \in Share : s \notin viewersOf[x]
      /\ \A t \in ShareTask : shareTask[t].socket # s
      /\ UNCHANGED <<shareTask, clash, shareKey, channelShares, userShare, viewersOf, sharesSeen, viewerKnown>>
  BY DEF ShareReconnect, shareKeys, viewerKeys
<1>2. ScreenShareTypeOK' BY <1>1 DEF ShareIInv, ScreenShareTypeOK
<1>3. ASSUME NEW o \in ShareTask PROVE ShareTaskShaped(shareTask[o])'
 <2> PICK r : r = shareTask[o] OBVIOUS
 <2>1. ShareTaskShaped(r) /\ shareTask'[o] = r BY <1>1, ShareTaskIs
 <2>2. ShareTaskShaped(r)' BY <1>1, <2>1 DEF ShareTaskShaped, Live
 <2>3. QED BY <2>1, <2>2
<1>4. ASSUME NEW u \in Presenter PROVE UserAgrees(u)'
 <2> SUFFICES ASSUME u \notin clash' PROVE StartAlone(u)' /\ IndexNames(u)' /\ SharesShown(u)' BY DEF UserAgrees
 <2>1. StartAlone(u) /\ IndexNames(u) /\ SharesShown(u) BY <1>1 DEF ShareIInv, UserAgrees
 <2>2. /\ Mine(u)' = Mine(u)
       /\ \A o \in ShareTask : /\ StartsFor(o, u)' <=> StartsFor(o, u)
                               /\ RemovesFor(o, u)' <=> RemovesFor(o, u)
   BY <1>1 DEF Mine, Live, StartsFor, RemovesFor, Removes
 <2>3. StartAlone(u)' BY <1>1, <2>1, <2>2 DEF StartAlone, At
 <2>4. IndexNames(u)' BY <1>1, <2>1, <2>2 DEF IndexNames, Unlisting, At
 <2>5. SharesShown(u)' BY <1>1, <2>1, <2>2 DEF SharesShown, BeingListed, BeingStopped, Removes, At
 <2>6. QED BY <2>3, <2>4, <2>5
<1>5. ASSUME NEW o \in ShareTask PROVE JoinApart(shareTask[o])'
 <2> PICK r : r = shareTask[o] OBVIOUS
 <2>1. JoinApart(r) /\ shareTask'[o] = r /\ r.socket # s BY <1>1, ShareTaskIs
 <2>2. JoinApart(r)' BY <1>1, <2>1 DEF JoinApart, Live, Removes
 <2>3. QED BY <2>1, <2>2
<1>6. ASSUME NEW v \in ShareSocket, v \notin torn', NEW x \in Share PROVE ViewAgrees(x, v)'
 <2>1. CASE v = s BY <1>1, <2>1 DEF ViewAgrees
 <2>2. CASE v # s
  <3>1. ViewAgrees(x, v) BY <1>1, <1>6, <2>2 DEF ShareIInv
  <3>2. QED BY <1>1, <3>1 DEF ViewAgrees, Live, Tracking, ViewEnding, Removes, At
 <2>3. QED BY <2>1, <2>2
<1>7. ASSUME NEW v \in ShareSocket PROVE ViewerKept(v)' BY <1>1 DEF ShareIInv, ViewerKept, At
<1>8. QED BY <1>2, <1>3, <1>4, <1>5, <1>6, <1>7, SharesTogether

\* The keys that have a time to live expire: by then nobody had a share or a view.
LEMMA ShareKeysExpireKeeps == ASSUME ShareIInv, ShareKeysExpire PROVE ShareIInv'
<1>1. /\ online = {} /\ \A t \in ShareTask : shareTask[t].pc = "idle"
      /\ shareKey' = [x \in Share |-> NoShareSocket]
      /\ viewersOf' = [x \in Share |-> {}] /\ sharesSeen' = [s \in ShareSocket |-> {}] /\ viewerKnown' = {}
      /\ UNCHANGED <<online, channelShares, userShare, shareTask, clash, torn>>
  BY DEF ShareKeysExpire, At
<1>2. ScreenShareTypeOK' BY <1>1 DEF ShareIInv, ScreenShareTypeOK
<1>3. ASSUME NEW o \in ShareTask PROVE ShareTaskShaped(shareTask[o])' /\ JoinApart(shareTask[o])'
 <2> PICK r : r = shareTask[o] OBVIOUS
 <2>1. ShareTaskShaped(r) /\ shareTask'[o] = r /\ r.pc = "idle" BY <1>1, ShareTaskIs
 <2>2. ShareTaskShaped(r)' /\ JoinApart(r)' BY <2>1 DEF ShareTaskShaped, JoinApart, RemovalPc
 <2>3. QED BY <2>1, <2>2
<1>4. ASSUME NEW u \in Presenter PROVE UserAgrees(u)'
 <2> SUFFICES ASSUME u \notin clash' PROVE StartAlone(u)' /\ IndexNames(u)' /\ SharesShown(u)' BY DEF UserAgrees
 <2>1. IndexNames(u) /\ SharesShown(u) BY <1>1 DEF ShareIInv, UserAgrees
 <2>2. \A o \in ShareTask : /\ ~StartsFor(o, u)' /\ ~RemovesFor(o, u)'
                            /\ ~RemovesFor(o, u) /\ ~Removes(o)
   BY <1>1 DEF StartsFor, RemovesFor, Removes
 <2>3. Mine(u) = {} BY <1>1, <2>1, <2>2 DEF SharesShown, BeingStopped
 <2>4. userShare[u] = NoShare BY <2>1, <2>2, <2>3 DEF IndexNames, Unlisting
 <2>5. Mine(u)' = {} BY <1>1 DEF Mine, Live
 <2>6. StartAlone(u)' /\ SharesShown(u)' BY <2>2, <2>5 DEF StartAlone, SharesShown
 <2>7. IndexNames(u)' BY <1>1, <2>2, <2>4, <2>5 DEF IndexNames
 <2>8. QED BY <2>6, <2>7
<1>5. ASSUME NEW v \in ShareSocket PROVE (\A x \in Share : ViewAgrees(x, v)') /\ ViewerKept(v)'
  BY <1>1 DEF ViewAgrees, ViewerKept
<1>6. QED BY <1>2, <1>3, <1>4, <1>5, SharesTogether

\* Nothing is shared at first.
LEMMA ShareInit == ASSUME ScreenShareInit PROVE ShareIInv
<1>1. ScreenShareTypeOK
 <2>1. shareTask \in [ShareTask -> ShareTaskType] BY NoShareTaskIs DEF ScreenShareInit
 <2>2. QED BY <2>1 DEF ScreenShareInit, ScreenShareTypeOK
<1>2. \A o \in ShareTask : shareTask[o] = NoShareTask /\ shareTask[o].pc = "idle"
  BY NoShareTaskIs DEF ScreenShareInit
<1>3. ShareTaskShaped(NoShareTask) /\ JoinApart(NoShareTask)
 <2> PICK r : r = NoShareTask OBVIOUS
 <2>1. ShareTaskShaped(r) /\ JoinApart(r) BY NoShareTaskIs DEF ShareTaskShaped, JoinApart, RemovalPc
 <2>2. QED BY <2>1
<1>4. ASSUME NEW u \in Presenter PROVE UserAgrees(u)
 <2>1. Mine(u) = {} /\ userShare[u] = NoShare BY DEF ScreenShareInit, Mine, Live
 <2>2. \A o \in ShareTask : ~StartsFor(o, u) BY <1>2 DEF StartsFor
 <2>3. QED BY <2>1, <2>2 DEF UserAgrees, StartAlone, IndexNames, SharesShown
<1>5. ASSUME NEW v \in ShareSocket PROVE (\A x \in Share : ViewAgrees(x, v)) /\ ViewerKept(v)
  BY DEF ScreenShareInit, ViewAgrees, ViewerKept
<1>6. QED BY <1>1, <1>2, <1>3, <1>4, <1>5 DEF ShareIInv

\* Nothing happens.
LEMMA SharesStutter == ASSUME ShareIInv, UNCHANGED shareVars PROVE ShareIInv'
<1>1. UNCHANGED <<online, shareKey, channelShares, userShare, viewersOf, sharesSeen, viewerKnown, shareTask,
                  clash, torn>>
  BY DEF shareVars
<1>2. ScreenShareTypeOK' BY <1>1 DEF ShareIInv, ScreenShareTypeOK
<1>3. ASSUME NEW o \in ShareTask PROVE ShareTaskShaped(shareTask[o])' /\ JoinApart(shareTask[o])'
 <2> PICK r : r = shareTask[o] OBVIOUS
 <2>1. ShareTaskShaped(r) /\ JoinApart(r) /\ shareTask'[o] = r BY <1>1, ShareTaskIs
 <2>2. ShareTaskShaped(r)' BY <1>1, <2>1 DEF ShareTaskShaped, Live
 <2>3. JoinApart(r)' BY <1>1, <2>1 DEF JoinApart, Live, Removes
 <2>4. QED BY <2>1, <2>2, <2>3
<1>4. ASSUME NEW u \in Presenter PROVE UserAgrees(u)'
 <2>1. UserAgrees(u) BY DEF ShareIInv
 <2>2. /\ Mine(u)' = Mine(u)
       /\ \A o \in ShareTask : /\ StartsFor(o, u)' <=> StartsFor(o, u)
                               /\ RemovesFor(o, u)' <=> RemovesFor(o, u)
   BY <1>1 DEF Mine, Live, StartsFor, RemovesFor, Removes
 <2>3. StartAlone(u) => StartAlone(u)' BY <1>1, <2>2 DEF StartAlone, At
 <2>4. IndexNames(u) => IndexNames(u)' BY <1>1, <2>2 DEF IndexNames, Unlisting, At
 <2>5. SharesShown(u) => SharesShown(u)' BY <1>1, <2>2 DEF SharesShown, BeingListed, BeingStopped, Removes, At
 <2>6. QED BY <1>1, <2>1, <2>3, <2>4, <2>5 DEF UserAgrees
<1>5. ASSUME NEW v \in ShareSocket
      PROVE  (v \notin torn' => \A x \in Share : ViewAgrees(x, v)') /\ ViewerKept(v)'
 <2>1. ASSUME v \notin torn', NEW x \in Share PROVE ViewAgrees(x, v)'
  <3>1. ViewAgrees(x, v) BY <1>1, <2>1 DEF ShareIInv
  <3>2. QED BY <1>1, <3>1 DEF ViewAgrees, Live, Tracking, ViewEnding, Removes, At
 <2>2. ViewerKept(v)' BY <1>1 DEF ShareIInv, ViewerKept, At
 <2>3. QED BY <2>1, <2>2
<1>6. QED BY <1>2, <1>3, <1>4, <1>5, SharesTogether

\* Every step keeps the invariant.
LEMMA ShareStepKeeps == ASSUME ShareIInv, [ScreenShareNext]_shareVars PROVE ShareIInv'
<1>1. ASSUME NEW t \in ShareTask, NEW s \in ShareSocket,
             \/ ShareStart(t, s) \/ ShareEvict(t, s) \/ ShareDisconnect(t, s)
             \/ \E x \in Share : ShareStop(t, s, x) \/ ViewerLeave(t, s, x) \/ ViewerJoin(t, s, x)
      PROVE  ShareIInv'
  BY <1>1, ShareStartKeeps, RemovalsKeep, ShareDisconnectKeeps, ViewerJoinKeeps
<1>2. ASSUME NEW t \in ShareTask,
             \/ ShareFind(t) \/ SharePut(t) \/ ShareIndex(t)
             \/ RemoveView(t) \/ CountViews(t) \/ NextRemoval(t) \/ RemoveKeys(t) \/ Unlist(t)
             \/ AddViewer(t) \/ TrackViewer(t)
      PROVE  ShareIInv'
  BY <1>2, ShareFindKeeps, SharePutKeeps, ShareIndexKeeps, RemoveViewKeeps, CountViewsKeeps, NextRemovalKeeps, RemoveKeysKeeps,
     UnlistKeeps, AddViewerKeeps, TrackViewerKeeps
<1>3. ASSUME NEW s \in ShareSocket, ShareReconnect(s) PROVE ShareIInv' BY <1>3, ShareReconnectKeeps
<1>4. CASE ShareKeysExpire BY <1>4, ShareKeysExpireKeeps
<1>5. CASE UNCHANGED shareVars BY <1>5, SharesStutter
<1>6. QED BY <1>1, <1>2, <1>3, <1>4, <1>5 DEF ScreenShareNext

\* Whatever races there are, the channel's list names each share or is about to.
AllListed == \A x \in Share : Live(x) => x \in channelShares \/ BeingListed(x)

\* A task's step that neither lists, writes nor removes a share keeps that.
LEMMA ListedStands ==
    ASSUME AllListed, NEW t \in ShareTask, \A o \in ShareTask : o # t => shareTask'[o] = shareTask[o],
           shareTask[t].pc # "index", UNCHANGED <<shareKey, channelShares>>
    PROVE  AllListed'
<1>1. ASSUME NEW x \in Share, Live(x)' PROVE (x \in channelShares \/ BeingListed(x))'
 <2>1. x \in channelShares \/ BeingListed(x) BY <1>1 DEF AllListed, Live
 <2>2. BeingListed(x) => BeingListed(x)' BY DEF BeingListed, At
 <2>3. QED BY <2>1, <2>2
<1>2. QED BY <1>1 DEF AllListed

\* Every step keeps every share listed.
LEMMA ListedKeeps == ASSUME ShareIInv, AllListed, [ScreenShareNext]_shareVars PROVE AllListed'
<1>1. ASSUME NEW t \in ShareTask, NEW n, Running(t, n)
      PROVE  shareTask'[t] = n /\ \A o \in ShareTask : o # t => shareTask'[o] = shareTask[o]
  BY <1>1 DEF Running, ShareIInv, ScreenShareTypeOK
<1>2. ASSUME NEW t \in ShareTask, NEW n, Running(t, n), shareTask[t].pc # "index",
             UNCHANGED <<shareKey, channelShares>>
      PROVE  AllListed'
  BY <1>1, <1>2, ListedStands
<1>3. ASSUME NEW t \in ShareTask, NEW s \in ShareSocket,
             \/ ShareStart(t, s) \/ ShareEvict(t, s) \/ ShareDisconnect(t, s)
             \/ \E x \in Share : ShareStop(t, s, x) \/ ViewerLeave(t, s, x) \/ ViewerJoin(t, s, x)
      PROVE  AllListed'
 <2>1. shareTask[t].pc # "index" /\ UNCHANGED <<shareKey, channelShares>>
   BY <1>3 DEF ShareStart, ShareEvict, ShareDisconnect, ShareStop, ViewerLeave, ViewerJoin, RemovalStarts, At,
               shareKeys
 <2>2. \E n : Running(t, n)
   BY <1>3 DEF ShareStart, ShareEvict, ShareDisconnect, ShareStop, ViewerLeave, ViewerJoin, RemovalStarts
 <2>3. QED BY <1>2, <2>1, <2>2
<1>4. ASSUME NEW t \in ShareTask,
             \/ ShareFind(t) \/ RemoveView(t) \/ CountViews(t) \/ NextRemoval(t) \/ AddViewer(t) \/ TrackViewer(t)
      PROVE  AllListed'
 <2>1. shareTask[t].pc # "index" /\ UNCHANGED <<shareKey, channelShares>>
   BY <1>4 DEF ShareFind, RemoveView, CountViews, NextRemoval, AddViewer, TrackViewer, At, shareKeys
 <2>2. \E n : Running(t, n)
   BY <1>4 DEF ShareFind, RemoveView, CountViews, NextRemoval, AddViewer, TrackViewer, Over, Becomes, Running
 <2>3. QED BY <1>2, <2>1, <2>2
<1>5. ASSUME NEW t \in ShareTask, SharePut(t) PROVE AllListed'
 <2>1. PICK x \in Fresh : /\ shareKey' = [shareKey EXCEPT ![x] = shareTask[t].socket]
                         /\ Running(t, [shareTask[t] EXCEPT !.pc = "index", !.share = x])
   BY <1>5 DEF SharePut
 <2>2. /\ shareTask[t].pc = "put" /\ channelShares' = channelShares /\ shareTask[t] \in ShareTaskType
       /\ x \in Share /\ \A y \in Share : y # x => shareKey'[y] = shareKey[y]
   BY <1>5, <2>1, ShareTaskIs DEF SharePut, At, Fresh, ShareIInv, ScreenShareTypeOK
 <2>3. /\ \A o \in ShareTask : o # t => shareTask'[o] = shareTask[o]
       /\ At(t, "index")' /\ shareTask'[t].share = x
  <3> PICK r : r = shareTask[t] OBVIOUS
  <3> PICK n : n = [r EXCEPT !.pc = "index", !.share = x] OBVIOUS
  <3>1. n.pc = "index" /\ n.share = x BY <2>2 DEF ShareTaskType
  <3>2. shareTask'[t] = n /\ \A o \in ShareTask : o # t => shareTask'[o] = shareTask[o] BY <1>1, <2>1
  <3>3. QED BY <3>1, <3>2 DEF At
 <2>4. ASSUME NEW y \in Share, y # x, Live(y)' PROVE (y \in channelShares \/ BeingListed(y))'
  <3>1. y \in channelShares \/ BeingListed(y) BY <2>2, <2>4 DEF AllListed, Live
  <3>2. BeingListed(y) => BeingListed(y)' BY <2>2, <2>3 DEF BeingListed, At
  <3>3. QED BY <2>2, <3>1, <3>2
 <2>5. BeingListed(x)' BY <2>3 DEF BeingListed
 <2>6. QED BY <2>4, <2>5 DEF AllListed
<1>6. ASSUME NEW t \in ShareTask, ShareIndex(t) PROVE AllListed'
 <2>1. /\ channelShares' = channelShares \cup {shareTask[t].share} /\ shareKey' = shareKey
       /\ \A o \in ShareTask : o # t => shareTask'[o] = shareTask[o]
   BY <1>1, <1>6 DEF ShareIndex, Over
 <2>2. ASSUME NEW y \in Share, Live(y)' PROVE (y \in channelShares \/ BeingListed(y))'
  <3>1. y \in channelShares \/ BeingListed(y) BY <2>1, <2>2 DEF AllListed, Live
  <3>2. BeingListed(y) => y = shareTask[t].share \/ BeingListed(y)' BY <2>1 DEF BeingListed, At
  <3>3. QED BY <2>1, <3>1, <3>2
 <2>3. QED BY <2>2 DEF AllListed
<1>7. ASSUME NEW t \in ShareTask, RemoveKeys(t) \/ Unlist(t) PROVE AllListed'
 <2>1. /\ shareTask[t].pc \in {"del", "unlist"} /\ shareTask[t].pc # "index"
       /\ \A o \in ShareTask : o # t => shareTask'[o] = shareTask[o]
   BY <1>1, <1>7 DEF RemoveKeys, Unlist, At, Becomes, Running
 <2>2. ASSUME NEW y \in Share, Live(y)'
       PROVE  Live(y) /\ (y \in channelShares => y \in channelShares')
  <3>1. CASE RemoveKeys(t) BY <2>2, <3>1 DEF RemoveKeys, Live, ShareIInv, ScreenShareTypeOK
  <3>2. CASE Unlist(t)
   <4>1. ~Live(shareTask[t].share) BY <3>2, ShareTaskIs DEF Unlist, At, ShareTaskShaped
   <4>2. QED BY <2>2, <3>2, <4>1 DEF Unlist, Live
  <3>3. QED BY <1>7, <3>1, <3>2
 <2>3. \A y \in Share : BeingListed(y) => BeingListed(y)' BY <2>1 DEF BeingListed, At
 <2>4. QED BY <2>2, <2>3 DEF AllListed
<1>8. ASSUME NEW s \in ShareSocket, ShareReconnect(s) PROVE AllListed'
  BY <1>8 DEF ShareReconnect, shareKeys, AllListed, Live, BeingListed, At
<1>9. CASE ShareKeysExpire BY <1>9 DEF ShareKeysExpire, AllListed, Live
<1>10. CASE UNCHANGED shareVars BY <1>10 DEF shareVars, AllListed, Live, BeingListed, At
<1>11. QED BY <1>3, <1>4, <1>5, <1>6, <1>7, <1>8, <1>9, <1>10 DEF ScreenShareNext

\* Whenever no handler is in flight, the share and viewer keys agree, for every number of
\* users, sockets, shares and handlers: every share is listed; a user no start of whose, from
\* its permission check on, overlapped with another start or removal has at most one share,
\* indexed and of a connected socket; and a viewer whose join met no removal watches exactly
\* the live shares that name it.
THEOREM SharesSettle == ScreenShareSpec => [](ScreenShareTypeOK /\ SettledShares)
<1>1. ScreenShareInit => ShareIInv /\ AllListed BY ShareInit DEF ScreenShareInit, AllListed, Live
<1>2. ShareIInv /\ AllListed /\ [ScreenShareNext]_shareVars => (ShareIInv /\ AllListed)'
  BY ShareStepKeeps, ListedKeeps
<1>3. ShareIInv /\ AllListed => SettledShares
 <2> SUFFICES ASSUME ShareIInv, AllListed, \A t \in ShareTask : At(t, "idle")
     PROVE  /\ \A x \in Share : Live(x) => x \in channelShares
            /\ \A u \in Presenter \ clash :
                   LET mine == {x \in Share : Live(x) /\ PresenterOf[shareKey[x]] = u} IN
                   /\ mine = IF userShare[u] = NoShare THEN {} ELSE {userShare[u]}
                   /\ \A x \in mine : shareKey[x] \in online
            /\ \A s \in ShareSocket \ torn :
                   /\ sharesSeen[s] = {x \in Share : s \in viewersOf[x]}
                   /\ \A x \in sharesSeen[s] : Live(x) /\ s \in online
                   /\ s \in viewerKnown <=> sharesSeen[s] # {}
   BY DEF SettledShares
 <2>1. /\ \A t \in ShareTask : ~Removes(t) /\ ~At(t, "index") /\ ~At(t, "track") /\ ~At(t, "count")
       /\ \A t \in ShareTask : \A u \in Presenter : ~StartsFor(t, u) /\ ~RemovesFor(t, u)
   BY DEF Removes, At, StartsFor, RemovesFor
 <2>2. ASSUME NEW u \in Presenter \ clash
       PROVE  /\ Mine(u) = IF userShare[u] = NoShare THEN {} ELSE {userShare[u]}
              /\ \A x \in Mine(u) : shareKey[x] \in online
  <3>1. IndexNames(u) /\ SharesShown(u) BY DEF ShareIInv, UserAgrees
  <3>2. /\ Mine(u) \subseteq {userShare[u]} /\ Mine(u) \subseteq Share
        /\ userShare[u] # NoShare => userShare[u] \in Mine(u)
    BY <2>1, <3>1 DEF IndexNames, Unlisting, Mine
  <3>3. Mine(u) = IF userShare[u] = NoShare THEN {} ELSE {userShare[u]} BY <3>2, ScreenShareAssumption
  <3>4. \A x \in Mine(u) : shareKey[x] \in online BY <2>1, <3>1 DEF SharesShown, BeingStopped
  <3>5. QED BY <3>3, <3>4
 <2>3. ASSUME NEW s \in ShareSocket \ torn
       PROVE  /\ sharesSeen[s] = {x \in Share : s \in viewersOf[x]}
              /\ \A x \in sharesSeen[s] : Live(x) /\ s \in online
              /\ s \in viewerKnown <=> sharesSeen[s] # {}
  <3>1. ASSUME NEW x \in Share
        PROVE  /\ x \in sharesSeen[s] <=> s \in viewersOf[x]
               /\ x \in sharesSeen[s] => Live(x) /\ s \in online
   <4>1. ViewAgrees(x, s) BY DEF ShareIInv
   <4>2. ~Tracking(x, s) /\ ~ViewEnding(x, s) BY <2>1 DEF Tracking, ViewEnding
   <4>3. QED BY <4>1, <4>2 DEF ViewAgrees
  <3>2. sharesSeen[s] \subseteq Share BY DEF ShareIInv, ScreenShareTypeOK
  <3>3. s \in viewerKnown <=> sharesSeen[s] # {} BY <2>1 DEF ShareIInv, ViewerKept
  <3>4. QED BY <3>1, <3>2, <3>3
 <2>4. \A x \in Share : Live(x) => x \in channelShares BY <2>1 DEF AllListed, BeingListed
 <2>5. QED BY <2>2, <2>3, <2>4 DEF Mine
<1>4. QED BY <1>1, <1>2, <1>3, PTL DEF ScreenShareSpec, ShareIInv

------------------------------------------------------------
(* VoiceMix                                                                *)

MixRecord ==
    [listener : Listener \union {NoListener}, status : {"loading", "ready", "error"},
     wants : [Target -> Loudness], pending : SUBSET Target,
     errors : SUBSET Target, timers : SUBSET Target]

\* Nothing is tuned before the list is known, which nobody but a listener loads.
TunedWhenReady ==
    /\ mix.status # "ready" => mix.pending = {} /\ mix.timers = {} /\ \A t \in Target : writes[t] = NoWrite
    /\ mix.status # "loading" => mix.listener # NoListener
    /\ mixList # NoWrite => mix.listener # NoListener /\ mix.status = "loading"

\* The list that was read is still what is stored.
ListIsStored ==
    mixList # NoWrite => \A t \in Target \ crossed : mixList[t] = mixRow[mix.listener][t]

\* What is pending will be sent: by its timer, or once the write under way ends.
PendingIsSent == \A t \in mix.pending : t \in mix.timers \/ writes[t] # NoWrite

\* What a listener wants and did not change since is stored, or is being written.
Heard(t) ==
    /\ writes[t] = NoWrite => mix.wants[t] = mixRow[mix.listener][t]
    /\ writes[t] # NoWrite =>
        /\ writes[t].value = mix.wants[t]
        /\ writes[t].served => mix.wants[t] = mixRow[mix.listener][t]
WantsAreStored ==
    mix.status = "ready" => \A t \in Target \ crossed : t \notin mix.pending \union mix.errors => Heard(t)

MixIInv ==
    /\ VoiceMixTypeOK /\ TunedWhenReady /\ ListIsStored /\ PendingIsSent /\ WantsAreStored

LEMMA MixBegins == VoiceMixInit => MixIInv
<1> SUFFICES ASSUME VoiceMixInit PROVE MixIInv OBVIOUS
<1>1. mix = CreateSession(NoListener) /\ CreateSession(NoListener) \in MixRecord
  BY VoiceMixAssumption DEF VoiceMixInit, CreateSession, MixRecord
<1>2. VoiceMixTypeOK BY <1>1 DEF VoiceMixInit, VoiceMixTypeOK, MixRecord, NoWrites
<1> QED
  BY <1>1, <1>2 DEF VoiceMixInit, MixIInv, TunedWhenReady, ListIsStored, PendingIsSent, WantsAreStored, CreateSession,
     NoWrites

\* A write under way is a listener's.
LEMMA WriterListens ==
    ASSUME MixIInv, NEW t \in Target, writes[t] # NoWrite
    PROVE  /\ mix.listener \in Listener /\ mix.status = "ready" /\ writes[t] \in Write
           /\ writes[t].value \in Loudness /\ mix \in MixRecord
BY DEF MixIInv, VoiceMixTypeOK, TunedWhenReady, Write, MixRecord

LEMMA ListenerChangesKeeps ==
    ASSUME MixIInv, NEW a \in Listener \union {NoListener}, ListenerChanges(a)
    PROVE  MixIInv'
<1>1. mix' = CreateSession(a) /\ mixList' = NoWrite /\ writes' = NoWrites /\ crossed' = {} /\ mixRow' = mixRow
  BY DEF ListenerChanges
<1>2. CreateSession(a) \in MixRecord BY VoiceMixAssumption DEF CreateSession, MixRecord
<1>3. lateWrites' \subseteq Listener \X Target \X Loudness
 <2> SUFFICES ASSUME NEW w \in lateWrites' PROVE w \in Listener \X Target \X Loudness OBVIOUS
 <2>1. PICK t \in Target : writes[t] # NoWrite /\ w = <<mix.listener, t, writes[t].value>>
   BY DEF ListenerChanges
 <2> QED BY <2>1, WriterListens
<1>4. VoiceMixTypeOK' BY <1>1, <1>2, <1>3 DEF MixIInv, VoiceMixTypeOK, MixRecord, NoWrites
<1> QED
  BY <1>1, <1>4 DEF MixIInv, TunedWhenReady, ListIsStored, PendingIsSent, WantsAreStored, CreateSession, NoWrites

LEMMA LateWriteKeeps ==
    ASSUME MixIInv, ServeLateWrite
    PROVE  MixIInv'
<1>1. PICK w \in lateWrites, applied \in BOOLEAN :
        /\ lateWrites' = lateWrites \ {w}
        /\ mixRow' = IF applied THEN [mixRow EXCEPT ![w[1]][w[2]] = w[3]] ELSE mixRow
        /\ crossed' = IF applied /\ w[1] = mix.listener THEN crossed \union {w[2]} ELSE crossed
        /\ UNCHANGED <<mix, mixList, writes>>
  BY DEF ServeLateWrite
<1>2. w[1] \in Listener /\ w[2] \in Target /\ w[3] \in Loudness /\ mixRow \in [Listener -> [Target -> Loudness]]
  BY DEF MixIInv, VoiceMixTypeOK
<1>3. mixRow' \in [Listener -> [Target -> Loudness]] BY <1>1, <1>2
<1>4. VoiceMixTypeOK' BY <1>1, <1>2, <1>3 DEF MixIInv, VoiceMixTypeOK
<1>5. crossed \subseteq crossed'
      /\ \A t \in Target \ crossed' : mix.listener \in Listener => mixRow'[mix.listener][t] = mixRow[mix.listener][t]
  BY <1>1, <1>2
<1>6. mix.status = "ready" \/ mixList # NoWrite => mix.listener \in Listener
  BY DEF MixIInv, VoiceMixTypeOK, TunedWhenReady
<1>7. UNCHANGED <<mix, mixList, writes>> BY <1>1
<1>8. ListIsStored' /\ WantsAreStored' BY <1>5, <1>6, <1>7 DEF MixIInv, ListIsStored, WantsAreStored, Heard
<1> QED BY <1>4, <1>7, <1>8 DEF MixIInv, TunedWhenReady, PendingIsSent

LEMMA HydrationKeeps ==
    ASSUME MixIInv, ServeList \/ Hydrated \/ HydrateFails \/ RetryHydrate
    PROVE  MixIInv'
<1>0. mix \in MixRecord /\ UNCHANGED <<mixRow, writes, lateWrites, crossed>>
  BY DEF MixIInv, VoiceMixTypeOK, MixRecord, ServeList, Hydrated, HydrateFails, RetryHydrate
<1>1. CASE ServeList
 <2>1. mix.listener \in Listener \ {NoListener} /\ mix.status = "loading" /\ mixList' = mixRow[mix.listener] /\ mix' = mix
   BY <1>1 DEF ServeList, MixIInv, VoiceMixTypeOK
 <2>2. VoiceMixTypeOK' BY <1>0, <2>1 DEF MixIInv, VoiceMixTypeOK
 <2> QED BY <1>0, <2>1, <2>2 DEF MixIInv, TunedWhenReady, ListIsStored, PendingIsSent, WantsAreStored
<1>2. CASE Hydrated
 <2>1. mixList # NoWrite /\ mix' = [mix EXCEPT !.status = "ready", !.wants = mixList] /\ mixList' = NoWrite
       /\ mixList \in [Target -> Loudness]
   BY <1>2 DEF Hydrated, MixIInv, VoiceMixTypeOK
 <2>2. mix' \in MixRecord /\ mix'.status = "ready" /\ mix'.wants = mixList /\ mix'.listener = mix.listener
       /\ mix'.pending = mix.pending /\ mix'.timers = mix.timers /\ mix'.errors = mix.errors
   BY <1>0, <2>1 DEF MixRecord
 <2>3. mix.listener # NoListener /\ \A t \in Target : writes[t] = NoWrite BY <2>1 DEF MixIInv, TunedWhenReady
 <2>4. VoiceMixTypeOK' BY <1>0, <2>1, <2>2 DEF MixIInv, VoiceMixTypeOK, MixRecord
 <2>5. WantsAreStored' BY <1>0, <2>1, <2>2, <2>3 DEF MixIInv, ListIsStored, WantsAreStored, Heard
 <2> QED BY <1>0, <2>1, <2>2, <2>3, <2>4, <2>5 DEF MixIInv, TunedWhenReady, ListIsStored, PendingIsSent
<1>3. CASE HydrateFails \/ RetryHydrate
 <2>1. PICK status \in {"loading", "error"} : mix' = [mix EXCEPT !.status = status]
   BY <1>3 DEF HydrateFails, RetryHydrate
 <2>2. mix' \in MixRecord /\ mix'.status = status /\ mix'.listener = mix.listener
       /\ mix'.pending = mix.pending /\ mix'.timers = mix.timers
   BY <1>0, <2>1 DEF MixRecord
 <2>3. mix.status # "ready" /\ mix.listener # NoListener /\ mixList' = NoWrite
   BY <1>3 DEF HydrateFails, RetryHydrate, MixIInv, TunedWhenReady
 <2>4. VoiceMixTypeOK' BY <1>0, <2>2, <2>3 DEF MixIInv, VoiceMixTypeOK, MixRecord
 <2> QED BY <1>0, <2>2, <2>3, <2>4 DEF MixIInv, TunedWhenReady, ListIsStored, PendingIsSent, WantsAreStored
<1> QED BY <1>1, <1>2, <1>3

\* A step on one member leaves the others, the list and the listener.
OnMember(t) ==
    /\ UNCHANGED <<mixList, crossed>>
    /\ mix' \in MixRecord /\ mix'.listener = mix.listener /\ mix'.status = mix.status
    /\ writes' \in [Target -> {NoWrite} \union Write] /\ mixRow' \in [Listener -> [Target -> Loudness]]
    /\ lateWrites' \subseteq Listener \X Target \X Loudness
    /\ \A u \in Target \ {t} :
        /\ writes'[u] = writes[u] /\ mix'.wants[u] = mix.wants[u]
        /\ mixRow'[mix.listener][u] = mixRow[mix.listener][u]
        /\ u \in mix'.pending <=> u \in mix.pending
        /\ u \in mix'.timers <=> u \in mix.timers
        /\ u \in mix'.errors <=> u \in mix.errors

LEMMA MemberKeeps ==
    ASSUME MixIInv, NEW t \in Target, OnMember(t), mix.status = "ready",
           t \in mix'.pending => t \in mix'.timers \/ writes'[t] # NoWrite,
           t \notin crossed \union mix'.pending \union mix'.errors => Heard(t)'
    PROVE  MixIInv'
<1>1. VoiceMixTypeOK' BY DEF MixIInv, VoiceMixTypeOK, OnMember, MixRecord
<1>2. TunedWhenReady' /\ ListIsStored' BY DEF MixIInv, TunedWhenReady, ListIsStored, OnMember
<1>3. PendingIsSent' BY <1>1 DEF MixIInv, PendingIsSent, OnMember, VoiceMixTypeOK
<1>4. WantsAreStored'
 <2> SUFFICES ASSUME NEW u \in Target \ crossed, u \notin mix'.pending \union mix'.errors
              PROVE  Heard(u)'
   BY DEF WantsAreStored, OnMember
 <2>1. CASE u = t BY <2>1
 <2>2. CASE u # t
  <3>1. Heard(u) /\ mix'.listener = mix.listener /\ writes'[u] = writes[u] /\ mix'.wants[u] = mix.wants[u]
        /\ mixRow'[mix.listener][u] = mixRow[mix.listener][u]
    BY <2>2 DEF MixIInv, WantsAreStored, OnMember
  <3> QED BY <3>1 DEF Heard
 <2> QED BY <2>1, <2>2
<1> QED BY <1>1, <1>2, <1>3, <1>4 DEF MixIInv

LEMMA SetKeeps ==
    ASSUME MixIInv, NEW t \in Target, NEW v \in Loudness, SetPreference(t, v)
    PROVE  MixIInv'
<1>1. mix \in MixRecord /\ mix.status = "ready" BY DEF MixIInv, VoiceMixTypeOK, MixRecord, SetPreference
<1>2. mix' = [mix EXCEPT !.wants = [mix.wants EXCEPT ![t] = v], !.pending = mix.pending \union {t},
                         !.errors = mix.errors \ {t}, !.timers = mix.timers \union {t}]
      /\ UNCHANGED <<mixRow, mixList, writes, lateWrites, crossed>>
  BY <1>1 DEF SetPreference, MixRecord
<1>3. mix' \in MixRecord /\ mix'.listener = mix.listener /\ mix'.status = mix.status
      /\ mix'.wants = [mix.wants EXCEPT ![t] = v] /\ mix'.pending = mix.pending \union {t}
      /\ mix'.errors = mix.errors \ {t} /\ mix'.timers = mix.timers \union {t} /\ mix.wants \in [Target -> Loudness]
  BY <1>1, <1>2 DEF MixRecord
<1>4. OnMember(t) BY <1>2, <1>3 DEF OnMember, MixIInv, VoiceMixTypeOK
<1> QED BY <1>1, <1>3, <1>4, MemberKeeps

\* Writing what is pending: the value wanted now, not yet served.
LEMMA FlushedIs ==
    ASSUME MixIInv, NEW t \in Target, NEW m \in MixRecord, Flushed(t, m)
    PROVE  /\ mix' \in MixRecord /\ mix'.listener = m.listener /\ mix'.status = m.status /\ mix'.wants = m.wants
           /\ mix'.errors = m.errors /\ mix'.pending = m.pending \ {t} /\ mix'.timers = m.timers \ {t}
           /\ writes' \in [Target -> {NoWrite} \union Write]
           /\ \A u \in Target \ {t} : writes'[u] = writes[u]
           /\ writes'[t] # NoWrite /\ writes'[t].value = mix'.wants[t] /\ ~writes'[t].served
<1>1. mix' = [m EXCEPT !.pending = m.pending \ {t}, !.timers = m.timers \ {t}] BY DEF Flushed, MixRecord
<1>2. PICK w \in Write : w = [value |-> m.wants[t], served |-> FALSE] BY DEF Write, MixRecord
<1>3. writes' = [writes EXCEPT ![t] = w] /\ writes \in [Target -> {NoWrite} \union Write] /\ w # NoWrite
  BY <1>2, VoiceMixAssumption DEF Flushed, MixIInv, VoiceMixTypeOK
<1> QED BY <1>1, <1>2, <1>3 DEF MixRecord

LEMMA TimerKeeps ==
    ASSUME MixIInv, NEW t \in Target, TimerFires(t)
    PROVE  MixIInv'
<1>1. mix \in MixRecord /\ mix.status = "ready" /\ UNCHANGED <<mixRow, mixList, lateWrites, crossed>>
  BY DEF MixIInv, VoiceMixTypeOK, MixRecord, TimerFires, TunedWhenReady
<1>2. CASE Flushed(t, mix)
 <2>1. OnMember(t) BY <1>1, <1>2, FlushedIs DEF OnMember, MixIInv, VoiceMixTypeOK
 <2>2. t \notin mix'.pending /\ Heard(t)' BY <1>1, <1>2, FlushedIs DEF Heard
 <2> QED BY <1>1, <2>1, <2>2, MemberKeeps
<1>3. CASE ~(t \in mix.pending /\ writes[t] = NoWrite) /\ mix' = [mix EXCEPT !.timers = @ \ {t}] /\ UNCHANGED writes
 <2>1. mix' \in MixRecord /\ mix'.listener = mix.listener /\ mix'.status = mix.status /\ mix'.wants = mix.wants
       /\ mix'.pending = mix.pending /\ mix'.errors = mix.errors /\ mix'.timers = mix.timers \ {t}
   BY <1>1, <1>3 DEF MixRecord
 <2>2. OnMember(t) BY <1>1, <1>3, <2>1 DEF OnMember, MixIInv, VoiceMixTypeOK
 <2>3. t \notin crossed \union mix'.pending \union mix'.errors => Heard(t)'
   BY <1>1, <1>3, <2>1 DEF MixIInv, WantsAreStored, Heard
 <2> QED BY <1>1, <1>3, <2>1, <2>2, <2>3, MemberKeeps
<1> QED BY <1>2, <1>3 DEF TimerFires

LEMMA ServeKeeps ==
    ASSUME MixIInv, NEW t \in Target, ServeWrite(t)
    PROVE  MixIInv'
<1>1. /\ mix.listener \in Listener /\ mix.status = "ready" /\ writes[t] \in Write /\ writes[t] # NoWrite
      /\ writes[t].value \in Loudness /\ mix \in MixRecord
  BY WriterListens DEF ServeWrite
<1>2. /\ mixRow \in [Listener -> [Target -> Loudness]] /\ writes \in [Target -> {NoWrite} \union Write]
      /\ mixRow' = [mixRow EXCEPT ![mix.listener][t] = writes[t].value]
      /\ UNCHANGED <<mix, mixList, lateWrites, crossed>>
  BY DEF ServeWrite, MixIInv, VoiceMixTypeOK
<1>3. PICK w \in Write : w = [writes[t] EXCEPT !.served = TRUE] /\ w.value = writes[t].value
 <2>1. [writes[t] EXCEPT !.served = TRUE] \in Write BY <1>1 DEF Write
 <2>2. [writes[t] EXCEPT !.served = TRUE].value = writes[t].value BY <1>1 DEF Write
 <2> QED BY <2>1, <2>2
<1>4. writes' = [writes EXCEPT ![t] = w] /\ w # NoWrite BY <1>2, <1>3, VoiceMixAssumption DEF ServeWrite
<1>5. mixRow' \in [Listener -> [Target -> Loudness]] /\ mixRow'[mix.listener][t] = writes[t].value
      /\ \A u \in Target \ {t} : mixRow'[mix.listener][u] = mixRow[mix.listener][u]
  BY <1>1, <1>2
<1>6. OnMember(t) BY <1>1, <1>2, <1>4, <1>5 DEF OnMember, MixIInv, VoiceMixTypeOK
<1>7. t \notin crossed \union mix'.pending \union mix'.errors => Heard(t)'
  BY <1>1, <1>2, <1>3, <1>4, <1>5 DEF MixIInv, WantsAreStored, Heard
<1>8. writes'[t] # NoWrite BY <1>2, <1>4
<1> QED BY <1>1, <1>6, <1>7, <1>8, MemberKeeps

LEMMA EndsKeep ==
    ASSUME MixIInv, NEW t \in Target, WriteAnswered(t) \/ WriteFails(t)
    PROVE  MixIInv'
<1>1. /\ mix.listener \in Listener /\ mix.status = "ready" /\ writes[t] \in Write
      /\ writes[t].value \in Loudness /\ mix \in MixRecord /\ writes[t] # NoWrite
  BY WriterListens DEF WriteAnswered, WriteFails
<1>2. PICK m \in MixRecord :
        /\ WriteEnds(t, m) /\ m.listener = mix.listener /\ m.status = mix.status /\ m.wants = mix.wants
        /\ m.pending = mix.pending /\ m.timers = mix.timers
        /\ \A u \in Target \ {t} : u \in m.errors <=> u \in mix.errors
        /\ t \notin m.pending \union m.errors => writes[t].served /\ t \notin mix.errors
 <2>1. CASE WriteAnswered(t) BY <1>1, <2>1 DEF WriteAnswered
 <2>2. CASE WriteFails(t)
  <3>1. PICK errors \in SUBSET Target : errors = IF t \in mix.pending THEN mix.errors ELSE mix.errors \union {t}
    BY <1>1 DEF MixRecord
  <3>2. [mix EXCEPT !.errors = IF t \in mix.pending THEN @ ELSE @ \union {t}] = [mix EXCEPT !.errors = errors]
    BY <1>1, <3>1 DEF MixRecord
  <3>3. PICK m \in MixRecord : m = [mix EXCEPT !.errors = errors] BY <1>1, <3>1 DEF MixRecord
  <3>4. m.listener = mix.listener /\ m.status = mix.status /\ m.wants = mix.wants
        /\ m.pending = mix.pending /\ m.timers = mix.timers /\ m.errors = errors
    BY <1>1, <3>3 DEF MixRecord
  <3>5. WriteEnds(t, m) BY <2>2, <3>2, <3>3 DEF WriteFails
  <3> QED BY <3>1, <3>4, <3>5
 <2> QED BY <2>1, <2>2
<1>3. /\ UNCHANGED <<mixRow, mixList, crossed>> /\ lateWrites' \subseteq Listener \X Target \X Loudness
      /\ mixRow \in [Listener -> [Target -> Loudness]] /\ writes \in [Target -> {NoWrite} \union Write]
  BY <1>1 DEF WriteAnswered, WriteFails, MixIInv, VoiceMixTypeOK
<1>4. CASE t \in m.pending
 <2>1. Flushed(t, m) BY <1>2, <1>4 DEF WriteEnds
 <2>2. OnMember(t) BY <1>2, <1>3, <2>1, FlushedIs DEF OnMember
 <2>3. t \notin mix'.pending /\ Heard(t)' BY <2>1, FlushedIs DEF Heard
 <2> QED BY <1>1, <2>2, <2>3, MemberKeeps
<1>5. CASE t \notin m.pending
 <2>1. mix' = m /\ writes' = [writes EXCEPT ![t] = NoWrite] BY <1>2, <1>5 DEF WriteEnds
 <2>2. OnMember(t) BY <1>2, <1>3, <2>1 DEF OnMember
 <2>3. t \notin crossed \union mix'.pending \union mix'.errors => Heard(t)'
  <3> SUFFICES ASSUME t \notin crossed \union mix'.pending \union mix'.errors PROVE Heard(t)' OBVIOUS
  <3>1. writes[t].served /\ t \notin mix.errors BY <1>2, <2>1
  <3>2. mix.wants[t] = mixRow[mix.listener][t] BY <1>1, <1>2, <1>5, <3>1 DEF MixIInv, WantsAreStored, Heard
  <3>3. writes'[t] = NoWrite /\ mixRow' = mixRow /\ mix'.listener = mix.listener /\ mix'.wants = mix.wants
    BY <1>2, <1>3, <2>1
  <3> QED BY <3>2, <3>3 DEF Heard
 <2> QED BY <1>1, <1>5, <2>1, <2>2, <2>3, MemberKeeps
<1> QED BY <1>4, <1>5

\* A member who was tuned and of whom nothing is under way is heard as loud as the row says
\* (useVoicePersonalMix.ts).
THEOREM VoiceMixSettlesAlways == VoiceMixSpec => []VoiceMixSettles
<1>1. ASSUME MixIInv, [VoiceMixNext]_mixVars
      PROVE  MixIInv'
 <2>1. CASE UNCHANGED mixVars
   BY <1>1, <2>1 DEF mixVars, MixIInv, VoiceMixTypeOK, TunedWhenReady, ListIsStored, PendingIsSent, WantsAreStored,
      Heard
 <2>2. CASE VoiceMixNext
   BY <1>1, <2>2, ListenerChangesKeeps, LateWriteKeeps, HydrationKeeps, SetKeeps, TimerKeeps, ServeKeeps, EndsKeep
   DEF VoiceMixNext
 <2> QED BY <1>1, <2>1, <2>2
<1>2. MixIInv => VoiceMixSettles
  BY DEF MixIInv, VoiceMixTypeOK, PendingIsSent, WantsAreStored, Heard, VoiceMixSettles, MixIdle
<1> QED BY <1>1, <1>2, MixBegins, PTL DEF VoiceMixSpec
=============================================================================
