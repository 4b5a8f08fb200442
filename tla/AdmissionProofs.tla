--------------------------- MODULE AdmissionProofs ---------------------------
(***************************************************************************)
(* Proofs about who is let in and how often: the counters that limit       *)
(* requests and credential changes (RequestRateLimit, CredentialRateLimit),*)
(* the uses of an invite and the default invites (Invites), and the rooms  *)
(* that the sockets of a server's members are in (ChannelRooms).           *)
(***************************************************************************)
EXTENDS RequestRateLimit, CredentialRateLimit, Invites, ChannelRooms,
        FiniteSetTheorems, TLAPS

(* RequestRateLimit                                                        *)

LimitIInv == RequestLimitTypeOK /\ BucketsExpire

\* The buckets that the commands of Redis leave behind are well typed.
LEMMA BucketType ==
    /\ NoBucket \in Bucket
    /\ \A b \in Bucket : b.hits \in 0..MaxHits /\ [b EXCEPT !.expires = TRUE] \in Bucket
    /\ \A b \in Bucket : b.hits < MaxHits =>
           /\ Hit(b) = [hits |-> b.hits + 1, expires |-> b.expires]
           /\ Hit(b) \in Bucket
           /\ [hits |-> b.hits + 1, expires |-> TRUE] \in Bucket
<1> USE RequestLimitAssumption DEF Bucket
<1>1. NoBucket \in Bucket BY DEF NoBucket
<1>2. ASSUME NEW b \in Bucket
      PROVE  /\ b.hits \in 0..MaxHits /\ b.expires \in BOOLEAN
             /\ b = [hits |-> b.hits, expires |-> b.expires]
  OBVIOUS
<1>3. ASSUME NEW b \in Bucket
      PROVE  [b EXCEPT !.expires = TRUE] \in Bucket
  BY <1>2
<1>4. ASSUME NEW b \in Bucket, b.hits < MaxHits
      PROVE  /\ Hit(b) = [hits |-> b.hits + 1, expires |-> b.expires]
             /\ b.hits + 1 \in 0..MaxHits
  BY <1>2, <1>4 DEF Hit
<1>5. QED BY <1>1, <1>2, <1>3, <1>4

\* The initial state satisfies the inductive invariant.
LEMMA LimitInitIInv == RequestLimitInit => LimitIInv
<1> SUFFICES ASSUME RequestLimitInit
             PROVE  LimitIInv
  OBVIOUS
<1>1. RequestLimitTypeOK BY RequestLimitAssumption, BucketType DEF RequestLimitInit, RequestLimitTypeOK
<1>2. BucketsExpire BY DEF RequestLimitInit, BucketsExpire, NoBucket
<1>3. QED BY <1>1, <1>2 DEF LimitIInv

\* Every step keeps the buckets and the requests well typed.
LEMMA StepLimitType == RequestLimitTypeOK /\ [RequestLimitNext]_limitVars => RequestLimitTypeOK'
<1> SUFFICES ASSUME RequestLimitTypeOK, [RequestLimitNext]_limitVars
             PROVE  RequestLimitTypeOK'
  OBVIOUS
<1> USE RequestLimitAssumption DEF RequestLimitTypeOK
<1>1. ASSUME NEW q \in LimitedCall, Increment(q)
      PROVE  RequestLimitTypeOK'
 <2>1. bucket'.hits \in 0..MaxHits /\ bucket' \in Bucket BY <1>1, BucketType DEF Increment
 <2>2. QED BY <1>1, <2>1 DEF Increment
<1>2. ASSUME NEW q \in LimitedCall, Expire(q)
      PROVE  RequestLimitTypeOK'
 <2>1. bucket' \in Bucket BY <1>2, BucketType DEF Expire
 <2>2. QED BY <1>2, <2>1 DEF Expire
<1>3. ASSUME NEW q \in LimitedCall, Decide(q)
      PROVE  RequestLimitTypeOK'
  BY <1>3 DEF Decide
<1>4. CASE AvatarLimit BY <1>4, BucketType DEF AvatarLimit
<1>5. CASE WindowEnds BY <1>5, BucketType DEF WindowEnds
<1>6. CASE ApiStops BY <1>6 DEF ApiStops
<1>7. CASE UNCHANGED limitVars BY <1>7 DEF limitVars
<1>8. QED BY <1>1, <1>2, <1>3, <1>4, <1>5, <1>6, <1>7 DEF RequestLimitNext

\* A bucket that loses its last pending EXPIRE gets the time to live from it.
LEMMA StepBucketsExpire == LimitIInv /\ [RequestLimitNext]_limitVars => BucketsExpire'
<1> SUFFICES ASSUME RequestLimitTypeOK, BucketsExpire, [RequestLimitNext]_limitVars
             PROVE  BucketsExpire'
  BY DEF LimitIInv
<1> USE RequestLimitAssumption DEF RequestLimitTypeOK, Bucket, BucketsExpire
<1>1. ASSUME NEW q \in LimitedCall, Increment(q)
      PROVE  BucketsExpire'
 <2>1. /\ bucket' = [hits |-> bucket.hits + 1, expires |-> bucket.expires]
       /\ limitedCall' = [limitedCall EXCEPT ![q] = bucket.hits + 1]
       /\ limitedCall[q] = 0 /\ stops' = stops /\ avatarBucket' = avatarBucket
   BY <1>1 DEF Increment, Hit
 <2>2. CASE bucket.hits = 0 BY <2>1, <2>2
 <2>3. CASE bucket.hits > 0 BY <2>1, <2>3
 <2>4. QED BY <2>2, <2>3
<1>2. ASSUME NEW q \in LimitedCall, Expire(q)
      PROVE  BucketsExpire'
  BY <1>2 DEF Expire, SetsExpiry
<1>3. ASSUME NEW q \in LimitedCall, Decide(q)
      PROVE  BucketsExpire'
  BY <1>3 DEF Decide
<1>4. CASE AvatarLimit BY <1>4 DEF AvatarLimit
<1>5. CASE WindowEnds BY <1>5 DEF WindowEnds, NoBucket
<1>6. CASE ApiStops BY <1>6 DEF ApiStops
<1>7. CASE UNCHANGED limitVars BY <1>7 DEF limitVars
<1>8. QED BY <1>1, <1>2, <1>3, <1>4, <1>5, <1>6, <1>7 DEF RequestLimitNext

\* No address is limited for good: however many requests run at once, and whatever
\* the limit is, a bucket without a time to live is about to get one or the API stopped.
THEOREM EveryBucketExpires == RequestLimitSpec => [](RequestLimitTypeOK /\ BucketsExpire)
<1>1. LimitIInv /\ [RequestLimitNext]_limitVars => LimitIInv' BY StepLimitType, StepBucketsExpire DEF LimitIInv
<1>2. QED BY <1>1, LimitInitIInv, PTL DEF RequestLimitSpec, LimitIInv

------------------------------------------------------------
(* CredentialRateLimit                                                     *)

Admitted == {q \in Attempt : attempt[q].pc = "admitted"}
Reserved == {q \in Attempt : attempt[q].pc = "reserved" /\ attempt[q].reservedIn = lifetime}

\* The key counts at least what was reserved in it, save what was released from it by
\* mistake; a reservation is in this key or an earlier one.
CredentialIInv ==
    /\ CredentialTypeOK
    /\ mutation <= MUTATION_LIMIT
    /\ \A q \in Attempt : attempt[q].reservedIn <= lifetime
    /\ mutation > 0 => committed + Cardinality(Reserved) <= mutation + strayReleases
    /\ reauth + Cardinality(Admitted) <= REAUTH_LIMIT - 1 + Cardinality(Attempt)

\* The sets the invariant counts are finite.
LEMMA CountedSets ==
    /\ IsFiniteSet(Attempt) /\ Cardinality(Attempt) \in Nat
    /\ \A S \in SUBSET Attempt :
           IsFiniteSet(S) /\ Cardinality(S) \in Nat /\ Cardinality(S) <= Cardinality(Attempt)
<1>1. IsFiniteSet(Attempt) BY CredentialLimitAssumption
<1>2. ASSUME NEW S \in SUBSET Attempt
      PROVE  IsFiniteSet(S) /\ Cardinality(S) \in Nat /\ Cardinality(S) <= Cardinality(Attempt)
  BY <1>1, FS_Subset, FS_CardinalityType
<1>3. QED BY <1>1, <1>2, FS_CardinalityType

\* Fewer attempts in a set count less, and one that enters or leaves counts one.
LEMMA Counting ==
    ASSUME NEW S \in SUBSET Attempt, NEW q \in Attempt
    PROVE  /\ q \in S => Cardinality(S \ {q}) = Cardinality(S) - 1
           /\ q \notin S => Cardinality(S \cup {q}) = Cardinality(S) + 1
           /\ \A R \in SUBSET S : Cardinality(R) <= Cardinality(S)
<1>1. IsFiniteSet(S) BY CountedSets
<1>2. QED BY <1>1, FS_RemoveElement, FS_AddElement, FS_Subset

\* The initial state satisfies the inductive invariant.
LEMMA CredentialInitIInv == CredentialInit => CredentialIInv
<1> SUFFICES ASSUME CredentialInit
             PROVE  CredentialIInv
  OBVIOUS
<1> USE CredentialLimitAssumption
<1>1. CredentialTypeOK /\ \A q \in Attempt : attempt[q] = NoAttempt
  BY DEF CredentialInit, CredentialTypeOK, NoAttempt
<1>2. \A q \in Attempt : attempt[q].reservedIn <= lifetime BY <1>1 DEF CredentialInit, NoAttempt
<1>3. Admitted = {} BY <1>1 DEF Admitted, NoAttempt
<1>4. Cardinality(Admitted) = 0 BY <1>3, FS_EmptySet
<1>5. QED BY <1>1, <1>2, <1>4, CountedSets DEF CredentialInit, CredentialIInv

\* Every step keeps the counters and the attempts well typed.
LEMMA StepCredentialType == CredentialTypeOK /\ [CredentialNext]_credentialVars => CredentialTypeOK'
<1> SUFFICES ASSUME CredentialTypeOK, [CredentialNext]_credentialVars
             PROVE  CredentialTypeOK'
  OBVIOUS
<1> USE DEF CredentialTypeOK
<1>1. ASSUME NEW q \in Attempt, AssertAdmission(q)
      PROVE  CredentialTypeOK'
  BY <1>1 DEF AssertAdmission
<1>2. ASSUME NEW q \in Attempt, Ended(q)
      PROVE  attempt' \in [Attempt -> [pc : {"idle", "admitted", "reserved"}, reservedIn : Nat]]
  BY <1>2 DEF Ended, NoAttempt
<1>3. ASSUME NEW q \in Attempt, RecordReauthenticationFailure(q)
      PROVE  CredentialTypeOK'
  BY <1>2, <1>3 DEF RecordReauthenticationFailure
<1>4. ASSUME NEW q \in Attempt, ReserveSuccessfulMutation(q)
      PROVE  CredentialTypeOK'
  BY <1>2, <1>4 DEF ReserveSuccessfulMutation
<1>5. ASSUME NEW q \in Attempt, CommitMutation(q)
      PROVE  CredentialTypeOK'
  BY <1>2, <1>5 DEF CommitMutation
<1>6. ASSUME NEW q \in Attempt, ReleaseMutationReservation(q)
      PROVE  CredentialTypeOK'
  BY <1>2, <1>6 DEF ReleaseMutationReservation
<1>7. ASSUME NEW q \in Attempt, LeakReservation(q)
      PROVE  CredentialTypeOK'
  BY <1>2, <1>7 DEF LeakReservation
<1>8. ASSUME ReauthExpires \/ MutationExpires \/ UNCHANGED credentialVars
      PROVE  CredentialTypeOK'
  BY <1>8 DEF ReauthExpires, MutationExpires, credentialVars
<1>9. QED BY <1>1, <1>3, <1>4, <1>5, <1>6, <1>7, <1>8 DEF CredentialNext

\* What the step of one attempt does to the attempts that are counted.
LEMMA EndedLeavesSets ==
    ASSUME CredentialTypeOK, NEW q \in Attempt, Ended(q), lifetime' = lifetime
    PROVE  Admitted' = Admitted \ {q} /\ Reserved' = Reserved \ {q}
    BY DEF Ended, NoAttempt, Admitted, Reserved, CredentialTypeOK

\* Guesses in flight never count for more than they may.
LEMMA StepReauth ==
    CredentialIInv /\ [CredentialNext]_credentialVars =>
        reauth' + Cardinality(Admitted') <= REAUTH_LIMIT - 1 + Cardinality(Attempt)
<1> SUFFICES ASSUME CredentialIInv, [CredentialNext]_credentialVars
             PROVE  reauth' + Cardinality(Admitted') <= REAUTH_LIMIT - 1 + Cardinality(Attempt)
  OBVIOUS
<1>0. /\ CredentialTypeOK /\ CredentialTypeOK' /\ reauth \in Nat /\ reauth' \in Nat
      /\ REAUTH_LIMIT \in Nat
      /\ reauth + Cardinality(Admitted) <= REAUTH_LIMIT - 1 + Cardinality(Attempt)
  BY StepCredentialType, CredentialLimitAssumption DEF CredentialIInv, CredentialTypeOK
<1>1. /\ Cardinality(Admitted) \in Nat /\ Cardinality(Admitted') \in Nat
      /\ Cardinality(Attempt) \in Nat /\ Cardinality(Admitted') <= Cardinality(Attempt)
  BY CountedSets DEF Admitted
<1>2. ASSUME NEW q \in Attempt, AssertAdmission(q)
      PROVE  reauth' + Cardinality(Admitted') <= REAUTH_LIMIT - 1 + Cardinality(Attempt)
  BY <1>0, <1>1, <1>2 DEF AssertAdmission, Admissible
<1>3. ASSUME Admitted' \subseteq Admitted, reauth' <= reauth
      PROVE  reauth' + Cardinality(Admitted') <= REAUTH_LIMIT - 1 + Cardinality(Attempt)
 <2>1. IsFiniteSet(Admitted) BY CountedSets DEF Admitted
 <2>2. Cardinality(Admitted') <= Cardinality(Admitted) BY <1>3, <2>1, FS_Subset
 <2>3. QED BY <1>0, <1>1, <1>3, <2>2
<1>4. ASSUME NEW q \in Attempt, RecordReauthenticationFailure(q)
      PROVE  reauth' + Cardinality(Admitted') <= REAUTH_LIMIT - 1 + Cardinality(Attempt)
 <2>1. Admitted' = Admitted \ {q} /\ q \in Admitted /\ Admitted \in SUBSET Attempt
   BY <1>0, <1>4, EndedLeavesSets DEF RecordReauthenticationFailure, Admitted
 <2>2. Cardinality(Admitted') = Cardinality(Admitted) - 1 BY <2>1, Counting
 <2>3. reauth' <= reauth + 1 BY <1>0, <1>4 DEF RecordReauthenticationFailure
 <2>4. QED BY <1>0, <1>1, <2>2, <2>3
<1>5. ASSUME NEW q \in Attempt, ReserveSuccessfulMutation(q)
      PROVE  Admitted' \subseteq Admitted /\ reauth' <= reauth
  BY <1>0, <1>5 DEF ReserveSuccessfulMutation, Ended, NoAttempt, Admitted, CredentialTypeOK
<1>6. ASSUME NEW q \in Attempt,
             CommitMutation(q) \/ ReleaseMutationReservation(q) \/ LeakReservation(q)
      PROVE  Admitted' \subseteq Admitted /\ reauth' <= reauth
 <2>1. Ended(q) /\ lifetime' = lifetime /\ reauth' = reauth
   BY <1>6 DEF CommitMutation, ReleaseMutationReservation, LeakReservation
 <2>2. QED BY <1>0, <2>1, EndedLeavesSets
<1>7. ASSUME ReauthExpires \/ MutationExpires \/ UNCHANGED credentialVars
      PROVE  Admitted' \subseteq Admitted /\ reauth' <= reauth
  BY <1>0, <1>7 DEF ReauthExpires, MutationExpires, credentialVars, Admitted
<1>8. QED BY <1>2, <1>3, <1>4, <1>5, <1>6, <1>7 DEF CredentialNext

\* The key never counts past the limit, and no reservation is of a key to come.
LEMMA StepKey ==
    CredentialIInv /\ [CredentialNext]_credentialVars =>
        /\ mutation' <= MUTATION_LIMIT
        /\ \A q \in Attempt : attempt'[q].reservedIn <= lifetime'
<1> SUFFICES ASSUME CredentialIInv, [CredentialNext]_credentialVars
             PROVE  /\ mutation' <= MUTATION_LIMIT
                    /\ \A q \in Attempt : attempt'[q].reservedIn <= lifetime'
  OBVIOUS
<1> USE CredentialLimitAssumption DEF CredentialIInv, CredentialTypeOK
<1>1. ASSUME NEW q \in Attempt, Ended(q), lifetime' = lifetime
      PROVE  \A p \in Attempt : attempt'[p].reservedIn <= lifetime'
  BY <1>1 DEF Ended, NoAttempt
<1>2. ASSUME NEW q \in Attempt,
             RecordReauthenticationFailure(q) \/ CommitMutation(q)
                 \/ ReleaseMutationReservation(q) \/ LeakReservation(q)
      PROVE  mutation' <= MUTATION_LIMIT /\ Ended(q) /\ lifetime' = lifetime
  BY <1>2 DEF RecordReauthenticationFailure, CommitMutation, ReleaseMutationReservation,
      LeakReservation
<1>3. ASSUME NEW q \in Attempt, ReserveSuccessfulMutation(q)
      PROVE  /\ mutation' <= MUTATION_LIMIT
             /\ \A p \in Attempt : attempt'[p].reservedIn <= lifetime'
 <2>1. CASE RoomLeft(q)
  <3>1. mutation' = mutation + 1 /\ lifetime' \in {lifetime, lifetime + 1}
    BY <1>3, <2>1 DEF ReserveSuccessfulMutation
  <3>2. attempt' = [attempt EXCEPT ![q] = [pc |-> "reserved", reservedIn |-> lifetime']]
    BY <1>3, <2>1 DEF ReserveSuccessfulMutation
  <3>3. QED BY <2>1, <3>1, <3>2 DEF RoomLeft
 <2>2. CASE ~RoomLeft(q) BY <1>1, <1>3, <2>2 DEF ReserveSuccessfulMutation
 <2>3. QED BY <2>1, <2>2
<1>4. ASSUME NEW q \in Attempt, AssertAdmission(q)
      PROVE  /\ mutation' <= MUTATION_LIMIT
             /\ \A p \in Attempt : attempt'[p].reservedIn <= lifetime'
  BY <1>4 DEF AssertAdmission
<1>5. ASSUME ReauthExpires \/ MutationExpires \/ UNCHANGED credentialVars
      PROVE  /\ mutation' <= MUTATION_LIMIT
             /\ \A p \in Attempt : attempt'[p].reservedIn <= lifetime'
  BY <1>5 DEF ReauthExpires, MutationExpires, credentialVars
<1>6. QED BY <1>1, <1>2, <1>3, <1>4, <1>5 DEF CredentialNext

\* What the key does not count was released from it by mistake.
LEMMA StepReservations ==
    CredentialIInv /\ [CredentialNext]_credentialVars =>
        (mutation' > 0 => committed' + Cardinality(Reserved') <= mutation' + strayReleases')
<1> SUFFICES ASSUME CredentialIInv, [CredentialNext]_credentialVars, mutation' > 0
             PROVE  committed' + Cardinality(Reserved') <= mutation' + strayReleases'
  OBVIOUS
<1>0. /\ CredentialTypeOK /\ mutation \in Nat /\ lifetime \in Nat /\ committed \in Nat
      /\ strayReleases \in Nat
      /\ Reserved \in SUBSET Attempt /\ Cardinality(Reserved) \in Nat
      /\ mutation > 0 => committed + Cardinality(Reserved) <= mutation + strayReleases
      /\ \A q \in Attempt : attempt[q].reservedIn \in Nat /\ attempt[q].reservedIn <= lifetime
  BY CountedSets DEF CredentialIInv, CredentialTypeOK, Reserved
<1>1. ASSUME NEW q \in Attempt, ReserveSuccessfulMutation(q), RoomLeft(q)
      PROVE  committed' + Cardinality(Reserved') <= mutation' + strayReleases'
 <2>1. attempt' = [attempt EXCEPT ![q] = [pc |-> "reserved", reservedIn |-> lifetime']]
   BY <1>1 DEF ReserveSuccessfulMutation
 <2>2. attempt[q].pc = "admitted" /\ mutation' = mutation + 1 BY <1>1 DEF ReserveSuccessfulMutation
 <2>3. CASE mutation = 0
  <3>1. lifetime' = lifetime + 1 /\ committed' = 0 /\ strayReleases' = 0
    BY <1>1, <2>3 DEF ReserveSuccessfulMutation
  <3>2. Reserved' = {q} BY <1>0, <2>1, <3>1 DEF Reserved, CredentialTypeOK
  <3>3. Cardinality(Reserved') = 1 BY <3>2, FS_Singleton
  <3>4. QED BY <2>2, <2>3, <3>1, <3>3
 <2>4. CASE mutation # 0
  <3>1. UNCHANGED <<lifetime, committed, strayReleases>> BY <1>1, <2>4 DEF ReserveSuccessfulMutation
  <3>2. Reserved' = Reserved \cup {q} /\ q \notin Reserved
    BY <1>0, <2>1, <2>2, <3>1 DEF Reserved, CredentialTypeOK
  <3>3. Cardinality(Reserved') = Cardinality(Reserved) + 1 BY <1>0, <3>2, Counting
  <3>4. QED BY <1>0, <2>2, <2>4, <3>1, <3>3
 <2>5. QED BY <2>3, <2>4
<1>2. ASSUME Reserved' \subseteq Reserved, UNCHANGED <<mutation, committed, strayReleases>>
      PROVE  committed' + Cardinality(Reserved') <= mutation' + strayReleases'
 <2>1. IsFiniteSet(Reserved) /\ Cardinality(Reserved') \in Nat BY <1>0, <1>2, CountedSets
 <2>2. Cardinality(Reserved') <= Cardinality(Reserved) BY <1>2, <2>1, FS_Subset
 <2>3. QED BY <1>0, <1>2, <2>1, <2>2
<1>3. ASSUME NEW q \in Attempt,
             \/ RecordReauthenticationFailure(q) \/ LeakReservation(q)
             \/ ReserveSuccessfulMutation(q) /\ ~RoomLeft(q)
      PROVE  Reserved' \subseteq Reserved /\ UNCHANGED <<mutation, committed, strayReleases>>
 <2>1. Ended(q) /\ UNCHANGED <<lifetime, mutation, committed, strayReleases>>
   BY <1>3 DEF RecordReauthenticationFailure, LeakReservation, ReserveSuccessfulMutation
 <2>2. QED BY <1>0, <2>1, EndedLeavesSets
<1>4. ASSUME NEW q \in Attempt, CommitMutation(q)
      PROVE  committed' + Cardinality(Reserved') <= mutation' + strayReleases'
 <2>1. Ended(q) /\ UNCHANGED <<mutation, lifetime, strayReleases>> /\ attempt[q].pc = "reserved"
   BY <1>4 DEF CommitMutation
 <2>2. Reserved' = Reserved \ {q} BY <1>0, <2>1, EndedLeavesSets
 <2>3. CASE attempt[q].reservedIn = lifetime
  <3>1. q \in Reserved /\ committed' = committed + 1 BY <1>4, <2>1, <2>3 DEF CommitMutation, Reserved
  <3>2. Cardinality(Reserved') = Cardinality(Reserved) - 1 BY <1>0, <2>2, <3>1, Counting
  <3>3. QED BY <1>0, <2>1, <3>1, <3>2
 <2>4. CASE attempt[q].reservedIn # lifetime
  <3>1. committed' = committed BY <1>4, <2>4 DEF CommitMutation
  <3>2. QED BY <1>2, <2>1, <2>2, <3>1
 <2>5. QED BY <2>3, <2>4
<1>5. ASSUME NEW q \in Attempt, ReleaseMutationReservation(q)
      PROVE  committed' + Cardinality(Reserved') <= mutation' + strayReleases'
 <2>1. /\ Ended(q) /\ UNCHANGED <<lifetime, committed>> /\ attempt[q].pc = "reserved"
       /\ mutation > 1 /\ mutation' = mutation - 1
   BY <1>0, <1>5 DEF ReleaseMutationReservation
 <2>2. Reserved' = Reserved \ {q} BY <1>0, <2>1, EndedLeavesSets
 <2>3. CASE attempt[q].reservedIn = lifetime
  <3>1. q \in Reserved /\ strayReleases' = strayReleases
    BY <1>5, <2>1, <2>3 DEF ReleaseMutationReservation, Reserved
  <3>2. Cardinality(Reserved') = Cardinality(Reserved) - 1 BY <1>0, <2>2, <3>1, Counting
  <3>3. QED BY <1>0, <2>1, <3>1, <3>2
 <2>4. CASE attempt[q].reservedIn # lifetime
  <3>1. q \notin Reserved /\ strayReleases' = strayReleases + 1
    BY <1>5, <2>4 DEF ReleaseMutationReservation, Reserved
  <3>2. Reserved' = Reserved BY <2>2, <3>1
  <3>3. QED BY <1>0, <2>1, <3>1, <3>2
 <2>5. QED BY <2>3, <2>4
<1>6. ASSUME NEW q \in Attempt, AssertAdmission(q)
      PROVE  Reserved' \subseteq Reserved /\ UNCHANGED <<mutation, committed, strayReleases>>
  BY <1>0, <1>6 DEF AssertAdmission, Reserved, CredentialTypeOK
<1>7. ASSUME ReauthExpires \/ UNCHANGED credentialVars
      PROVE  Reserved' \subseteq Reserved /\ UNCHANGED <<mutation, committed, strayReleases>>
  BY <1>7 DEF ReauthExpires, credentialVars, Reserved
<1>8. CASE MutationExpires BY <1>8 DEF MutationExpires
<1>9. QED BY <1>1, <1>2, <1>3, <1>4, <1>5, <1>6, <1>7, <1>8 DEF CredentialNext

\* Within the life of one key no more changes commit than the limit, and concurrent
\* guesses pass the re-authentication limit by less than there can be in flight.
THEOREM CredentialBudgetKept == CredentialSpec => [](CredentialTypeOK /\ CredentialBudget)
<1>1. CredentialIInv /\ [CredentialNext]_credentialVars => CredentialIInv'
 <2> SUFFICES ASSUME CredentialIInv, [CredentialNext]_credentialVars
              PROVE  CredentialIInv'
   OBVIOUS
 <2>1. CredentialTypeOK' BY StepCredentialType DEF CredentialIInv
 <2>2. QED BY <2>1, StepKey, StepReservations, StepReauth DEF CredentialIInv
<1>2. CredentialIInv => CredentialTypeOK /\ CredentialBudget
 <2> SUFFICES ASSUME CredentialIInv
              PROVE  CredentialTypeOK /\ CredentialBudget
   OBVIOUS
 <2>1. Cardinality(Reserved) \in Nat /\ Cardinality(Admitted) \in Nat BY CountedSets DEF Reserved, Admitted
 <2>2. QED
   BY <2>1, CredentialLimitAssumption
      DEF CredentialIInv, CredentialTypeOK, CredentialBudget, Reserved, Admitted
<1>3. QED BY <1>1, <1>2, CredentialInitIInv, PTL DEF CredentialSpec

------------------------------------------------------------
(* Invites                                                                 *)

Usable(i, u) == inviteRow[i].byDefault /\ IsAvailable(inviteRow[i]) /\ inviteRow[i].by = u

\* An acceptance that may commit has read an invite with a use left; the request that
\* creates a default invite, and no other, holds the lock, and its user has none.
InviteIInv ==
    /\ InviteTypeOK
    /\ \A q \in InviteReq : inviteReq[q].pc = "commit" =>
           /\ inviteReq[q].i \in Invite /\ inviteReq[q].u \in Guest
           /\ IsAvailable(inviteReq[q].row)
    /\ \A q \in InviteReq : inviteReq[q].pc \in {"lock", "create"} => inviteReq[q].u \in Guest
    /\ \A q \in InviteReq : inviteReq[q].pc = "create" <=> serverLock = q
    /\ \A q \in InviteReq, i \in Invite : inviteReq[q].pc = "create" => ~Usable(i, inviteReq[q].u)
    /\ InviteUsesCountJoins
    /\ OneDefaultInvite

\* What an update or an insert makes of a row.
NewRow(u, max, byDefault) ==
    [NoInviteRow EXCEPT !.live = TRUE, !.by = u, !.maxUses = max, !.byDefault = byDefault]
ClosedRow(row) == [row EXCEPT !.closed = TRUE]
UsedRow(row) == [row EXCEPT !.useCount = @ + 1]

\* A row that is not there.
LEMMA NoRowType ==
    /\ NoInviteRow \in InviteRow /\ ~NoInviteRow.live /\ NoInviteRow.useCount = 0
    /\ NoInviteRow.maxUses = Unlimited /\ ~NoInviteRow.byDefault
    BY DEF NoInviteRow, InviteRow

\* A row that createInvite or ensureDefault inserts.
LEMMA NewRowType ==
    ASSUME NEW u \in Guest, NEW max \in UseLimit \cup {Unlimited}, NEW byDefault \in BOOLEAN
    PROVE  LET row == NewRow(u, max, byDefault) IN
           /\ row \in InviteRow /\ row.useCount = 0 /\ row.maxUses = max /\ row.by = u
           /\ row.byDefault = byDefault
    BY DEF NewRow, NoInviteRow, InviteRow

\* A row that is revoked or expires: never usable again.
LEMMA ClosedRowType ==
    ASSUME NEW row \in InviteRow
    PROVE  LET next == ClosedRow(row) IN
           /\ next \in InviteRow /\ next.useCount = row.useCount /\ next.maxUses = row.maxUses
           /\ ~IsAvailable(next)
    BY DEF ClosedRow, InviteRow, IsAvailable

\* A row an acceptance used once more: not usable where it was not before.
LEMMA UsedRowType ==
    ASSUME NEW row \in InviteRow
    PROVE  LET next == UsedRow(row) IN
           /\ next \in InviteRow /\ next.useCount = row.useCount + 1 /\ next.maxUses = row.maxUses
           /\ next.by = row.by /\ next.byDefault = row.byDefault
           /\ IsAvailable(next) => IsAvailable(row)
<1> DEFINE next == UsedRow(row)
<1>1. /\ next \in InviteRow /\ next.useCount = row.useCount + 1
      /\ next.maxUses = row.maxUses /\ next.by = row.by /\ row.useCount \in Nat
      /\ next.byDefault = row.byDefault /\ next.live = row.live /\ next.closed = row.closed
      /\ row.maxUses \in Nat
  BY InviteAssumption DEF UsedRow, InviteRow, Unlimited
<1>2. UsesLeft(next) => UsesLeft(row) BY <1>1 DEF UsesLeft, Unlimited
<1>3. QED BY <1>1, <1>2 DEF IsAvailable

\* What an attempt to accept an invite has read, if it goes on.
LEMMA SnapshotType ==
    ASSUME InviteTypeOK, NEW r \in InviteRequest, r.i \in Invite, r.u \in Guest
    PROVE  /\ Snapshot(r) \in InviteRequest
           /\ Snapshot(r).pc \in {"idle", "commit"}
           /\ Snapshot(r).pc = "commit" =>
                  /\ Snapshot(r).i \in Invite /\ Snapshot(r).u \in Guest
                  /\ IsAvailable(Snapshot(r).row)
<1>1. NoInviteRequest \in InviteRequest /\ NoInviteRequest.pc = "idle"
  BY NoRowType, InviteAssumption DEF NoInviteRequest, InviteRequest
<1>2. CASE memberRow[r.u] = "none" /\ IsAvailable(inviteRow[r.i])
 <2>1. Snapshot(r) = [r EXCEPT !.pc = "commit", !.row = inviteRow[r.i]] BY <1>2 DEF Snapshot
 <2>2. inviteRow[r.i] \in InviteRow BY DEF InviteTypeOK
 <2>3. /\ Snapshot(r) \in InviteRequest /\ Snapshot(r).pc = "commit"
       /\ Snapshot(r).i = r.i /\ Snapshot(r).u = r.u /\ Snapshot(r).row = inviteRow[r.i]
   BY <2>1, <2>2 DEF InviteRequest
 <2>4. QED BY <1>2, <2>3
<1>3. CASE ~(memberRow[r.u] = "none" /\ IsAvailable(inviteRow[r.i])) BY <1>1, <1>3 DEF Snapshot
<1>4. QED BY <1>2, <1>3

\* A request that has ended.
LEMMA NoRequestType == NoInviteRequest \in InviteRequest /\ NoInviteRequest.pc = "idle"
    BY NoRowType, InviteAssumption DEF NoInviteRequest, InviteRequest

\* The initial state satisfies the inductive invariant.
LEMMA InviteInitIInv == InviteInit => InviteIInv
<1> SUFFICES ASSUME InviteInit
             PROVE  InviteIInv
  OBVIOUS
<1>1. InviteTypeOK
  BY NoRowType, NoRequestType, InviteAssumption
     DEF InviteInit, InviteTypeOK, OnlyOwner, Membership
<1>2. /\ \A q \in InviteReq : inviteReq[q].pc = "idle"
      /\ \A i \in Invite : inviteRow[i] = NoInviteRow /\ joined[i] = 0
  BY NoRequestType DEF InviteInit
<1>3. InviteUsesCountJoins /\ OneDefaultInvite BY <1>2, NoRowType DEF InviteUsesCountJoins, OneDefaultInvite
<1>4. \A q \in InviteReq : serverLock # q BY InviteAssumption DEF InviteInit
<1>5. QED BY <1>1, <1>2, <1>3, <1>4 DEF InviteIInv

------------------------------------------------------------
(* What a step does to the rows and to the requests.                       *)

MakesPlain ==
    \E i \in Invite, u \in Guest, max \in UseLimit :
        /\ inviteRow' = [inviteRow EXCEPT ![i] = NewRow(u, max, FALSE)]
        /\ joined' = [joined EXCEPT ![i] = 0]
        /\ LockFree

MakesDefault(q) ==
    /\ \E i \in Invite :
           /\ inviteRow' = [inviteRow EXCEPT ![i] = NewRow(inviteReq[q].u, Unlimited, TRUE)]
           /\ joined' = [joined EXCEPT ![i] = 0]
    /\ inviteReq[q].pc = "create" /\ inviteReq[q].u \in Guest
    /\ inviteReq' = [inviteReq EXCEPT ![q] = NoInviteRequest]

Closes(i) ==
    /\ inviteRow' = [inviteRow EXCEPT ![i] = ClosedRow(inviteRow[i])]
    /\ UNCHANGED joined

Uses(i) ==
    /\ inviteRow' = [inviteRow EXCEPT ![i] = UsedRow(inviteRow[i])]
    /\ joined' = [joined EXCEPT ![i] = @ + 1]
    /\ IsAvailable(inviteRow[i]) /\ LockFree

ClearsInvites ==
    /\ inviteRow' = [i \in Invite |-> NoInviteRow]
    /\ joined' = [i \in Invite |-> 0]
    /\ LockFree

SameInvites == UNCHANGED <<inviteRow, joined>>

\* Every step leaves the invites alone or changes them in one of five ways.
LEMMA RowEffects ==
    ASSUME InviteIInv, [InviteNext]_inviteVars
    PROVE  \/ SameInvites \/ MakesPlain \/ ClearsInvites
           \/ \E q \in InviteReq : MakesDefault(q)
           \/ \E i \in Invite : Closes(i) \/ Uses(i)
<1>1. ASSUME NEW u \in Guest, NEW i \in Invite, NEW max \in UseLimit, CreateInvite(u, i, max)
      PROVE  MakesPlain
  BY <1>1 DEF CreateInvite, NewInvite, NewRow, MakesPlain
<1>2. ASSUME NEW i \in Invite, RevokeInvite(i) \/ InviteExpires(i)
      PROVE  Closes(i)
  BY <1>2 DEF RevokeInvite, InviteExpires, ClosedRow, Closes
<1>3. ASSUME NEW q \in InviteReq, EnsureCreate(q)
      PROVE  SameInvites \/ MakesDefault(q)
  BY <1>3 DEF EnsureCreate, NewInvite, NewRow, InviteIInv, SameInvites, MakesDefault
<1>4. ASSUME NEW q \in InviteReq, AcceptCommits(q)
      PROVE  \E i \in Invite : Uses(i)
  BY <1>4 DEF AcceptCommits, UsedRow, LostRace, InviteIInv, Uses
<1>5. ASSUME DeleteServer
      PROVE  ClearsInvites
  BY <1>5 DEF DeleteServer, ClearsInvites
<1>6. ASSUME \/ \E q \in InviteReq :
                    \/ \E u \in Guest :
                           EnsureDefault(q, u) \/ \E i \in Invite : Accept(q, u, i)
                    \/ EnsureLock(q) \/ AcceptAborts(q)
             \/ \E u \in Guest :
                    LeaveServer(u) \/ RemoveMember(u) \/ BanMember(u) \/ UnbanMember(u)
             \/ CreateServer
             \/ UNCHANGED inviteVars
      PROVE  SameInvites
  BY <1>6 DEF EnsureDefault, Accept, EnsureLock, AcceptAborts, LeaveServer, RemoveMember,
      BanMember, UnbanMember, SetMember, CreateServer, inviteVars, SameInvites
<1>7. QED BY <1>1, <1>2, <1>3, <1>4, <1>5, <1>6 DEF InviteNext

\* Every step leaves a request alone, ends it, or takes it one step on.
LEMMA RequestEffects ==
    ASSUME InviteIInv, [InviteNext]_inviteVars, NEW q \in InviteReq
    PROVE  \/ inviteReq'[q] = inviteReq[q]
           \/ inviteReq'[q] = NoInviteRequest
           \/ /\ inviteReq'[q].pc = "commit"
              /\ inviteReq'[q].i \in Invite /\ inviteReq'[q].u \in Guest
              /\ IsAvailable(inviteReq'[q].row)
           \/ /\ inviteReq'[q].pc = "lock" /\ inviteReq'[q].u \in Guest
           \/ /\ inviteReq'[q].pc = "create" /\ inviteReq'[q].u = inviteReq[q].u
              /\ inviteReq[q].pc = "lock" /\ LockFree /\ serverLock' = q
              /\ \A i \in Invite : ~Usable(i, inviteReq[q].u)
              /\ UNCHANGED inviteRow
<1>0. InviteTypeOK /\ inviteReq \in [InviteReq -> InviteRequest] BY DEF InviteIInv, InviteTypeOK
<1>1. ASSUME NEW p \in InviteReq, NEW u \in Guest, EnsureDefault(p, u)
      PROVE  \/ inviteReq'[q] = inviteReq[q]
             \/ inviteReq'[q].pc = "lock" /\ inviteReq'[q].u \in Guest
  BY <1>0, <1>1 DEF EnsureDefault, InviteRequest
<1>2. ASSUME NEW p \in InviteReq, EnsureLock(p)
      PROVE  \/ inviteReq'[q] \in {inviteReq[q], NoInviteRequest}
             \/ /\ inviteReq'[q].pc = "create" /\ inviteReq'[q].u = inviteReq[q].u
                /\ inviteReq[q].pc = "lock" /\ LockFree /\ serverLock' = q
                /\ \A i \in Invite : ~Usable(i, inviteReq[q].u)
                /\ UNCHANGED inviteRow
 <2>1. CASE q # p BY <1>0, <1>2, <2>1 DEF EnsureLock
 <2>2. CASE q = p /\ inviteReq'[q] # NoInviteRequest
  <3>1. /\ inviteReq' = [inviteReq EXCEPT ![q].pc = "create"] /\ serverLock' = q
        /\ inviteReq[q].pc = "lock" /\ LockFree /\ UNCHANGED inviteRow
        /\ \A i \in Invite : ~(IsAvailable(inviteRow[i]) /\ inviteRow[i].by = inviteReq[q].u)
    BY <1>0, <1>2, <2>2 DEF EnsureLock
  <3>2. inviteReq'[q].pc = "create" /\ inviteReq'[q].u = inviteReq[q].u BY <1>0, <3>1 DEF InviteRequest
  <3>3. QED BY <3>1, <3>2 DEF Usable
 <2>3. QED BY <2>1, <2>2
<1>3. ASSUME NEW p \in InviteReq, EnsureCreate(p) \/ AcceptCommits(p)
      PROVE  inviteReq'[q] \in {inviteReq[q], NoInviteRequest}
  BY <1>0, <1>3 DEF EnsureCreate, AcceptCommits
<1>4. ASSUME NEW r \in InviteRequest, r.i \in Invite, r.u \in Guest
      PROVE  \/ Snapshot(r) = NoInviteRequest
             \/ /\ Snapshot(r).pc = "commit"
                /\ Snapshot(r).i \in Invite /\ Snapshot(r).u \in Guest
                /\ IsAvailable(Snapshot(r).row)
 <2>1. CASE Snapshot(r) # NoInviteRequest
  <3>1. Snapshot(r).pc = "commit" BY <2>1, <1>4 DEF Snapshot, InviteRequest
  <3>2. QED BY <1>0, <1>4, <3>1, SnapshotType
 <2>2. QED BY <2>1
<1>5. ASSUME NEW p \in InviteReq, NEW u \in Guest, NEW i \in Invite, Accept(p, u, i)
      PROVE  \/ inviteReq'[q] \in {inviteReq[q], NoInviteRequest}
             \/ /\ inviteReq'[q].pc = "commit"
                /\ inviteReq'[q].i \in Invite /\ inviteReq'[q].u \in Guest
                /\ IsAvailable(inviteReq'[q].row)
 <2> DEFINE r == [inviteReq[p] EXCEPT !.u = u, !.i = i, !.attempt = 1]
 <2>1. inviteReq[p] \in InviteRequest /\ 1 \in 0..MaxAttempts BY <1>0, InviteAssumption
 <2>2. r \in InviteRequest /\ r.i = i /\ r.u = u BY <2>1 DEF InviteRequest
 <2>3. inviteReq' = [inviteReq EXCEPT ![p] = Snapshot(r)] BY <1>5 DEF Accept
 <2>4. QED BY <1>0, <1>4, <2>2, <2>3
<1>6. ASSUME NEW p \in InviteReq, AcceptAborts(p)
      PROVE  \/ inviteReq'[q] \in {inviteReq[q], NoInviteRequest}
             \/ /\ inviteReq'[q].pc = "commit"
                /\ inviteReq'[q].i \in Invite /\ inviteReq'[q].u \in Guest
                /\ IsAvailable(inviteReq'[q].row)
 <2> DEFINE r == [inviteReq[p] EXCEPT !.attempt = @ + 1]
 <2>1. inviteReq[p] \in InviteRequest /\ inviteReq[p].i \in Invite /\ inviteReq[p].u \in Guest
   BY <1>0, <1>6 DEF AcceptAborts, InviteIInv
 <2>2. CASE inviteReq[p].attempt < MaxAttempts
  <3>1. r \in InviteRequest /\ r.i = inviteReq[p].i /\ r.u = inviteReq[p].u
    BY <2>1, <2>2, InviteAssumption DEF InviteRequest
  <3>2. inviteReq' = [inviteReq EXCEPT ![p] = Snapshot(r)] BY <1>6, <2>2 DEF AcceptAborts
  <3>3. QED BY <1>0, <1>4, <2>1, <3>1, <3>2
 <2>3. CASE ~(inviteReq[p].attempt < MaxAttempts) BY <1>0, <1>6, <2>3 DEF AcceptAborts
 <2>4. QED BY <2>2, <2>3
<1>7. ASSUME \/ \E u \in Guest, i \in Invite, max \in UseLimit : CreateInvite(u, i, max)
             \/ \E i \in Invite : RevokeInvite(i) \/ InviteExpires(i)
             \/ \E u \in Guest :
                    LeaveServer(u) \/ RemoveMember(u) \/ BanMember(u) \/ UnbanMember(u)
             \/ DeleteServer \/ CreateServer \/ UNCHANGED inviteVars
      PROVE  inviteReq' = inviteReq
  BY <1>7 DEF CreateInvite, RevokeInvite, InviteExpires, LeaveServer, RemoveMember, BanMember,
      UnbanMember, SetMember, DeleteServer, CreateServer, inviteVars
<1>8. QED BY <1>1, <1>2, <1>3, <1>5, <1>6, <1>7 DEF InviteNext

------------------------------------------------------------
(* The conjuncts of the invariant, one lemma each.                         *)

\* Every step keeps the tables and the requests well typed.
LEMMA StepInviteType == InviteIInv /\ [InviteNext]_inviteVars => InviteTypeOK'
<1> SUFFICES ASSUME InviteIInv, [InviteNext]_inviteVars
             PROVE  InviteTypeOK'
  OBVIOUS
<1>0. InviteTypeOK BY DEF InviteIInv
<1> USE <1>0, InviteAssumption DEF InviteTypeOK
<1>1. ASSUME NEW u \in Guest, NEW i \in Invite, NEW max \in UseLimit, CreateInvite(u, i, max)
      PROVE  InviteTypeOK'
 <2>1. /\ inviteRow' = [inviteRow EXCEPT ![i] = NewRow(u, max, FALSE)]
       /\ joined' = [joined EXCEPT ![i] = 0]
   BY <1>1 DEF CreateInvite, NewInvite, NewRow
 <2>2. NewRow(u, max, FALSE) \in InviteRow BY NewRowType
 <2>3. QED BY <1>1, <2>1, <2>2 DEF CreateInvite
<1>2. ASSUME NEW i \in Invite, RevokeInvite(i) \/ InviteExpires(i)
      PROVE  InviteTypeOK'
 <2>1. inviteRow' = [inviteRow EXCEPT ![i] = ClosedRow(inviteRow[i])]
   BY <1>2 DEF RevokeInvite, InviteExpires, ClosedRow
 <2>2. ClosedRow(inviteRow[i]) \in InviteRow BY ClosedRowType
 <2>3. QED BY <1>2, <2>1, <2>2 DEF RevokeInvite, InviteExpires
<1>3. ASSUME NEW q \in InviteReq, NEW u \in Guest, EnsureDefault(q, u)
      PROVE  InviteTypeOK'
 <2>1. [inviteReq[q] EXCEPT !.pc = "lock", !.u = u] \in InviteRequest BY DEF InviteRequest
 <2>2. QED BY <1>3, <2>1 DEF EnsureDefault
<1>4. ASSUME NEW q \in InviteReq, EnsureLock(q)
      PROVE  InviteTypeOK'
 <2>1. [inviteReq[q] EXCEPT !.pc = "create"] \in InviteRequest BY DEF InviteRequest
 <2>2. inviteReq' \in [InviteReq -> InviteRequest] /\ serverLock' \in InviteReq \cup {NoRequest}
   BY <1>4, <2>1, NoRequestType DEF EnsureLock
 <2>3. QED BY <1>4, <2>2 DEF EnsureLock
<1>5. ASSUME NEW q \in InviteReq, EnsureCreate(q)
      PROVE  InviteTypeOK'
 <2>1. inviteReq[q].u \in Guest BY <1>5 DEF EnsureCreate, InviteIInv
 <2>2. ASSUME NEW i \in Invite, NewInvite(i, inviteReq[q].u, Unlimited, TRUE)
       PROVE  inviteRow' \in [Invite -> InviteRow] /\ joined' \in [Invite -> Nat]
  <3>1. NewRow(inviteReq[q].u, Unlimited, TRUE) \in InviteRow BY <2>1, NewRowType
  <3>2. inviteRow' = [inviteRow EXCEPT ![i] = NewRow(inviteReq[q].u, Unlimited, TRUE)]
    BY <2>2 DEF NewInvite, NewRow
  <3>3. QED BY <2>2, <3>1, <3>2 DEF NewInvite
 <2>3. inviteRow' \in [Invite -> InviteRow] /\ joined' \in [Invite -> Nat] BY <1>5, <2>2 DEF EnsureCreate
 <2>4. QED BY <1>5, <2>3, NoRequestType DEF EnsureCreate
<1>6. ASSUME NEW q \in InviteReq, NEW u \in Guest, NEW i \in Invite, Accept(q, u, i)
      PROVE  InviteTypeOK'
 <2> DEFINE r == [inviteReq[q] EXCEPT !.u = u, !.i = i, !.attempt = 1]
 <2>0. inviteReq[q] \in InviteRequest /\ 1 \in 0..MaxAttempts OBVIOUS
 <2>1. r \in InviteRequest /\ r.i = i /\ r.u = u BY <2>0 DEF InviteRequest
 <2>2. Snapshot(r) \in InviteRequest BY <2>1, SnapshotType
 <2>3. QED BY <1>6, <2>2 DEF Accept
<1>7. ASSUME NEW q \in InviteReq, AcceptCommits(q)
      PROVE  InviteTypeOK'
 <2> DEFINE i == inviteReq[q].i
            u == inviteReq[q].u
 <2>1. i \in Invite /\ u \in Guest BY <1>7 DEF AcceptCommits, InviteIInv
 <2>2. inviteRow' = [inviteRow EXCEPT ![i] = UsedRow(inviteRow[i])] BY <1>7 DEF AcceptCommits, UsedRow
 <2>3. UsedRow(inviteRow[i]) \in InviteRow BY <2>1, UsedRowType
 <2>4. memberRow' \in [Guest -> Membership] BY <1>7 DEF AcceptCommits, Membership
 <2>5. joined' \in [Invite -> Nat] BY <1>7, <2>1 DEF AcceptCommits
 <2>6. QED BY <1>7, <2>2, <2>3, <2>4, <2>5, NoRequestType DEF AcceptCommits
<1>8. ASSUME NEW q \in InviteReq, AcceptAborts(q)
      PROVE  InviteTypeOK'
 <2> DEFINE r == [inviteReq[q] EXCEPT !.attempt = @ + 1]
 <2>1. inviteReq[q].i \in Invite /\ inviteReq[q].u \in Guest BY <1>8 DEF AcceptAborts, InviteIInv
 <2>2. CASE inviteReq[q].attempt < MaxAttempts
  <3>1. r \in InviteRequest /\ r.i = inviteReq[q].i /\ r.u = inviteReq[q].u BY <2>2 DEF InviteRequest
  <3>2. Snapshot(r) \in InviteRequest BY <2>1, <3>1, SnapshotType
  <3>3. QED BY <1>8, <2>2, <3>2 DEF AcceptAborts
 <2>3. CASE ~(inviteReq[q].attempt < MaxAttempts) BY <1>8, <2>3, NoRequestType DEF AcceptAborts
 <2>4. QED BY <2>2, <2>3
<1>9. ASSUME NEW u \in Guest, LeaveServer(u) \/ RemoveMember(u) \/ BanMember(u) \/ UnbanMember(u)
      PROVE  InviteTypeOK'
  BY <1>9 DEF LeaveServer, RemoveMember, BanMember, UnbanMember, SetMember, Membership
<1>10. CASE DeleteServer BY <1>10, NoRowType DEF DeleteServer, Membership
<1>11. CASE CreateServer BY <1>11 DEF CreateServer, OnlyOwner, Membership
<1>12. CASE UNCHANGED inviteVars BY <1>12 DEF inviteVars
<1>13. QED BY <1>1, <1>2, <1>3, <1>4, <1>5, <1>6, <1>7, <1>8, <1>9, <1>10, <1>11, <1>12 DEF InviteNext

\* What the requests in flight have read and who waits for the lock.
LEMMA StepRequests ==
    InviteIInv /\ [InviteNext]_inviteVars =>
        \A q \in InviteReq :
            /\ inviteReq'[q].pc = "commit" =>
                   /\ inviteReq'[q].i \in Invite /\ inviteReq'[q].u \in Guest
                   /\ IsAvailable(inviteReq'[q].row)
            /\ inviteReq'[q].pc \in {"lock", "create"} => inviteReq'[q].u \in Guest
<1> SUFFICES ASSUME InviteIInv, [InviteNext]_inviteVars, NEW q \in InviteReq
             PROVE  /\ inviteReq'[q].pc = "commit" =>
                           /\ inviteReq'[q].i \in Invite /\ inviteReq'[q].u \in Guest
                           /\ IsAvailable(inviteReq'[q].row)
                    /\ inviteReq'[q].pc \in {"lock", "create"} => inviteReq'[q].u \in Guest
  OBVIOUS
<1>1. /\ inviteReq[q].pc = "commit" =>
             /\ inviteReq[q].i \in Invite /\ inviteReq[q].u \in Guest
             /\ IsAvailable(inviteReq[q].row)
      /\ inviteReq[q].pc \in {"lock", "create"} => inviteReq[q].u \in Guest
  BY DEF InviteIInv
<1>2. QED BY <1>1, RequestEffects, NoRequestType

\* Only the request that creates a default invite holds the lock.
LEMMA StepLock ==
    InviteIInv /\ [InviteNext]_inviteVars =>
        \A q \in InviteReq : inviteReq'[q].pc = "create" <=> serverLock' = q
<1> SUFFICES ASSUME InviteIInv, [InviteNext]_inviteVars, NEW q \in InviteReq
             PROVE  inviteReq'[q].pc = "create" <=> serverLock' = q
  OBVIOUS
<1>0. /\ inviteReq \in [InviteReq -> InviteRequest] /\ q # NoRequest
      /\ \A p \in InviteReq : inviteReq[p].pc = "create" <=> serverLock = p
  BY InviteAssumption DEF InviteIInv, InviteTypeOK
<1>1. ASSUME NEW p \in InviteReq, EnsureLock(p)
      PROVE  inviteReq'[q].pc = "create" <=> serverLock' = q
 <2>1. inviteReq[p].pc = "lock" /\ serverLock = NoRequest BY <1>1 DEF EnsureLock, LockFree
 <2>2. \/ inviteReq' = [inviteReq EXCEPT ![p] = NoInviteRequest] /\ serverLock' = serverLock
       \/ inviteReq' = [inviteReq EXCEPT ![p].pc = "create"] /\ serverLock' = p
   BY <1>1 DEF EnsureLock
 <2>3. QED BY <1>0, <2>1, <2>2, NoRequestType DEF InviteRequest
<1>2. ASSUME NEW p \in InviteReq, EnsureCreate(p)
      PROVE  inviteReq'[q].pc = "create" <=> serverLock' = q
 <2>1. serverLock = p /\ serverLock' = NoRequest BY <1>0, <1>2 DEF EnsureCreate
 <2>2. inviteReq' = [inviteReq EXCEPT ![p] = NoInviteRequest] BY <1>2 DEF EnsureCreate
 <2>3. QED BY <1>0, <2>1, <2>2, NoRequestType
<1>3. ASSUME serverLock' = serverLock,
             \/ inviteReq' = inviteReq
             \/ \E p \in InviteReq, r \in InviteRequest :
                    /\ inviteReq[p].pc # "create" /\ r.pc # "create"
                    /\ inviteReq' = [inviteReq EXCEPT ![p] = r]
      PROVE  inviteReq'[q].pc = "create" <=> serverLock' = q
  BY <1>0, <1>3
<1>4. ASSUME NEW p \in InviteReq, NEW u \in Guest, EnsureDefault(p, u)
      PROVE  inviteReq'[q].pc = "create" <=> serverLock' = q
 <2> DEFINE r == [inviteReq[p] EXCEPT !.pc = "lock", !.u = u]
 <2>1. r \in InviteRequest /\ r.pc = "lock" BY <1>0 DEF InviteRequest
 <2>2. /\ inviteReq' = [inviteReq EXCEPT ![p] = r] /\ inviteReq[p].pc = "idle"
       /\ serverLock' = serverLock
   BY <1>4 DEF EnsureDefault
 <2>3. QED BY <1>3, <2>1, <2>2
<1>5. ASSUME NEW p \in InviteReq,
             (\E u \in Guest, i \in Invite : Accept(p, u, i)) \/ AcceptCommits(p) \/ AcceptAborts(p)
      PROVE  inviteReq'[q].pc = "create" <=> serverLock' = q
 <2>1. /\ serverLock' = serverLock /\ inviteReq[p].pc # "create"
       /\ q # p => inviteReq'[q] = inviteReq[q]
   BY <1>0, <1>5 DEF Accept, AcceptCommits, AcceptAborts
 <2>2. inviteReq[q].pc # "lock" /\ q = p => inviteReq'[q].pc # "create"
   BY <1>0, <2>1, RequestEffects, NoRequestType
 <2>3. q = p => inviteReq[q].pc # "lock" BY <1>5 DEF Accept, AcceptCommits, AcceptAborts
 <2>4. QED BY <1>0, <2>1, <2>2, <2>3
<1>6. ASSUME \/ \E u \in Guest, i \in Invite, max \in UseLimit : CreateInvite(u, i, max)
             \/ \E i \in Invite : RevokeInvite(i) \/ InviteExpires(i)
             \/ \E u \in Guest :
                    LeaveServer(u) \/ RemoveMember(u) \/ BanMember(u) \/ UnbanMember(u)
             \/ DeleteServer \/ CreateServer \/ UNCHANGED inviteVars
      PROVE  inviteReq' = inviteReq /\ serverLock' = serverLock
  BY <1>6 DEF CreateInvite, RevokeInvite, InviteExpires, LeaveServer, RemoveMember, BanMember,
      UnbanMember, SetMember, DeleteServer, CreateServer, inviteVars
<1>7. QED BY <1>1, <1>2, <1>3, <1>4, <1>5, <1>6 DEF InviteNext

\* While a request creates a default invite its user gets none from anybody else.
LEMMA StepLack ==
    InviteIInv /\ [InviteNext]_inviteVars =>
        \A q \in InviteReq, i \in Invite : inviteReq'[q].pc = "create" => ~Usable(i, inviteReq[q].u)'
<1> SUFFICES ASSUME InviteIInv, [InviteNext]_inviteVars, NEW q \in InviteReq, NEW i \in Invite,
                    inviteReq'[q].pc = "create", Usable(i, inviteReq[q].u)'
             PROVE  FALSE
  OBVIOUS
<1>0. /\ inviteRow \in [Invite -> InviteRow] /\ inviteReq \in [InviteReq -> InviteRequest]
      /\ \A p \in InviteReq : inviteReq[p].pc = "create" <=> serverLock = p
      /\ q # NoRequest
  BY InviteAssumption DEF InviteIInv, InviteTypeOK
<1>1. CASE inviteReq[q].pc # "create"
 <2>1. /\ inviteReq'[q].u = inviteReq[q].u /\ UNCHANGED inviteRow
       /\ \A j \in Invite : ~Usable(j, inviteReq[q].u)
   BY <1>1, RequestEffects, NoRequestType
 <2>2. QED BY <2>1 DEF Usable
<1>2. CASE inviteReq[q].pc = "create"
 <2>1. inviteReq'[q] = inviteReq[q] /\ inviteReq'[q] # NoInviteRequest BY <1>2, RequestEffects, NoRequestType
 <2>2. ~Usable(i, inviteReq[q].u) /\ ~LockFree /\ serverLock = q BY <1>0, <1>2 DEF InviteIInv, LockFree
 <2>3. \/ inviteRow'[i] = inviteRow[i]
       \/ inviteRow'[i] = ClosedRow(inviteRow[i])
       \/ \E p \in InviteReq : MakesDefault(p)
   BY <1>0, <2>2, RowEffects DEF SameInvites, MakesPlain, ClearsInvites, Closes, Uses
 <2>4. CASE inviteRow'[i] = inviteRow[i] BY <2>1, <2>2, <2>4 DEF Usable
 <2>5. CASE inviteRow'[i] = ClosedRow(inviteRow[i]) BY <1>0, <2>5, ClosedRowType DEF Usable
 <2>6. ASSUME NEW p \in InviteReq, MakesDefault(p)
       PROVE  FALSE
  <3>1. /\ inviteReq[p].pc = "create"
        /\ inviteReq' = [inviteReq EXCEPT ![p] = NoInviteRequest]
    BY <2>6 DEF MakesDefault
  <3>2. p = q BY <1>0, <2>2, <3>1
  <3>3. QED BY <1>0, <2>1, <3>1, <3>2
 <2>7. QED BY <2>3, <2>4, <2>5, <2>6
<1>3. QED BY <1>1, <1>2

\* An invite counts the memberships it made, and an acceptance that commits had a use left.
LEMMA StepUses == InviteIInv /\ [InviteNext]_inviteVars => InviteUsesCountJoins'
<1> SUFFICES ASSUME InviteIInv, [InviteNext]_inviteVars, NEW i \in Invite
             PROVE  /\ inviteRow'[i].useCount = joined'[i]
                    /\ inviteRow'[i].maxUses # Unlimited => joined'[i] <= inviteRow'[i].maxUses
  BY DEF InviteUsesCountJoins
<1>0. /\ inviteRow \in [Invite -> InviteRow] /\ joined \in [Invite -> Nat]
      /\ inviteRow[i].useCount = joined[i]
      /\ inviteRow[i].maxUses # Unlimited => joined[i] <= inviteRow[i].maxUses
  BY DEF InviteIInv, InviteTypeOK, InviteUsesCountJoins
<1>1. inviteRow[i].maxUses \in Nat
 <2>1. \A row \in InviteRow : row.maxUses \in UseLimit \cup {0} BY DEF InviteRow, Unlimited
 <2>2. UseLimit \cup {0} \subseteq Nat BY InviteAssumption
 <2>3. inviteRow[i] \in InviteRow BY <1>0
 <2>4. QED BY <2>1, <2>2, <2>3
<1>2. ASSUME NEW u \in Guest, NEW max \in UseLimit \cup {Unlimited}, NEW byDefault \in BOOLEAN,
             inviteRow'[i] = NewRow(u, max, byDefault), joined'[i] = 0
      PROVE  /\ inviteRow'[i].useCount = joined'[i]
             /\ inviteRow'[i].maxUses # Unlimited => joined'[i] <= inviteRow'[i].maxUses
 <2>1. max \in Nat BY InviteAssumption DEF Unlimited
 <2>2. inviteRow'[i].useCount = 0 /\ inviteRow'[i].maxUses = max BY <1>2, NewRowType
 <2>3. QED BY <1>2, <2>1, <2>2
<1>3. ASSUME NEW j \in Invite, Uses(j)
      PROVE  /\ inviteRow'[i].useCount = joined'[i]
             /\ inviteRow'[i].maxUses # Unlimited => joined'[i] <= inviteRow'[i].maxUses
 <2>1. /\ inviteRow' = [inviteRow EXCEPT ![j] = UsedRow(inviteRow[j])]
       /\ joined' = [joined EXCEPT ![j] = @ + 1]
       /\ IsAvailable(inviteRow[j])
   BY <1>3 DEF Uses
 <2>2. CASE j = i
  <3>1. /\ inviteRow'[i].useCount = inviteRow[i].useCount + 1
        /\ inviteRow'[i].maxUses = inviteRow[i].maxUses
    BY <1>0, <2>1, <2>2, UsedRowType
  <3>2. joined'[i] = joined[i] + 1 BY <1>0, <2>1, <2>2
  <3>3. inviteRow[i].maxUses = Unlimited \/ joined[i] < inviteRow[i].maxUses
    BY <1>0, <2>1, <2>2 DEF IsAvailable, UsesLeft
  <3>4. QED BY <1>0, <1>1, <3>1, <3>2, <3>3
 <2>3. CASE j # i BY <1>0, <2>1, <2>3
 <2>4. QED BY <2>2, <2>3
<1>4. ASSUME NEW j \in Invite, Closes(j)
      PROVE  /\ inviteRow'[i].useCount = joined'[i]
             /\ inviteRow'[i].maxUses # Unlimited => joined'[i] <= inviteRow'[i].maxUses
  BY <1>0, <1>4, ClosedRowType DEF Closes
<1>5. CASE MakesPlain BY <1>0, <1>2, <1>5 DEF MakesPlain
<1>6. ASSUME NEW q \in InviteReq, MakesDefault(q)
      PROVE  /\ inviteRow'[i].useCount = joined'[i]
             /\ inviteRow'[i].maxUses # Unlimited => joined'[i] <= inviteRow'[i].maxUses
  BY <1>0, <1>2, <1>6 DEF MakesDefault
<1>7. CASE ClearsInvites BY <1>7, NoRowType DEF ClearsInvites
<1>8. CASE SameInvites BY <1>0, <1>8 DEF SameInvites
<1>9. QED BY <1>3, <1>4, <1>5, <1>6, <1>7, <1>8, RowEffects

\* ensureDefault adds an invite only where its user has none.
LEMMA StepOneDefault == InviteIInv /\ [InviteNext]_inviteVars => OneDefaultInvite'
<1> SUFFICES ASSUME InviteIInv, [InviteNext]_inviteVars, NEW i \in Invite, NEW j \in Invite,
                    NEW u, Usable(i, u)', Usable(j, u)'
             PROVE  i = j
  BY DEF OneDefaultInvite, Usable
<1>0. inviteRow \in [Invite -> InviteRow] BY DEF InviteIInv, InviteTypeOK
<1>1. Usable(i, u) /\ Usable(j, u) => i = j BY DEF InviteIInv, OneDefaultInvite, Usable
<1>2. ASSUME NEW k \in Invite, Usable(k, u)',
             \/ inviteRow'[k] = inviteRow[k]
             \/ inviteRow'[k] = ClosedRow(inviteRow[k])
             \/ inviteRow'[k] = UsedRow(inviteRow[k])
             \/ inviteRow'[k] = NoInviteRow
             \/ \E v \in Guest, max \in UseLimit : inviteRow'[k] = NewRow(v, max, FALSE)
      PROVE  Usable(k, u)
 <2>1. inviteRow[k] \in InviteRow BY <1>0
 <2>2. inviteRow'[k] # ClosedRow(inviteRow[k]) BY <1>2, <2>1, ClosedRowType DEF Usable
 <2>3. inviteRow'[k] # NoInviteRow BY <1>2, NoRowType DEF Usable
 <2>4. ASSUME NEW v \in Guest, NEW max \in UseLimit
       PROVE  inviteRow'[k] # NewRow(v, max, FALSE)
   BY <1>2, NewRowType, ZenonT(60) DEF Usable
 <2>5. CASE inviteRow'[k] = UsedRow(inviteRow[k]) BY <1>2, <2>1, <2>5, UsedRowType DEF Usable
 <2>6. CASE inviteRow'[k] = inviteRow[k] BY <1>2, <2>6 DEF Usable
 <2>7. QED BY <1>2, <2>2, <2>3, <2>4, <2>5, <2>6
<1>3. ASSUME NEW q \in InviteReq, MakesDefault(q)
      PROVE  i = j
 <2>1. PICK k \in Invite :
           inviteRow' = [inviteRow EXCEPT ![k] = NewRow(inviteReq[q].u, Unlimited, TRUE)]
   BY <1>3 DEF MakesDefault
 <2>2. inviteReq[q].u \in Guest /\ \A m \in Invite : ~Usable(m, inviteReq[q].u)
   BY <1>3 DEF InviteIInv, MakesDefault
 <2>3. ASSUME NEW m \in Invite, m # k, Usable(m, u)'
       PROVE  Usable(m, u)
   BY <1>0, <1>2, <2>1, <2>3
 <2>4. Usable(k, u)' => u = inviteReq[q].u
  <3>1. NewRow(inviteReq[q].u, Unlimited, TRUE).by = inviteReq[q].u BY <2>2, NewRowType
  <3>2. inviteRow'[k] = NewRow(inviteReq[q].u, Unlimited, TRUE) BY <1>0, <2>1
  <3>3. QED BY <3>1, <3>2 DEF Usable
 <2>5. CASE i = k BY <2>2, <2>3, <2>4, <2>5
 <2>6. CASE j = k BY <2>2, <2>3, <2>4, <2>6
 <2>7. CASE i # k /\ j # k BY <1>1, <2>3, <2>7
 <2>8. QED BY <2>5, <2>6, <2>7
<1>4. ASSUME \A k \in Invite :
               \/ inviteRow'[k] = inviteRow[k]
               \/ inviteRow'[k] = ClosedRow(inviteRow[k])
               \/ inviteRow'[k] = UsedRow(inviteRow[k])
               \/ inviteRow'[k] = NoInviteRow
               \/ \E v \in Guest, max \in UseLimit : inviteRow'[k] = NewRow(v, max, FALSE)
      PROVE  i = j
  BY <1>1, <1>2, <1>4
<1>5. ASSUME SameInvites \/ MakesPlain \/ ClearsInvites \/ \E k \in Invite : Closes(k) \/ Uses(k)
      PROVE  i = j
  BY <1>0, <1>4, <1>5 DEF SameInvites, MakesPlain, ClearsInvites, Closes, Uses
<1>6. QED BY <1>3, <1>5, RowEffects

\* Every step preserves the inductive invariant.
LEMMA StepInviteIInv == InviteIInv /\ [InviteNext]_inviteVars => InviteIInv'
<1> SUFFICES ASSUME InviteIInv, [InviteNext]_inviteVars
             PROVE  InviteIInv'
  OBVIOUS
<1>1. InviteTypeOK' /\ InviteUsesCountJoins' /\ OneDefaultInvite' BY StepInviteType, StepUses, StepOneDefault
<1>2. QED BY <1>1, StepRequests, StepLock, StepLack DEF InviteIInv

\* Whatever acceptances race, an invite's useCount is the number of memberships it made
\* and stays within its maxUses.
THEOREM InviteUsesCounted == InviteSpec => [](InviteTypeOK /\ InviteUsesCountJoins)
<1>1. InviteIInv => InviteTypeOK /\ InviteUsesCountJoins BY DEF InviteIInv
<1>2. QED BY <1>1, InviteInitIInv, StepInviteIInv, PTL DEF InviteSpec

\* However many calls of ensureDefault run at once, a member has one usable default invite.
THEOREM DefaultInviteUnique == InviteSpec => []OneDefaultInvite
<1>1. InviteIInv => OneDefaultInvite BY DEF InviteIInv
<1>2. QED BY <1>1, InviteInitIInv, StepInviteIInv, PTL DEF InviteSpec

------------------------------------------------------------
(* ChannelRooms                                                            *)

WalkRecord ==
    [kind : {"none", "reconcile", "evict"}, user : RoomUser \cup {NoWalkUser},
     seen : SUBSET RoomSocket, at : RoomSocket \cup {NoWalkSocket}]

\* A walk that has yet to come to the socket, or is about to take it out.
EvictPending(s) ==
    \E w \in Walk : walk[w].kind = "evict" /\ walk[w].user = UserOfSocket[s] /\ s \notin walk[w].seen
ReconcilePending(s) ==
    \E w \in Walk : walk[w].kind = "reconcile" /\ (s \notin walk[w].seen \/ walk[w].at = s)

\* A socket in a room is connected, and has its access still or a walk coming to it; a
\* member's socket whose memberships were read is in the room of the server.
RoomsIInv ==
    /\ ChannelRoomsTypeOK
    /\ \A s \in inServer \cup inChannel \cup subscribing : Connected(s)
    /\ \A s \in inServer \ lateServer : MemberOf(s) \/ EvictPending(s)
    /\ \A s \in inChannel \ lateChannel : MayViewChannel(s) \/ EvictPending(s) \/ ReconcilePending(s)
    /\ \A s \in RoomSocket :
           link[s] \in {"stranger", "ready"} /\ MemberOf(s) /\ UserOfSocket[s] \notin joinsUser \cup rejoined
               => s \in inServer
    /\ \A u \in RoomUser : isMember[u] /\ Evicting(u) => u \in rejoined

\* The initial state satisfies the inductive invariant.
LEMMA RoomsInitIInv == ChannelRoomsInit => RoomsIInv
<1> SUFFICES ASSUME ChannelRoomsInit
             PROVE  RoomsIInv
  OBVIOUS
<1>1. ChannelRoomsTypeOK BY ChannelRoomsAssumption DEF ChannelRoomsInit, ChannelRoomsTypeOK, LinkStage, NoWalk
<1>2. \A w \in Walk : walk[w].kind = "none" BY DEF ChannelRoomsInit, NoWalk
<1>3. QED BY <1>1, <1>2 DEF ChannelRoomsInit, RoomsIInv, Evicting

\* The record of a walk that starts.
NewWalk(kind, u) == [NoWalk EXCEPT !.kind = kind, !.user = u]

\* A walk that starts has seen no socket.
LEMMA NewWalkType ==
    ASSUME NEW kind \in {"reconcile", "evict"}, NEW u \in RoomUser \cup {NoWalkUser}
    PROVE  /\ NewWalk(kind, u) \in WalkRecord
           /\ NewWalk(kind, u).kind = kind /\ NewWalk(kind, u).user = u /\ NewWalk(kind, u).seen = {}
    BY DEF NewWalk, NoWalk, WalkRecord

\* A walk that is not under way.
LEMMA NoWalkType == NoWalk \in WalkRecord /\ NoWalk.kind = "none"
    BY DEF NoWalk, WalkRecord

\* Every step keeps the rooms, the links and the walks well typed.
LEMMA StepRoomsType == ChannelRoomsTypeOK /\ [ChannelRoomsNext]_roomVars => ChannelRoomsTypeOK'
<1> SUFFICES ASSUME ChannelRoomsTypeOK, [ChannelRoomsNext]_roomVars
             PROVE  ChannelRoomsTypeOK'
  OBVIOUS
<1>0. walk \in [Walk -> WalkRecord] /\ UserOfSocket \in [RoomSocket -> RoomUser] /\ MaxChanges \in Nat
  BY ChannelRoomsAssumption DEF ChannelRoomsTypeOK, WalkRecord
<1>1. ASSUME NEW s \in RoomSocket,
             \/ Identify(s) \/ ReadMemberships(s) \/ JoinServerRooms(s) \/ Hangup(s)
             \/ SubscribeChecks(s) \/ SubscribeJoins(s) \/ Unsubscribe(s)
      PROVE  ChannelRoomsTypeOK'
 <2>1. CASE Identify(s) \/ ReadMemberships(s)
   BY <2>1 DEF Identify, ReadMemberships, roomSets, ChannelRoomsTypeOK, LinkStage
 <2>2. CASE JoinServerRooms(s) \/ Hangup(s) BY <2>2 DEF JoinServerRooms, Hangup, ChannelRoomsTypeOK, LinkStage
 <2>3. CASE SubscribeChecks(s) \/ SubscribeJoins(s) \/ Unsubscribe(s)
   BY <2>3 DEF SubscribeChecks, SubscribeJoins, Unsubscribe, ChannelRoomsTypeOK
 <2>4. QED BY <1>1, <2>1, <2>2, <2>3
<1>2. ASSUME NEW u \in RoomUser \cup {NoWalkUser}, NEW kind \in {"reconcile", "evict"}, Starts(kind, u)
      PROVE  walk' \in [Walk -> WalkRecord]
 <2>1. PICK w \in Walk : walk' = [walk EXCEPT ![w] = NewWalk(kind, u)] BY <1>2 DEF Starts, NewWalk
 <2>2. QED BY <1>0, <2>1, NewWalkType
<1>3. ASSUME Counted
      PROVE  changes' \in 0..MaxChanges
  BY <1>0, <1>3 DEF Counted, ChannelRoomsTypeOK
<1>4. ASSUME NEW u \in RoomUser, LoseMembership(u)
      PROVE  ChannelRoomsTypeOK'
 <2>1. walk' \in [Walk -> WalkRecord] /\ changes' \in 0..MaxChanges BY <1>2, <1>3, <1>4 DEF LoseMembership
 <2>2. QED BY <1>4, <2>1 DEF LoseMembership, roomSets, ChannelRoomsTypeOK, WalkRecord
<1>5. ASSUME NEW u \in RoomUser, AcceptInvite(u)
      PROVE  ChannelRoomsTypeOK'
  BY <1>3, <1>5 DEF AcceptInvite, roomSets, ChannelRoomsTypeOK
<1>6. ASSUME NEW u \in RoomUser, JoinUserToServer(u)
      PROVE  ChannelRoomsTypeOK'
  BY <1>6 DEF JoinUserToServer, ChannelRoomsTypeOK
<1>7. ASSUME NEW u \in RoomUser, ChangePermissions(u)
      PROVE  ChannelRoomsTypeOK'
 <2>1. walk' \in [Walk -> WalkRecord] /\ changes' \in 0..MaxChanges BY <1>2, <1>3, <1>7 DEF ChangePermissions
 <2>2. mayView' \in [RoomUser -> BOOLEAN] BY <1>7, Zenon DEF ChangePermissions, ChannelRoomsTypeOK
 <2>3. QED BY <1>7, <2>1, <2>2 DEF ChangePermissions, roomSets, ChannelRoomsTypeOK, WalkRecord
<1>8. ASSUME NEW w \in Walk, NEW s \in RoomSocket, EvictVisits(w, s)
      PROVE  ChannelRoomsTypeOK'
 <2>1. walk' \in [Walk -> WalkRecord] BY <1>0, <1>8 DEF EvictVisits, WalkRecord
 <2>2. /\ inServer' \subseteq RoomSocket /\ inChannel' \subseteq RoomSocket
       /\ lateServer' \subseteq RoomSocket /\ lateChannel' \subseteq RoomSocket
   BY <1>8 DEF EvictVisits, LeavesChannelToo, ChannelRoomsTypeOK
 <2>3. QED BY <1>8, <2>1, <2>2 DEF EvictVisits, ChannelRoomsTypeOK, WalkRecord
<1>9. ASSUME NEW w \in Walk, NEW s \in RoomSocket, ReconcileVisits(w, s)
      PROVE  ChannelRoomsTypeOK'
 <2>1. walk' \in [Walk -> WalkRecord]
  <3>1. walk' = [walk EXCEPT ![w] = [walk[w] EXCEPT
            !.seen = @ \cup {s},
            !.at = IF s \in inChannel /\ ~MayViewChannel(s) THEN s ELSE NoWalkSocket]]
    BY <1>0, <1>9 DEF ReconcileVisits, WalkRecord
  <3>2. QED BY <1>0, <3>1, ZenonT(60) DEF WalkRecord
 <2>2. QED BY <1>9, <2>1 DEF ReconcileVisits, roomSets, ChannelRoomsTypeOK, WalkRecord
<1>10. ASSUME NEW w \in Walk, ReconcileLeaves(w) \/ WalkEnds(w)
       PROVE  ChannelRoomsTypeOK'
 <2>1. walk' \in [Walk -> WalkRecord]
  <3>1. CASE ReconcileLeaves(w) BY <1>0, <3>1 DEF ReconcileLeaves, WalkRecord
  <3>2. CASE WalkEnds(w) BY <1>0, <3>2, NoWalkType DEF WalkEnds
  <3>3. QED BY <1>10, <3>1, <3>2
 <2>2. QED BY <1>10, <2>1 DEF ReconcileLeaves, WalkEnds, roomSets, ChannelRoomsTypeOK, WalkRecord
<1>11. CASE UNCHANGED roomVars BY <1>11 DEF roomVars, ChannelRoomsTypeOK
<1>12. QED BY <1>1, <1>4, <1>5, <1>6, <1>7, <1>8, <1>9, <1>10, <1>11 DEF ChannelRoomsNext

------------------------------------------------------------
(* What the steps do to the walks that are coming.                         *)

\* A walk that starts comes to every socket; those under way stay.
LEMMA StartKeepsWalks ==
    ASSUME ChannelRoomsTypeOK, NEW kind \in {"reconcile", "evict"}, NEW u \in RoomUser \cup {NoWalkUser},
           Starts(kind, u)
    PROVE  /\ \A s \in RoomSocket :
                  /\ EvictPending(s) => EvictPending(s)'
                  /\ ReconcilePending(s) => ReconcilePending(s)'
                  /\ kind = "evict" /\ UserOfSocket[s] = u => EvictPending(s)'
                  /\ kind = "reconcile" => ReconcilePending(s)'
           /\ \A v \in RoomUser : Evicting(v)' => Evicting(v) \/ (kind = "evict" /\ v = u)
<1>1. walk \in [Walk -> WalkRecord] BY DEF ChannelRoomsTypeOK, WalkRecord
<1>2. PICK w \in Walk : walk[w].kind = "none" /\ walk' = [walk EXCEPT ![w] = NewWalk(kind, u)]
  BY DEF Starts, NewWalk
<1>3. /\ \A x \in Walk : x # w => walk'[x] = walk[x]
      /\ walk'[w].kind = kind /\ walk'[w].user = u /\ walk'[w].seen = {}
  BY <1>1, <1>2, NewWalkType
<1>4. ASSUME NEW s \in RoomSocket
      PROVE  /\ EvictPending(s) => EvictPending(s)'
             /\ ReconcilePending(s) => ReconcilePending(s)'
             /\ kind = "evict" /\ UserOfSocket[s] = u => EvictPending(s)'
             /\ kind = "reconcile" => ReconcilePending(s)'
  BY <1>2, <1>3 DEF EvictPending, ReconcilePending
<1>5. ASSUME NEW v \in RoomUser, Evicting(v)'
      PROVE  Evicting(v) \/ (kind = "evict" /\ v = u)
  BY <1>3, <1>5 DEF Evicting
<1>6. QED BY <1>4, <1>5

\* A walk loses the sockets it visits and takes out, and ends when none is left.
LEMMA WalkKeepsWalks ==
    ASSUME ChannelRoomsTypeOK, NEW w \in Walk,
           \/ \E s \in RoomSocket : EvictVisits(w, s) \/ ReconcileVisits(w, s)
           \/ ReconcileLeaves(w) \/ WalkEnds(w)
    PROVE  /\ \A s \in RoomSocket : Connected(s) =>
                  /\ EvictPending(s) =>
                         EvictPending(s)' \/ (EvictVisits(w, s) /\ UserOfSocket[s] = walk[w].user)
                  /\ ReconcilePending(s) =>
                         \/ ReconcilePending(s)' \/ ReconcileVisits(w, s)
                         \/ ReconcileLeaves(w) /\ walk[w].at = s
           /\ \A v \in RoomUser : Evicting(v)' => Evicting(v)
<1>0. walk \in [Walk -> WalkRecord] /\ NoWalkSocket \notin RoomSocket
  BY ChannelRoomsAssumption DEF ChannelRoomsTypeOK, WalkRecord
<1>1. \A x \in Walk : x # w => walk'[x] = walk[x]
  BY <1>0 DEF EvictVisits, ReconcileVisits, ReconcileLeaves, WalkEnds
<1>2. ASSUME NEW t \in RoomSocket, EvictVisits(w, t)
      PROVE  /\ walk[w].kind = "evict" /\ walk'[w].kind = "evict" /\ walk'[w].user = walk[w].user
             /\ walk'[w].seen = walk[w].seen \cup {t}
  BY <1>0, <1>2 DEF EvictVisits, WalkRecord
<1>3. ASSUME NEW t \in RoomSocket, ReconcileVisits(w, t)
      PROVE  /\ walk[w].kind = "reconcile" /\ walk'[w].kind = "reconcile"
             /\ walk'[w].seen = walk[w].seen \cup {t} /\ walk[w].at = NoWalkSocket
  BY <1>0, <1>3 DEF ReconcileVisits, WalkRecord
<1>4. ASSUME ReconcileLeaves(w)
      PROVE  /\ walk'[w].kind = walk[w].kind /\ walk'[w].user = walk[w].user
             /\ walk'[w].seen = walk[w].seen
  BY <1>0, <1>4 DEF ReconcileLeaves, WalkRecord
<1>5. ASSUME WalkEnds(w)
      PROVE  /\ walk'[w].kind = "none" /\ walk[w].at = NoWalkSocket
             /\ \A s \in RoomSocket : Connected(s) => s \in walk[w].seen
  BY <1>0, <1>5, NoWalkType DEF WalkEnds, Unvisited
<1>6. ASSUME NEW s \in RoomSocket, Connected(s), EvictPending(s)
      PROVE  EvictPending(s)' \/ (EvictVisits(w, s) /\ UserOfSocket[s] = walk[w].user)
 <2>1. PICK x \in Walk :
           walk[x].kind = "evict" /\ walk[x].user = UserOfSocket[s] /\ s \notin walk[x].seen
   BY <1>6 DEF EvictPending
 <2>2. CASE x # w BY <1>1, <2>1, <2>2 DEF EvictPending
 <2>3. CASE x = w BY <1>2, <1>3, <1>4, <1>5, <1>6, <2>1, <2>3 DEF EvictPending
 <2>4. QED BY <2>2, <2>3
<1>7. ASSUME NEW s \in RoomSocket, Connected(s), ReconcilePending(s)
      PROVE  \/ ReconcilePending(s)' \/ ReconcileVisits(w, s)
             \/ ReconcileLeaves(w) /\ walk[w].at = s
 <2>1. PICK x \in Walk : walk[x].kind = "reconcile" /\ (s \notin walk[x].seen \/ walk[x].at = s)
   BY <1>7 DEF ReconcilePending
 <2>2. CASE x # w BY <1>1, <2>1, <2>2 DEF ReconcilePending
 <2>3. CASE x = w BY <1>0, <1>2, <1>3, <1>4, <1>5, <1>7, <2>1, <2>3 DEF ReconcilePending
 <2>4. QED BY <2>2, <2>3
<1>8. ASSUME NEW v \in RoomUser, Evicting(v)'
      PROVE  Evicting(v)
 <2>1. PICK x \in Walk : walk'[x].kind = "evict" /\ walk'[x].user = v BY <1>8 DEF Evicting
 <2>2. CASE x # w BY <1>1, <2>1, <2>2 DEF Evicting
 <2>3. CASE x = w BY <1>2, <1>3, <1>4, <1>5, <2>1, <2>3 DEF Evicting
 <2>4. QED BY <2>2, <2>3
<1>9. QED BY <1>6, <1>7, <1>8

------------------------------------------------------------
(* The conjuncts of the invariant.                                         *)

\* A socket that hangs up leaves every room.
LEMMA StepConnected ==
    RoomsIInv /\ [ChannelRoomsNext]_roomVars =>
        \A s \in inServer' \cup inChannel' \cup subscribing' : Connected(s)'
<1> SUFFICES ASSUME RoomsIInv, [ChannelRoomsNext]_roomVars,
                    NEW s \in inServer' \cup inChannel' \cup subscribing'
             PROVE  Connected(s)'
  OBVIOUS
<1>0. /\ \A t \in inServer \cup inChannel \cup subscribing : t \in RoomSocket /\ Connected(t)
      /\ link \in [RoomSocket -> LinkStage]
  BY DEF RoomsIInv, ChannelRoomsTypeOK
<1> USE <1>0 DEF Connected
<1>1. ASSUME NEW t \in RoomSocket,
             \/ Identify(t) \/ ReadMemberships(t) \/ JoinServerRooms(t) \/ Hangup(t)
             \/ SubscribeChecks(t) \/ SubscribeJoins(t) \/ Unsubscribe(t)
      PROVE  Connected(s)'
  BY <1>1 DEF Identify, ReadMemberships, JoinServerRooms, Hangup, SubscribeChecks, SubscribeJoins,
      Unsubscribe, roomSets
<1>2. ASSUME NEW u \in RoomUser,
             LoseMembership(u) \/ AcceptInvite(u) \/ JoinUserToServer(u) \/ ChangePermissions(u)
      PROVE  Connected(s)'
  BY <1>2 DEF LoseMembership, AcceptInvite, JoinUserToServer, ChangePermissions, roomSets
<1>3. ASSUME NEW w \in Walk,
             \/ \E t \in RoomSocket : EvictVisits(w, t) \/ ReconcileVisits(w, t)
             \/ ReconcileLeaves(w) \/ WalkEnds(w)
      PROVE  Connected(s)'
  BY <1>3 DEF EvictVisits, ReconcileVisits, ReconcileLeaves, WalkEnds, LeavesChannelToo, roomSets
<1>4. CASE UNCHANGED roomVars BY <1>4 DEF roomVars
<1>5. QED BY <1>1, <1>2, <1>3, <1>4 DEF ChannelRoomsNext

\* A socket in the server's room has its membership, or is yet to be taken out.
LEMMA StepServer ==
    RoomsIInv /\ [ChannelRoomsNext]_roomVars =>
        \A s \in inServer' \ lateServer' : MemberOf(s)' \/ EvictPending(s)'
<1> SUFFICES ASSUME RoomsIInv, [ChannelRoomsNext]_roomVars, NEW s \in inServer' \ lateServer'
             PROVE  MemberOf(s)' \/ EvictPending(s)'
  OBVIOUS
<1>0. /\ ChannelRoomsTypeOK /\ ChannelRoomsTypeOK' /\ s \in RoomSocket
      /\ UserOfSocket[s] \in RoomUser /\ isMember \in [RoomUser -> BOOLEAN]
      /\ s \in inServer \ lateServer => Connected(s) /\ (MemberOf(s) \/ EvictPending(s))
  BY StepRoomsType, ChannelRoomsAssumption DEF RoomsIInv, ChannelRoomsTypeOK
<1>1. ASSUME NEW t \in RoomSocket,
             \/ Identify(t) \/ ReadMemberships(t) \/ JoinServerRooms(t) \/ Hangup(t)
             \/ SubscribeChecks(t) \/ SubscribeJoins(t) \/ Unsubscribe(t)
      PROVE  MemberOf(s)' \/ EvictPending(s)'
 <2>1. walk' = walk /\ isMember' = isMember
   BY <1>1 DEF Identify, ReadMemberships, JoinServerRooms, Hangup, SubscribeChecks,
       SubscribeJoins, Unsubscribe
 <2>2. s \in inServer \ lateServer \/ MemberOf(s)
   BY <1>0, <1>1 DEF Identify, ReadMemberships, JoinServerRooms, Hangup, SubscribeChecks,
       SubscribeJoins, Unsubscribe, roomSets
 <2>3. QED BY <1>0, <2>1, <2>2 DEF MemberOf, EvictPending
<1>2. ASSUME NEW u \in RoomUser, LoseMembership(u)
      PROVE  MemberOf(s)' \/ EvictPending(s)'
 <2>1. /\ Starts("evict", u) /\ isMember' = [isMember EXCEPT ![u] = FALSE]
       /\ s \in inServer \ lateServer
   BY <1>2 DEF LoseMembership, roomSets
 <2>2. /\ EvictPending(s) => EvictPending(s)'
       /\ UserOfSocket[s] = u => EvictPending(s)'
   BY <1>0, <2>1, StartKeepsWalks
 <2>3. QED BY <1>0, <2>1, <2>2 DEF MemberOf
<1>3. ASSUME NEW u \in RoomUser, AcceptInvite(u)
      PROVE  MemberOf(s)' \/ EvictPending(s)'
 <2>1. isMember' = [isMember EXCEPT ![u] = TRUE] /\ s \in inServer \ lateServer /\ walk' = walk
   BY <1>3 DEF AcceptInvite, roomSets
 <2>2. QED BY <1>0, <2>1 DEF MemberOf, EvictPending
<1>4. ASSUME NEW u \in RoomUser, JoinUserToServer(u)
      PROVE  MemberOf(s)' \/ EvictPending(s)'
 <2>1. isMember' = isMember /\ walk' = walk /\ (s \in inServer \ lateServer \/ MemberOf(s))
   BY <1>4 DEF JoinUserToServer, MemberOf
 <2>2. QED BY <1>0, <2>1 DEF MemberOf, EvictPending
<1>5. ASSUME NEW u \in RoomUser, ChangePermissions(u)
      PROVE  MemberOf(s)' \/ EvictPending(s)'
 <2>1. /\ Starts("reconcile", NoWalkUser) /\ isMember' = isMember /\ s \in inServer \ lateServer
   BY <1>5 DEF ChangePermissions, roomSets
 <2>2. EvictPending(s) => EvictPending(s)' BY <1>0, <2>1, StartKeepsWalks
 <2>3. QED BY <1>0, <2>1, <2>2 DEF MemberOf
<1>6. ASSUME NEW w \in Walk,
             \/ \E t \in RoomSocket : EvictVisits(w, t) \/ ReconcileVisits(w, t)
             \/ ReconcileLeaves(w) \/ WalkEnds(w)
      PROVE  MemberOf(s)' \/ EvictPending(s)'
 <2>1. isMember' = isMember /\ inServer' \subseteq inServer
   BY <1>6 DEF EvictVisits, ReconcileVisits, ReconcileLeaves, WalkEnds, roomSets
 <2>2. s \notin lateServer BY <1>6, <2>1 DEF EvictVisits, ReconcileVisits, ReconcileLeaves, WalkEnds, roomSets
 <2>3. EvictVisits(w, s) => UserOfSocket[s] # walk[w].user BY DEF EvictVisits
 <2>4. EvictPending(s) => EvictPending(s)' BY <1>0, <1>6, <2>1, <2>2, <2>3, WalkKeepsWalks
 <2>5. QED BY <1>0, <2>1, <2>2, <2>4 DEF MemberOf
<1>7. CASE UNCHANGED roomVars BY <1>0, <1>7 DEF roomVars, MemberOf, EvictPending
<1>8. QED BY <1>1, <1>2, <1>3, <1>4, <1>5, <1>6, <1>7 DEF ChannelRoomsNext

\* A socket in the channel's room may view it, or is yet to be taken out.
LEMMA StepChannel ==
    RoomsIInv /\ [ChannelRoomsNext]_roomVars =>
        \A s \in inChannel' \ lateChannel' :
            MayViewChannel(s)' \/ EvictPending(s)' \/ ReconcilePending(s)'
<1> SUFFICES ASSUME RoomsIInv, [ChannelRoomsNext]_roomVars, NEW s \in inChannel' \ lateChannel'
             PROVE  MayViewChannel(s)' \/ EvictPending(s)' \/ ReconcilePending(s)'
  OBVIOUS
<1>0. /\ ChannelRoomsTypeOK /\ ChannelRoomsTypeOK' /\ s \in RoomSocket
      /\ UserOfSocket[s] \in RoomUser /\ isMember \in [RoomUser -> BOOLEAN]
      /\ s \in inChannel \ lateChannel =>
             Connected(s) /\ (MayViewChannel(s) \/ EvictPending(s) \/ ReconcilePending(s))
  BY StepRoomsType, ChannelRoomsAssumption DEF RoomsIInv, ChannelRoomsTypeOK
<1>1. ASSUME NEW t \in RoomSocket,
             \/ Identify(t) \/ ReadMemberships(t) \/ JoinServerRooms(t) \/ Hangup(t)
             \/ SubscribeChecks(t) \/ SubscribeJoins(t) \/ Unsubscribe(t)
      PROVE  MayViewChannel(s)' \/ EvictPending(s)' \/ ReconcilePending(s)'
 <2>1. walk' = walk /\ isMember' = isMember /\ mayView' = mayView
   BY <1>1 DEF Identify, ReadMemberships, JoinServerRooms, Hangup, SubscribeChecks,
       SubscribeJoins, Unsubscribe
 <2>2. s \in inChannel \ lateChannel \/ MayViewChannel(s)
   BY <1>0, <1>1 DEF Identify, ReadMemberships, JoinServerRooms, Hangup, SubscribeChecks,
       SubscribeJoins, Unsubscribe, roomSets
 <2>3. QED BY <1>0, <2>1, <2>2 DEF MemberOf, MayViewChannel, EvictPending, ReconcilePending
<1>2. ASSUME NEW u \in RoomUser, LoseMembership(u)
      PROVE  MayViewChannel(s)' \/ EvictPending(s)' \/ ReconcilePending(s)'
 <2>1. /\ Starts("evict", u) /\ isMember' = [isMember EXCEPT ![u] = FALSE] /\ mayView' = mayView
       /\ s \in inChannel \ lateChannel
   BY <1>2 DEF LoseMembership, roomSets
 <2>2. /\ EvictPending(s) => EvictPending(s)'
       /\ ReconcilePending(s) => ReconcilePending(s)'
       /\ UserOfSocket[s] = u => EvictPending(s)'
   BY <1>0, <2>1, StartKeepsWalks
 <2>3. QED BY <1>0, <2>1, <2>2 DEF MayViewChannel, MemberOf
<1>3. ASSUME NEW u \in RoomUser, AcceptInvite(u)
      PROVE  MayViewChannel(s)' \/ EvictPending(s)' \/ ReconcilePending(s)'
 <2>1. /\ isMember' = [isMember EXCEPT ![u] = TRUE] /\ mayView' = mayView
       /\ s \in inChannel \ lateChannel /\ walk' = walk
   BY <1>3 DEF AcceptInvite, roomSets
 <2>2. QED BY <1>0, <2>1 DEF MemberOf, MayViewChannel, EvictPending, ReconcilePending
<1>4. ASSUME NEW u \in RoomUser, JoinUserToServer(u)
      PROVE  MayViewChannel(s)' \/ EvictPending(s)' \/ ReconcilePending(s)'
 <2>1. /\ isMember' = isMember /\ mayView' = mayView /\ walk' = walk
       /\ s \in inChannel \ lateChannel
   BY <1>4 DEF JoinUserToServer
 <2>2. QED BY <1>0, <2>1 DEF MemberOf, MayViewChannel, EvictPending, ReconcilePending
<1>5. ASSUME NEW u \in RoomUser, ChangePermissions(u)
      PROVE  MayViewChannel(s)' \/ EvictPending(s)' \/ ReconcilePending(s)'
  BY <1>0, <1>5, StartKeepsWalks DEF ChangePermissions
<1>6. ASSUME NEW w \in Walk,
             \/ \E t \in RoomSocket : EvictVisits(w, t) \/ ReconcileVisits(w, t)
             \/ ReconcileLeaves(w) \/ WalkEnds(w)
      PROVE  MayViewChannel(s)' \/ EvictPending(s)' \/ ReconcilePending(s)'
 <2>1. isMember' = isMember /\ mayView' = mayView /\ s \in inChannel
   BY <1>6 DEF EvictVisits, LeavesChannelToo, ReconcileVisits, ReconcileLeaves, WalkEnds, roomSets
 <2>2. s \notin lateChannel
   BY <1>6, <2>1 DEF EvictVisits, LeavesChannelToo, ReconcileVisits, ReconcileLeaves, WalkEnds, roomSets
 <2>3. EvictVisits(w, s) => UserOfSocket[s] # walk[w].user BY DEF EvictVisits, LeavesChannelToo
 <2>4. ReconcileLeaves(w) => walk[w].at # s BY DEF ReconcileLeaves
 <2>5. ReconcileVisits(w, s) => MayViewChannel(s) \/ ReconcilePending(s)'
  <3>1. CASE ReconcileVisits(w, s) /\ ~MayViewChannel(s)
   <4>1. walk[w] \in WalkRecord /\ walk \in [Walk -> WalkRecord] BY <1>0 DEF ChannelRoomsTypeOK, WalkRecord
   <4>2. walk'[w].kind = "reconcile" /\ walk'[w].at = s BY <2>1, <3>1, <4>1 DEF ReconcileVisits, WalkRecord
   <4>3. QED BY <4>2 DEF ReconcilePending
  <3>2. QED BY <3>1
 <2>6. EvictPending(s) => EvictPending(s)' BY <1>0, <1>6, <2>1, <2>2, <2>3, WalkKeepsWalks
 <2>7. ReconcilePending(s) => ReconcilePending(s)' \/ MayViewChannel(s)
   BY <1>0, <1>6, <2>1, <2>2, <2>4, <2>5, WalkKeepsWalks
 <2>8. QED BY <1>0, <2>1, <2>2, <2>6, <2>7 DEF MayViewChannel, MemberOf
<1>7. CASE UNCHANGED roomVars
  BY <1>0, <1>7 DEF roomVars, MemberOf, MayViewChannel, EvictPending, ReconcilePending
<1>8. QED BY <1>1, <1>2, <1>3, <1>4, <1>5, <1>6, <1>7 DEF ChannelRoomsNext

\* A member whom a walk evicts was readmitted in the middle of it.
LEMMA StepEvicting ==
    RoomsIInv /\ [ChannelRoomsNext]_roomVars =>
        \A u \in RoomUser : isMember'[u] /\ Evicting(u)' => u \in rejoined'
<1> SUFFICES ASSUME RoomsIInv, [ChannelRoomsNext]_roomVars, NEW u \in RoomUser,
                    isMember'[u], Evicting(u)'
             PROVE  u \in rejoined'
  OBVIOUS
<1>0. /\ ChannelRoomsTypeOK /\ isMember \in [RoomUser -> BOOLEAN]
      /\ isMember[u] /\ Evicting(u) => u \in rejoined
  BY DEF RoomsIInv, ChannelRoomsTypeOK
<1>1. ASSUME NEW t \in RoomSocket,
             \/ Identify(t) \/ ReadMemberships(t) \/ JoinServerRooms(t) \/ Hangup(t)
             \/ SubscribeChecks(t) \/ SubscribeJoins(t) \/ Unsubscribe(t)
      PROVE  UNCHANGED <<isMember, walk, rejoined>>
  BY <1>1 DEF Identify, ReadMemberships, JoinServerRooms, Hangup, SubscribeChecks,
      SubscribeJoins, Unsubscribe
<1>2. ASSUME NEW v \in RoomUser, LoseMembership(v)
      PROVE  u \in rejoined'
 <2>1. Starts("evict", v) /\ isMember' = [isMember EXCEPT ![v] = FALSE] /\ rejoined' = rejoined
   BY <1>2 DEF LoseMembership
 <2>2. Evicting(u)' => Evicting(u) \/ v = u BY <1>0, <2>1, StartKeepsWalks
 <2>3. QED BY <1>0, <2>1, <2>2
<1>3. ASSUME NEW v \in RoomUser, AcceptInvite(v)
      PROVE  u \in rejoined'
 <2>1. /\ isMember' = [isMember EXCEPT ![v] = TRUE] /\ Evicting(u)
       /\ rejoined' = IF Evicting(v) THEN rejoined \cup {v} ELSE rejoined
   BY <1>3 DEF AcceptInvite, Evicting
 <2>2. QED BY <1>0, <2>1
<1>4. ASSUME NEW v \in RoomUser, JoinUserToServer(v)
      PROVE  UNCHANGED <<isMember, walk, rejoined>>
  BY <1>4 DEF JoinUserToServer
<1>5. ASSUME NEW v \in RoomUser, ChangePermissions(v)
      PROVE  u \in rejoined'
  BY <1>0, <1>5, StartKeepsWalks DEF ChangePermissions
<1>6. ASSUME NEW w \in Walk,
             \/ \E t \in RoomSocket : EvictVisits(w, t) \/ ReconcileVisits(w, t)
             \/ ReconcileLeaves(w) \/ WalkEnds(w)
      PROVE  u \in rejoined'
 <2>1. isMember' = isMember /\ rejoined' = rejoined
   BY <1>6 DEF EvictVisits, ReconcileVisits, ReconcileLeaves, WalkEnds
 <2>2. QED BY <1>0, <1>6, <2>1, WalkKeepsWalks
<1>7. ASSUME UNCHANGED <<isMember, walk, rejoined>>
      PROVE  u \in rejoined'
  BY <1>0, <1>7 DEF Evicting
<1>8. QED BY <1>1, <1>2, <1>3, <1>4, <1>5, <1>6, <1>7 DEF ChannelRoomsNext, roomVars

\* A member's socket that has read its memberships is in the room of the server.
LEMMA StepMembers ==
    RoomsIInv /\ [ChannelRoomsNext]_roomVars =>
        \A s \in RoomSocket :
            link'[s] \in {"stranger", "ready"} /\ MemberOf(s)'
                    /\ UserOfSocket[s] \notin joinsUser' \cup rejoined'
                => s \in inServer'
<1> SUFFICES ASSUME RoomsIInv, [ChannelRoomsNext]_roomVars, NEW s \in RoomSocket,
                    link'[s] \in {"stranger", "ready"}, MemberOf(s)',
                    UserOfSocket[s] \notin joinsUser' \cup rejoined'
             PROVE  s \in inServer'
  OBVIOUS
<1>0. /\ ChannelRoomsTypeOK /\ UserOfSocket[s] \in RoomUser /\ isMember \in [RoomUser -> BOOLEAN]
      /\ link \in [RoomSocket -> LinkStage]
      /\ (/\ link[s] \in {"stranger", "ready"} /\ MemberOf(s)
          /\ UserOfSocket[s] \notin joinsUser \cup rejoined) => s \in inServer
      /\ MemberOf(s) /\ Evicting(UserOfSocket[s]) => UserOfSocket[s] \in rejoined
  BY ChannelRoomsAssumption DEF RoomsIInv, ChannelRoomsTypeOK, MemberOf
<1>1. ASSUME NEW t \in RoomSocket, Identify(t) \/ ReadMemberships(t)
      PROVE  s \in inServer'
  BY <1>0, <1>1 DEF Identify, ReadMemberships, roomSets, MemberOf
<1>2. ASSUME NEW t \in RoomSocket, JoinServerRooms(t)
      PROVE  s \in inServer'
  BY <1>0, <1>2 DEF JoinServerRooms, MemberOf
<1>3. ASSUME NEW t \in RoomSocket, Hangup(t)
      PROVE  s \in inServer'
  BY <1>0, <1>3 DEF Hangup, MemberOf
<1>4. ASSUME NEW t \in RoomSocket, SubscribeChecks(t) \/ SubscribeJoins(t) \/ Unsubscribe(t)
      PROVE  s \in inServer'
  BY <1>0, <1>4 DEF SubscribeChecks, SubscribeJoins, Unsubscribe, MemberOf
<1>5. ASSUME NEW u \in RoomUser, LoseMembership(u)
      PROVE  s \in inServer'
  BY <1>0, <1>5 DEF LoseMembership, roomSets, MemberOf
<1>6. ASSUME NEW u \in RoomUser, AcceptInvite(u)
      PROVE  s \in inServer'
  BY <1>0, <1>6 DEF AcceptInvite, roomSets, MemberOf
<1>7. ASSUME NEW u \in RoomUser, JoinUserToServer(u)
      PROVE  s \in inServer'
  BY <1>0, <1>7 DEF JoinUserToServer, MemberOf, Connected
<1>8. ASSUME NEW u \in RoomUser, ChangePermissions(u)
      PROVE  s \in inServer'
  BY <1>0, <1>8 DEF ChangePermissions, roomSets, MemberOf
<1>9. ASSUME NEW w \in Walk, NEW t \in RoomSocket, EvictVisits(w, t)
      PROVE  s \in inServer'
 <2>1. /\ UNCHANGED <<link, isMember, joinsUser, rejoined>> /\ walk[w].kind = "evict"
       /\ \/ inServer' = inServer
          \/ inServer' = inServer \ {t} /\ UserOfSocket[t] = walk[w].user
   BY <1>9 DEF EvictVisits
 <2>2. s \in inServer /\ ~Evicting(UserOfSocket[s]) BY <1>0, <2>1 DEF MemberOf
 <2>3. QED BY <2>1, <2>2 DEF Evicting
<1>10. ASSUME NEW w \in Walk,
              (\E t \in RoomSocket : ReconcileVisits(w, t)) \/ ReconcileLeaves(w) \/ WalkEnds(w)
       PROVE  s \in inServer'
  BY <1>0, <1>10 DEF ReconcileVisits, ReconcileLeaves, WalkEnds, roomSets, MemberOf
<1>11. CASE UNCHANGED roomVars BY <1>0, <1>11 DEF roomVars, MemberOf
<1>12. QED BY <1>1, <1>2, <1>3, <1>4, <1>5, <1>6, <1>7, <1>8, <1>9, <1>10, <1>11 DEF ChannelRoomsNext

\* Every step preserves the inductive invariant.
LEMMA StepRoomsIInv == RoomsIInv /\ [ChannelRoomsNext]_roomVars => RoomsIInv'
<1> SUFFICES ASSUME RoomsIInv, [ChannelRoomsNext]_roomVars
             PROVE  RoomsIInv'
  OBVIOUS
<1>1. ChannelRoomsTypeOK' BY StepRoomsType DEF RoomsIInv
<1>2. QED BY <1>1, StepConnected, StepServer, StepChannel, StepMembers, StepEvicting DEF RoomsIInv

\* Once the walks are done, the invariant leaves nobody in a room it has lost, and no
\* member out of its server's.
LEMMA RoomsIInvSettles == RoomsIInv => NobodyOverhears /\ MembersHearTheirServer
<1> SUFFICES ASSUME RoomsIInv, WalksDone
             PROVE  NobodyOverhears /\ MembersHearTheirServer
  BY DEF NobodyOverhears, MembersHearTheirServer
<1>1. \A s \in RoomSocket : ~EvictPending(s) /\ ~ReconcilePending(s)
  BY DEF WalksDone, EvictPending, ReconcilePending
<1>2. inServer \subseteq RoomSocket /\ inChannel \subseteq RoomSocket BY DEF RoomsIInv, ChannelRoomsTypeOK
<1>3. QED BY <1>1, <1>2 DEF RoomsIInv, NobodyOverhears, MembersHearTheirServer

\* For any number of sockets, walks and changes of access: once the walks are done nobody
\* hears a channel or a server it has lost, save a socket that had passed its check before.
THEOREM RoomsAreLeft == ChannelRoomsSpec => [](ChannelRoomsTypeOK /\ NobodyOverhears)
<1>1. RoomsIInv => ChannelRoomsTypeOK BY DEF RoomsIInv
<1>2. QED BY <1>1, RoomsInitIInv, StepRoomsIInv, RoomsIInvSettles, PTL DEF ChannelRoomsSpec

\* ... and every member not readmitted during its own eviction hears its server.
THEOREM MembersAreHeard == ChannelRoomsSpec => []MembersHearTheirServer
    BY RoomsInitIInv, StepRoomsIInv, RoomsIInvSettles, PTL DEF ChannelRoomsSpec
=============================================================================
