------------------------ MODULE CredentialRateLimit ------------------------
(***************************************************************************)
(* CredentialRateLimitService for one account and address: two counters in *)
(* Redis, each a key with a time to live that one script creates, and the  *)
(* password and e-mail changes of AuthService that use them. A count of 0  *)
(* is a key that is not there.                                             *)
(***************************************************************************)
EXTENDS Integers, FiniteSets

CONSTANTS
    Attempt,        \* credential changes in flight at once
    REAUTH_LIMIT, MUTATION_LIMIT,
    MaxLifetimes    \* bound: how often the mutation key is created

ASSUME CredentialLimitAssumption ==
    /\ IsFiniteSet(Attempt)
    /\ REAUTH_LIMIT \in Nat \ {0} /\ MUTATION_LIMIT \in Nat \ {0}
    /\ MaxLifetimes \in Nat \ {0}

VARIABLES
    reauth, mutation,  \* the two counters
    lifetime,          \* which key `mutation` is: 0 before the first
    attempt,           \* [Attempt -> step and the key its reservation is in]
    committed,         \* changes committed on a reservation in the current key
    strayReleases      \* reservations of earlier keys released in this one

credentialVars == <<reauth, mutation, lifetime, attempt, committed, strayReleases>>

NoAttempt == [pc |-> "idle", reservedIn |-> 0]

CredentialTypeOK ==
    /\ reauth \in Nat /\ mutation \in Nat /\ lifetime \in Nat
    /\ committed \in Nat /\ strayReleases \in Nat
    /\ attempt \in [Attempt -> [pc : {"idle", "admitted", "reserved"}, reservedIn : Nat]]

CredentialInit ==
    /\ reauth = 0 /\ mutation = 0 /\ lifetime = 0
    /\ attempt = [q \in Attempt |-> NoAttempt]
    /\ committed = 0 /\ strayReleases = 0

Ended(q) == attempt' = [attempt EXCEPT ![q] = NoAttempt]

Admissible(q) == reauth < REAUTH_LIMIT /\ mutation < MUTATION_LIMIT

\* CredentialMutationGuard; an attempt it refuses changes nothing.
AssertAdmission(q) ==
    /\ attempt[q].pc = "idle"
    /\ Admissible(q)
    /\ attempt' = [attempt EXCEPT ![q].pc = "admitted"]
    /\ UNCHANGED <<reauth, mutation, lifetime, committed, strayReleases>>

\* The current password is wrong; with Redis away the failure is not counted.
RecordReauthenticationFailure(q) ==
    /\ attempt[q].pc = "admitted"
    /\ reauth' \in {reauth, reauth + 1}
    /\ Ended(q)
    /\ UNCHANGED <<mutation, lifetime, committed, strayReleases>>

\* Plausible bug: the counter is trusted to be where admission found it.
RoomAsAdmitted(q) == TRUE

\* The script takes an increment past the limit back.
RoomLeft(q) == mutation < MUTATION_LIMIT

ReserveSuccessfulMutation(q) ==
    /\ attempt[q].pc = "admitted"
    /\ IF RoomLeft(q)
       THEN LET fresh == mutation = 0 IN
            /\ fresh => lifetime < MaxLifetimes
            /\ mutation' = mutation + 1
            /\ lifetime' = IF fresh THEN lifetime + 1 ELSE lifetime
            /\ committed' = IF fresh THEN 0 ELSE committed
            /\ strayReleases' = IF fresh THEN 0 ELSE strayReleases
            /\ attempt' = [attempt EXCEPT ![q] = [pc |-> "reserved", reservedIn |-> lifetime']]
       ELSE Ended(q) /\ UNCHANGED <<mutation, lifetime, committed, strayReleases>>
    /\ UNCHANGED reauth

\* The transaction of changePassword or changeEmail commits.
CommitMutation(q) ==
    /\ attempt[q].pc = "reserved"
    /\ committed' = IF attempt[q].reservedIn = lifetime THEN committed + 1 ELSE committed
    /\ Ended(q)
    /\ UNCHANGED <<reauth, mutation, lifetime, strayReleases>>

\* Of whatever key there is by now; the last reservation deletes it.
ReleaseMutationReservation(q) ==
    /\ attempt[q].pc = "reserved"
    /\ mutation' = IF mutation <= 1 THEN 0 ELSE mutation - 1
    /\ strayReleases' =
           IF attempt[q].reservedIn # lifetime THEN strayReleases + 1 ELSE strayReleases
    /\ Ended(q)
    /\ UNCHANGED <<reauth, lifetime, committed>>

\* The release fails or the process stops: the reservation stays.
LeakReservation(q) ==
    /\ attempt[q].pc = "reserved"
    /\ Ended(q)
    /\ UNCHANGED <<reauth, mutation, lifetime, committed, strayReleases>>

ReauthExpires ==
    /\ reauth > 0 /\ reauth' = 0
    /\ UNCHANGED <<mutation, lifetime, attempt, committed, strayReleases>>

MutationExpires ==
    /\ mutation > 0 /\ mutation' = 0
    /\ UNCHANGED <<reauth, lifetime, attempt, committed, strayReleases>>

CredentialNext ==
    \/ \E q \in Attempt :
           \/ AssertAdmission(q) \/ RecordReauthenticationFailure(q)
           \/ ReserveSuccessfulMutation(q) \/ CommitMutation(q)
           \/ ReleaseMutationReservation(q) \/ LeakReservation(q)
    \/ ReauthExpires \/ MutationExpires

CredentialSpec == CredentialInit /\ [][CredentialNext]_credentialVars

------------------------------------------------------------
(* Properties                                                              *)

\* Neither counter lets more through than it should. Within the life of one key no
\* more changes are committed, or still may be, than the limit and the reservations of
\* earlier keys that were released from this one by mistake. Admission is checked
\* before the password and the failure counted after it, so concurrent attempts may
\* guess past the limit: by one less than there can be in flight and no more.
CredentialBudget ==
    /\ mutation > 0 =>
           committed + Cardinality({q \in Attempt : attempt[q].pc = "reserved" /\ attempt[q].reservedIn = lifetime})
               <= MUTATION_LIMIT + strayReleases
    /\ reauth + Cardinality({q \in Attempt : attempt[q].pc = "admitted"})
           <= REAUTH_LIMIT - 1 + Cardinality(Attempt)
=============================================================================
