------------------------------ MODULE Election ------------------------------
(***************************************************************************)
(* Leader election of the operator's replicas: election.rs, and the select! *)
(* of main.rs that ends the process when the lease is lost.                 *)
(*                                                                         *)
(* Time is discrete and relative: every quantity below is a number of ticks *)
(* since something happened, and Tick makes them all one older.  A sleep    *)
(* ends when it is due and a call is answered within Call ticks, or it      *)
(* fails.  The read of a claim takes effect when it is answered: an older   *)
(* answer would only be refused by the fence, with the same outcome.        *)
(***************************************************************************)
EXTENDS Integers

CONSTANTS
  Replicas, None,
  Term, Renew, Poll, \* TERM, RENEW and POLL
  Call,              \* how long a call to the API server may take
  Ahead,             \* how far each replica's wall clock is ahead
  Skew,              \* the most two of them differ
  Cap                \* ages of the lease above it are not told apart (a bound)

ASSUME TimesAssumption ==
  /\ Term \in Nat \ {0} /\ Renew \in Nat /\ Poll \in Nat /\ Call \in Nat /\ Skew \in Nat
  /\ Cap \in Nat /\ Cap > Term + Skew + Call /\ Cap > Renew + 5 * Call + Skew

\* A term outlasts the claim that began it.
ASSUME TermAssumption == Term >= 3 * Call + Skew
ASSUME AheadAssumption ==
  /\ Ahead \in [Replicas -> Int]
  /\ \A r, s \in Replicas : Ahead[r] - Ahead[s] <= Skew
ASSUME NoneAssumption == None \notin Replicas

VARIABLES
  lease,   \* holder, ticks since its renewTime and since its acquireTime
  current, \* the replicas whose resourceVersion is still the lease's
  at,      \* where lead() is
  timer,   \* ticks since its sleep began, or its call was sent
  stamp,   \* ticks since the `now` of its claim
  held,    \* ticks since `held`
  leads    \* the replicas whose process reconciles

vars == <<lease, current, at, timer, stamp, held, leads>>

Init ==
  /\ lease = [holder |-> None, age |-> 0, tenure |-> 0]
  /\ current = {}
  /\ at = [r \in Replicas |-> "down"]
  /\ timer = [r \in Replicas |-> 0] /\ stamp = [r \in Replicas |-> 0]
  /\ held = [r \in Replicas |-> 0]
  /\ leads = {}

Calling == {"asking", "writing", "written"}

\* lead() goes on, with a sleep or a call that begins.
Goes(r, to) == at' = [at EXCEPT ![r] = to] /\ timer' = [timer EXCEPT ![r] = 0]

\* An Err out of main, or a crash: the process and all it knows is gone.
Ends(r) ==
  /\ Goes(r, "down")
  /\ stamp' = [stamp EXCEPT ![r] = 0] /\ held' = [held EXCEPT ![r] = 0]
  /\ leads' = leads \ {r} /\ current' = current \ {r}

----------------------------------------------------------------------------
(* Time.                                                                    *)

SleepOver(r) ==
  \/ at[r] = "polling" /\ timer[r] = Poll
  \/ at[r] = "sleeping" /\ timer[r] = Renew

Due(r) == SleepOver(r) \/ (at[r] \in Calling /\ timer[r] = Call)

Older(n) == IF n < Cap THEN n + 1 ELSE n

Tick ==
  /\ \A r \in Replicas : ~Due(r)
  /\ lease' = [lease EXCEPT !.age = Older(@), !.tenure = Older(@)]
  /\ timer' = [r \in Replicas |-> IF at[r] = "down" THEN 0 ELSE timer[r] + 1]
  /\ stamp' = [r \in Replicas |-> IF at[r] \in Calling THEN stamp[r] + 1 ELSE 0]
  /\ held' = [r \in Replicas |-> IF r \in leads THEN held[r] + 1 ELSE 0]
  /\ UNCHANGED <<current, at, leads>>

----------------------------------------------------------------------------
(* claim.                                                                   *)

\* The first claim of a process, and the next after a sleep.
Start(r) ==
  /\ at[r] = "down"
  /\ Goes(r, "asking")
  /\ UNCHANGED <<lease, current, stamp, held, leads>>

Asks(r) ==
  /\ SleepOver(r)
  /\ Goes(r, "asking")
  /\ stamp' = [stamp EXCEPT ![r] = 0]
  /\ UNCHANGED <<lease, current, held, leads>>

\* Mutant of Expired: a lease somebody holds is never over.
ExpiredNever(r) == FALSE

\* Whole seconds since renewTime, by this replica's clock, against a term.
Expired(r) == lease.age + Ahead[r] - Ahead[lease.holder] > Term

Claimable(r) == lease.holder \in {None, r} \/ (lease.holder # None /\ Expired(r))

\* Mutant of Denied: a leader that lost the lease pauses, and its process goes on.
DeniedPaused(r) ==
  Goes(r, "polling") /\ current' = current \ {r} /\ UNCHANGED <<stamp, held, leads>>

\* claim answers Ok(false): a follower waits, a leader's process ends.
Denied(r) ==
  IF r \in leads
    THEN Ends(r)
    ELSE Goes(r, "polling") /\ current' = current \ {r} /\ UNCHANGED <<stamp, held, leads>>

Reads(r) ==
  /\ at[r] = "asking" /\ Claimable(r)
  /\ Goes(r, "writing")
  /\ current' = current \cup {r}
  /\ UNCHANGED <<lease, stamp, held, leads>>

ReadsAnothers(r) ==
  /\ at[r] = "asking" /\ ~Claimable(r)
  /\ Denied(r)
  /\ UNCHANGED lease

\* Mutant of Fenced: the lease is replaced whatever its version.
FencedNever(r) == TRUE

\* The version read is still the lease's; created, that there still is none.
Fenced(r) == r \in current

\* The API server takes the write.  A takeover stamps a new acquireTime, a
\* renewal carries the one it found.
Applies(r) ==
  /\ at[r] = "writing" /\ Fenced(r)
  /\ lease' = [holder |-> r, age |-> stamp[r],
               tenure |-> IF lease.holder = r THEN lease.tenure ELSE stamp[r]]
  /\ current' = {}
  /\ at' = [at EXCEPT ![r] = "written"]
  /\ UNCHANGED <<timer, stamp, held, leads>>

\* 409, on a replace or on a create.
Refused(r) ==
  /\ at[r] = "writing" /\ ~Fenced(r)
  /\ Denied(r)
  /\ UNCHANGED lease

\* claim answers Ok(true).
Answered(r) ==
  /\ at[r] = "written"
  /\ Goes(r, "sleeping")
  /\ held' = [held EXCEPT ![r] = 0]
  /\ leads' = leads \cup {r}
  /\ UNCHANGED <<lease, current, stamp>>

\* Mutant of TermOver: only an announced loss is one.
TermOverNever(r) == FALSE

\* held.elapsed() >= TERM
TermOver(r) == held[r] >= Term

\* claim answers Err: not sent, not answered, or only its answer was lost.  A
\* follower's is lead()'s, and main's; a leader's counts once the term is over.
CallFails(r) ==
  /\ at[r] \in Calling
  /\ IF r \notin leads \/ TermOver(r)
       THEN Ends(r)
       ELSE Goes(r, "sleeping") /\ current' = current \ {r} /\ UNCHANGED <<stamp, held, leads>>
  /\ UNCHANGED lease

Crash(r) == at[r] # "down" /\ Ends(r) /\ UNCHANGED lease

----------------------------------------------------------------------------

Claim(r) ==
  \/ Asks(r) \/ Reads(r) \/ ReadsAnothers(r) \/ Applies(r)
  \/ Refused(r) \/ Answered(r) \/ CallFails(r)

Next == Tick \/ \E r \in Replicas : Start(r) \/ Claim(r) \/ Crash(r)

Spec == Init /\ [][Next]_vars

(* Time passes and a sleep ends; and the API server does not fail every one  *)
(* of infinitely many calls, whichever call that is.                        *)
Fairness ==
  /\ WF_vars(Tick)
  /\ \A r \in Replicas :
       /\ WF_vars(Asks(r)) /\ WF_vars(Refused(r))
       /\ SF_vars(Reads(r)) /\ SF_vars(ReadsAnothers(r))
       /\ SF_vars(Applies(r)) /\ SF_vars(Answered(r))

FairSpec == Spec /\ Fairness

----------------------------------------------------------------------------
(* Properties.                                                              *)

Typing ==
  /\ lease \in [holder : Replicas \cup {None}, age : 0..Cap, tenure : 0..Cap]
  /\ current \subseteq Replicas /\ leads \subseteq Replicas
  /\ at \in [Replicas -> {"down", "polling", "sleeping"} \cup Calling]
  /\ timer \in [Replicas -> Nat] /\ stamp \in [Replicas -> Nat] /\ held \in [Replicas -> Nat]
  /\ \A r \in leads : at[r] \in {"sleeping"} \cup Calling
  /\ \A r \in Replicas : at[r] = "sleeping" => r \in leads

\* Every variable has its type, and a leader is never down; a sleep and a call
\* are not overslept; a claim is its two calls old at most; and a leader that
\* has nothing confirmed has gone on after its term for a sleep and the calls
\* of one claim at most.
TypeOK ==
  /\ Typing
  /\ \A r \in Replicas :
       /\ at[r] = "polling" => timer[r] <= Poll
       /\ at[r] = "sleeping" => timer[r] <= Renew
       /\ at[r] \in Calling => timer[r] <= Call /\ stamp[r] <= 2 * Call
  /\ \A r \in leads : held[r] + 1 <= Term + Renew + 2 * Call

\* A leader whose lease another has taken goes on for no longer than its next
\* renewal - the attempt that is told, or fails with the term over - and what
\* the calls take and the clocks differ.
OverlapIsBounded ==
  \A r \in leads :
    lease.holder # r => lease.tenure + 2 <= Renew + 5 * Call + Skew

\* Of two replicas that lead at the same time, one has had no renewal
\* confirmed for a term, less what the answers and the clocks may be off: two
\* that are both in good standing never reconcile the same objects.
OneInGoodStanding ==
  \A r, s \in leads :
    r # s => \/ held[r] + 2 * Call + Skew > Term
             \/ held[s] + 2 * Call + Skew > Term

\* As long as one replica is restarted whenever it is down there is a leader
\* again, whoever else is gone for good and however many calls fail.
SomeoneLeads ==
  (\E r \in Replicas : []<>(at[r] # "down")) => []<>(leads # {})

=============================================================================
