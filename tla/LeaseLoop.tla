----------------------------- MODULE LeaseLoop ------------------------------
(***************************************************************************)
(* The agent's run loop for a store that issues its documents under leases: *)
(* what it renews, issues anew, keeps, publishes and hands back, with time. *)
(*                                                                         *)
(* Such a store is asked on an interval, so nothing here is resynced; what  *)
(* the loop does apart from leases is Sidecar's.  Time is counted in ticks, *)
(* and everything that is awaited in an arm of the loop holds up the rest.  *)
(***************************************************************************)
EXTENDS Naturals

CONSTANTS
  Ids,            \* of credentials; one that is nowhere any more is used again
  Grants,         \* what the store may grant: for how long, and if it can be renewed
  Call, Reopen,   \* the longest call, and the longest wait before a watch is reopened
  StartupPolicy,
  Revoke,         \* revoke-on-shutdown
  Chaos, Budget

None == 0

ASSUME TimesAssumption ==
  /\ None \notin Ids /\ Call \in Nat /\ Reopen \in Nat /\ Budget \in Nat
  /\ Grants \subseteq [ttl : Nat \ {0}, renewable : BOOLEAN]
ASSUME PolicyAssumption ==
  StartupPolicy \in {"require-fresh", "allow-cached", "best-effort"} /\ Revoke \in BOOLEAN

(* The store never runs out of credentials: whatever is still known, one is *)
(* left to issue.                                                           *)
ASSUME IdsAssumption ==
  \A a, b, c, d \in Ids \cup {None} : \E fresh \in Ids : fresh \notin {a, b, c, d}

VARIABLES
  left,       \* of each credential's life, at the store
  file,       \* the credential on the volume
  lease,      \* the one the loop keeps, and for how long it was granted
  period, renewal, \* of the renewal timer, and when it is due
  slot, withheld,
  pc,
  waited,     \* how long what is awaited has taken
  admitted,
  kept,       \* the file's credential is the kept one, and nothing has gone wrong since
  budget

store == <<left, admitted>>
timer == <<period, renewal>>
memory == <<lease, period, renewal, slot, withheld>>
vars == <<left, file, lease, period, renewal, slot, withheld, pc, waited, admitted, kept, budget>>

NoLease == [id |-> None, ttl |-> 0, renewable |-> FALSE]
Held(id, g) == [id |-> id, ttl |-> g.ttl, renewable |-> g.renewable]

Init ==
  /\ left = [c \in Ids |-> 0]
  /\ file = None /\ lease = NoLease /\ period = 0 /\ renewal = 0
  /\ slot = None /\ withheld = None
  /\ pc = "down" /\ waited = 0 /\ admitted \in BOOLEAN /\ kept = FALSE /\ budget = Budget

Spend(event) == event \in Chaos /\ budget > 0 /\ budget' = budget - 1

-----------------------------------------------------------------------------
(* The store and the clock.                                                 *)

(* A credential that nobody holds is of no further interest.                *)
Known == {file, lease.id, slot, withheld}
Fresh == CHOOSE c \in Ids : c \notin Known
Minted(c, g) == [x \in Ids |-> IF x = c THEN g.ttl ELSE IF x \in Known THEN left[x] ELSE 0]

(* Of its life, in hundredths.                                              *)
Fraction(renewable) == IF renewable THEN 65 ELSE 90

(* A share of the lease's life, moved by up to a quarter of itself.         *)
Waits(g) ==
  {w \in 1..2 * g.ttl : LET share == Fraction(g.renewable) * g.ttl IN
                          3 * share <= 400 * w /\ 400 * w <= 5 * share}

(* Calls are short against a lease: a renewal that fails, and the issue     *)
(* after it, end within it.                                                 *)
ASSUME CallsAssumption ==
  \A g \in Grants : \A w \in Waits(g) : g.renewable => w + 3 * Call < g.ttl

(* Mutant of Scheduled: from the lease there was.                           *)
ScheduledAsBefore(old, g) == IF old.id = None THEN Waits(g) ELSE Waits(old)

(* The next renewal is reckoned from what was granted.                      *)
Scheduled(old, g) == Waits(g)

(* A lease that cannot be renewed may be scheduled for after its end.       *)
Timely(g, w) == g.renewable \/ w + 2 * Call < g.ttl

(* Mutant of Due: whether a lease is kept or not.                           *)
DueUngated == pc = "select" /\ renewal = 0

Due == pc = "select" /\ lease.id # None /\ renewal = 0

(* The loop is prompt: time passes while it waits, or awaits an answer.     *)
Tick ==
  /\ \/ pc \in {"down", "stopped"}
     \/ pc = "select" /\ ~Due /\ slot = None
     \/ pc \in {"fetching", "renewing", "reissuing", "revoking"} /\ waited < Call
     \/ pc = "reopening" /\ waited < Reopen
  /\ left' = [c \in Ids |-> IF left[c] = 0 THEN 0 ELSE left[c] - 1]
  /\ renewal' = IF renewal = 0 THEN 0 ELSE renewal - 1
  /\ waited' = IF pc \in {"down", "stopped", "select"} THEN 0 ELSE waited + 1
  /\ UNCHANGED <<file, lease, period, slot, withheld, pc, admitted, kept, budget>>

CohortMoves ==
  /\ Spend("cohort")
  /\ admitted' = ~admitted
  /\ UNCHANGED <<left, file, pc, waited, kept>> /\ UNCHANGED memory

(* The watch has read the path, which mints a credential.                   *)
WatchDelivers(g) ==
  /\ pc \in {"select", "renewing", "reissuing", "reopening"} /\ Spend("poll")
  /\ slot' = Fresh /\ left' = Minted(Fresh, g)
  /\ UNCHANGED <<file, lease, withheld, pc, waited, admitted, kept>> /\ UNCHANGED timer

Awaits(where) == pc' = where /\ waited' = 0

-----------------------------------------------------------------------------
(* The start.                                                               *)

Starts ==
  /\ pc = "down"
  /\ Awaits("fetching") /\ UNCHANGED <<file, kept, budget>> /\ UNCHANGED memory /\ UNCHANGED store

FirstFetched(g, w) ==
  /\ pc = "fetching" /\ w \in Waits(g)
  /\ left' = Minted(Fresh, g) /\ file' = Fresh /\ lease' = Held(Fresh, g)
  /\ period' = w /\ renewal' = w
  /\ kept' = Timely(g, w)
  /\ Awaits("select") /\ UNCHANGED <<slot, withheld, admitted, budget>>

(* Without an answer the policy decides, and the loop goes on without a     *)
(* lease; a first document that cannot be written ends it.                  *)
Cached == StartupPolicy # "require-fresh" /\ (StartupPolicy = "allow-cached" => file # None)

FirstFails ==
  /\ pc = "fetching"
  /\ \/ Spend("call") /\ Awaits(IF Cached THEN "select" ELSE "down")
     \/ Spend("write") /\ Awaits("down")
  /\ UNCHANGED <<file, kept>> /\ UNCHANGED memory /\ UNCHANGED store

-----------------------------------------------------------------------------
(* A document that has come: published, held, or not written.               *)

Arrives(c, fine, otherwise) ==
  \/ admitted /\ file' = c /\ kept' = fine /\ UNCHANGED <<withheld, budget>>
  \/ admitted /\ Spend("write") /\ kept' = otherwise /\ UNCHANGED <<file, withheld>>
  \/ ~admitted /\ withheld' = c /\ kept' = otherwise /\ UNCHANGED <<file, budget>>

(* A delivery is published, and its lease is nobody's.                      *)
Delivers ==
  /\ pc = "select" /\ slot # None
  /\ slot' = None /\ UNCHANGED <<lease, pc, waited>> /\ UNCHANGED timer /\ UNCHANGED store
  /\ Arrives(slot, FALSE, kept)

CanaryTicks ==
  /\ pc = "select" /\ withheld # None /\ admitted
  /\ withheld' = None
  /\ \/ file' = withheld /\ kept' = FALSE /\ UNCHANGED budget
     \/ Spend("write") /\ UNCHANGED <<file, kept>>
  /\ UNCHANGED <<lease, slot, pc, waited>> /\ UNCHANGED timer /\ UNCHANGED store

-----------------------------------------------------------------------------
(* The renewal arm.                                                         *)

RenewalDue ==
  /\ Due
  /\ renewal' = period
  /\ Awaits(IF lease.renewable THEN "renewing" ELSE "reissuing")
  /\ UNCHANGED <<file, lease, period, slot, withheld, kept, budget>> /\ UNCHANGED store

(* The same credential for longer; the file is left alone.                  *)
Renewed(g, w) ==
  /\ pc = "renewing" /\ left[lease.id] > 0 /\ w \in Scheduled(lease, g)
  /\ left' = [left EXCEPT ![lease.id] = g.ttl] /\ lease' = Held(lease.id, g)
  /\ period' = w /\ renewal' = w
  /\ kept' = (file = lease.id /\ Timely(g, w))
  /\ Awaits("select") /\ UNCHANGED <<file, slot, withheld, admitted, budget>>

(* Mutant of AfterRefusal: the next renewal is waited for.                  *)
AfterRefusalWaits == "select"
AfterRefusal == "reissuing"

(* Refused, as past its maximum, or not answered.                           *)
RenewFails ==
  /\ pc = "renewing"
  /\ Awaits(AfterRefusal) /\ UNCHANGED <<file, kept, budget>> /\ UNCHANGED memory /\ UNCHANGED store

Reissued(g, w) ==
  /\ pc = "reissuing" /\ w \in Scheduled(lease, g)
  /\ left' = Minted(Fresh, g) /\ lease' = Held(Fresh, g)
  /\ period' = w /\ renewal' = w
  /\ Awaits("select") /\ UNCHANGED <<slot, admitted>>
  /\ Arrives(Fresh, Timely(g, w), FALSE)

(* The lease and its timer stay as they were.                               *)
ReissueFails ==
  /\ pc = "reissuing" /\ Spend("call")
  /\ kept' = FALSE
  /\ Awaits("select") /\ UNCHANGED file /\ UNCHANGED memory /\ UNCHANGED store

-----------------------------------------------------------------------------
(* The arms that keep the others waiting, and the ends of a run.            *)

WatchEnds ==
  /\ pc = "select" /\ Spend("drop")
  /\ kept' = FALSE
  /\ Awaits("reopening") /\ UNCHANGED file /\ UNCHANGED memory /\ UNCHANGED store

Reopens ==
  /\ pc = "reopening"
  /\ Awaits("select") /\ UNCHANGED <<file, kept, budget>> /\ UNCHANGED memory /\ UNCHANGED store

Forgets ==
  /\ lease' = NoLease /\ period' = 0 /\ renewal' = 0 /\ slot' = None /\ withheld' = None
  /\ kept' = FALSE /\ UNCHANGED file /\ UNCHANGED store

(* The trust material has changed: the loop begins again with a new client. *)
Rebuilds == pc = "select" /\ Spend("rotate") /\ Forgets /\ Awaits("fetching")

Crashes == pc \notin {"down", "stopped"} /\ Spend("crash") /\ Forgets /\ Awaits("down")

Stops ==
  /\ pc = "select" /\ Spend("stop")
  /\ IF lease.id # None /\ Revoke THEN Awaits("revoking") /\ kept' = kept
                                   ELSE Awaits("stopped") /\ kept' = FALSE
  /\ UNCHANGED file /\ UNCHANGED memory /\ UNCHANGED store

Revoked ==
  /\ pc = "revoking"
  /\ left' = [left EXCEPT ![lease.id] = 0]
  /\ Awaits("stopped") /\ UNCHANGED <<file, admitted, kept, budget>> /\ UNCHANGED memory

(* Refused, or not within the grace.                                        *)
RevokeFails ==
  /\ pc = "revoking"
  /\ kept' = FALSE
  /\ Awaits("stopped") /\ UNCHANGED <<file, budget>> /\ UNCHANGED memory /\ UNCHANGED store

-----------------------------------------------------------------------------
WaitsEver == UNION {Waits(g) : g \in Grants}

Issues == \E g \in Grants, w \in WaitsEver : FirstFetched(g, w) \/ Renewed(g, w) \/ Reissued(g, w)

Next ==
  \/ Tick \/ CohortMoves \/ \E g \in Grants : WatchDelivers(g)
  \/ Starts \/ FirstFails \/ Issues
  \/ Delivers \/ CanaryTicks \/ RenewalDue \/ RenewFails \/ ReissueFails
  \/ WatchEnds \/ Reopens \/ Rebuilds \/ Crashes \/ Stops \/ Revoked \/ RevokeFails

Spec == Init /\ [][Next]_vars

(* Time passes, a call is answered, the select of the loop leaves no arm    *)
(* that stays ready out for ever, and no credential is renewed without end. *)
FairSpec ==
  /\ Spec
  /\ WF_vars(Tick) /\ WF_vars(Starts) /\ WF_vars(Issues) /\ WF_vars(Reopens) /\ WF_vars(Revoked)
  /\ SF_vars(Delivers) /\ SF_vars(CanaryTicks) /\ SF_vars(RenewalDue) /\ SF_vars(RenewFails)

-----------------------------------------------------------------------------
(* Properties.                                                              *)

(* Every variable has its type, and the credentials that the loop knows     *)
(* leave one for the store to issue.                                        *)
TypeOK ==
  /\ left \in [Ids -> Nat] /\ Known \subseteq Ids \cup {None} /\ Ids \ Known # {}
  /\ lease.ttl \in Nat /\ lease.renewable \in BOOLEAN /\ period \in Nat /\ renewal \in 0..period
  /\ pc \in {"down", "fetching", "select", "renewing", "reissuing", "reopening", "revoking", "stopped"}
  /\ pc \in {"renewing", "reissuing", "revoking"} => lease.id # None
  /\ waited \in 0..(IF Call < Reopen THEN Reopen ELSE Call)
  /\ admitted \in BOOLEAN /\ kept \in BOOLEAN /\ budget \in 0..Budget

(* The credential in the file is the one whose lease the loop keeps: alive  *)
(* while the loop runs, and handed back once it was told to stop - as long  *)
(* as, since it came there, no call of an issue failed, the loop was not    *)
(* kept waiting by a watch, and its own wait was not drawn too long; and    *)
(* whatever renewals were refused, and in whatever order the timer, the     *)
(* deliveries, the cohort and the calls came.                               *)
ServedAlive ==
  kept => /\ lease.id # None /\ file = lease.id
          /\ pc \notin {"revoking", "stopped"} => left[file] > 0
          /\ pc = "stopped" => left[file] = 0

(* A pod in the cohort whose loop keeps a lease is given a living           *)
(* credential again and again, whatever of its calls, writes, deliveries    *)
(* and runs went wrong before, and whatever it was kept waiting for.        *)
Recovers ==
  <>[](admitted /\ lease.id # None /\ pc # "stopped") => []<>(file # None /\ left[file] > 0)

=============================================================================
