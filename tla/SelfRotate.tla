----------------------------- MODULE SelfRotate -----------------------------
(***************************************************************************)
(* The webhook as its own certificate authority: the rotation loop and its  *)
(* lease (selfrotate.rs), and the server that reloads the mounted pair      *)
(* (tls.rs), in every replica.                                              *)
(*                                                                         *)
(* A pair - authority, leaf and key - is named by its authority.  The clock *)
(* is left to two facts about it: a lease runs out (after half a minute     *)
(* without a renewal), and a pair is spent (after two thirds of a day),     *)
(* which takes so much longer than a rotation, a sync of the kubelet and a  *)
(* poll of the files that they are over by then.                            *)
(***************************************************************************)
EXTENDS Integers, FiniteSets

CONSTANTS
  Replicas, None,
  Authorities, \* the pairs that can be in use at a time (a bound)
  Budget,      \* how many times something goes wrong (a bound)
  Chaos        \* and what: "crash", "fail", "slow"

ASSUME NoneAssumption == None \notin Replicas /\ None \notin Authorities
ASSUME BudgetAssumption == Budget \in Nat

VARIABLES
  secret, spent, \* the Secret's pair, and whether its annotation says to rotate
  bundle,        \* the authorities of the webhook configuration's caBundle
  lease,         \* its holder, and whether it is over
  current,       \* the replicas that read the version the lease still has
  at,            \* where the rotation loop is
  minted, previous, \* in rotate(): its new pair, and the authority it replaces
  file,          \* the pair mounted in a replica
  server,        \* where tls.rs is
  serving, seen, \* `current` and `seen` of serve()
  noticed,       \* `now` of a reload
  raced,         \* the replica loaded one pair and stamped another
  overran,       \* a lease ran out under a rotation of this pair
  wrong          \* what went wrong so far, of Budget

rotation == <<at, minted, previous>>
cluster == <<secret, spent, bundle>>
served == <<file, server, serving, seen, noticed, raced>>
vars == <<cluster, lease, current, rotation, served, overran, wrong>>

\* A claim that succeeded, and what it was for.
Leading == {"checking", "rotating", "writing", "patching"}
Rotating == {"rotating", "writing", "patching"}

Init ==
  /\ secret = None /\ spent = TRUE /\ bundle = {}
  /\ lease = [holder |-> None, over |-> TRUE] /\ current = {}
  /\ at = [r \in Replicas |-> "idle"]
  /\ minted = [r \in Replicas |-> None] /\ previous = [r \in Replicas |-> None]
  /\ file = [r \in Replicas |-> None] /\ server = [r \in Replicas |-> "waiting"]
  /\ serving = [r \in Replicas |-> None] /\ seen = [r \in Replicas |-> None]
  /\ noticed = [r \in Replicas |-> None] /\ raced = [r \in Replicas |-> FALSE]
  /\ overran = FALSE /\ wrong = 0

GoesWrong(kind) == kind \in Chaos /\ wrong < Budget /\ wrong' = wrong + 1

\* An attempt that is over, whatever came of it: the loop sleeps.
Idle(r) ==
  /\ at' = [at EXCEPT ![r] = "idle"]
  /\ minted' = [minted EXCEPT ![r] = None] /\ previous' = [previous EXCEPT ![r] = None]

Goes(r, to) == at' = [at EXCEPT ![r] = to] /\ UNCHANGED <<minted, previous>>

----------------------------------------------------------------------------
(* hold_lease.                                                              *)

Claimable(r) == lease.holder = r \/ lease.over

\* Mutant of Fenced: the lease is replaced whatever its version.
FencedNever(r) == TRUE

\* The version read is still the lease's; created, that there still is none.
Fenced(r) == r \in current

Taken(r) == lease' = [holder |-> r, over |-> FALSE] /\ current' = {}

HoldReads(r) ==
  /\ at[r] = "idle" /\ Claimable(r)
  /\ Goes(r, "claiming") /\ current' = current \cup {r}
  /\ UNCHANGED <<cluster, lease, served, overran, wrong>>

HoldTakes(r) ==
  /\ at[r] = "claiming" /\ Fenced(r)
  /\ Taken(r) /\ Goes(r, "checking")
  /\ UNCHANGED <<cluster, served, overran, wrong>>

\* 409: an error for a replace, and "not me" for a create.
HoldRefused(r) ==
  /\ at[r] = "claiming" /\ ~Fenced(r)
  /\ Idle(r)
  /\ UNCHANGED <<cluster, lease, current, served, overran, wrong>>

----------------------------------------------------------------------------
(* attend and rotate.                                                       *)

\* Mutant of Due: only a pair that there is can be spent.
DueIfThere == secret # None /\ spent

\* The Secret is absent, empty or says that its time is near.
Due == spent

ChecksFresh(r) ==
  /\ at[r] = "checking" /\ ~Due
  /\ Idle(r)
  /\ UNCHANGED <<cluster, lease, current, served, overran, wrong>>

ChecksDue(r) ==
  /\ at[r] = "checking" /\ Due
  /\ Goes(r, "rotating")
  /\ UNCHANGED <<cluster, lease, current, served, overran, wrong>>

\* The task beside a rotation asks as attend does, and takes what it may.
Renews(r) ==
  /\ at[r] \in Rotating /\ Claimable(r)
  /\ Taken(r)
  /\ UNCHANGED <<cluster, rotation, served, overran, wrong>>

InUse ==
  {secret} \cup bundle
    \cup UNION {{minted[r], previous[r], file[r], serving[r], seen[r], noticed[r]} : r \in Replicas}

\* A new pair, and the authority of the one it will replace.
Mints(r) ==
  /\ at[r] = "rotating" /\ Authorities \ InUse # {}
  /\ at' = [at EXCEPT ![r] = "writing"]
  /\ minted' = [minted EXCEPT ![r] = CHOOSE a \in Authorities : a \notin InUse]
  /\ previous' = [previous EXCEPT ![r] = secret]
  /\ UNCHANGED <<cluster, lease, current, served, overran, wrong>>

\* A forced apply: it takes no version.
WritesSecret(r) ==
  /\ at[r] = "writing"
  /\ secret' = minted[r] /\ spent' = FALSE
  /\ Goes(r, "patching")
  /\ UNCHANGED <<bundle, lease, current, served, overran, wrong>>

\* Mutant of Bundle: the new authority alone.
BundleOfOne(r) == {minted[r]}

\* The new authority, and the first certificate of the one before.
Bundle(r) == {minted[r], previous[r]} \ {None}

PatchesBundle(r) ==
  /\ at[r] = "patching"
  /\ bundle' = Bundle(r)
  /\ Idle(r)
  /\ UNCHANGED <<secret, spent, lease, current, served, overran, wrong>>

\* The renewals told that another took the lease, or none succeeded for a term:
\* the rotation is dropped at whichever await it is.
Lost(r) ==
  /\ at[r] \in Rotating /\ (lease.holder # r \/ lease.over)
  /\ Idle(r)
  /\ UNCHANGED <<cluster, lease, current, served, overran, wrong>>

\* A call that is refused, or whose answer is lost: the next attempt is a new
\* one, which asks the annotation again.
CallFails(r) ==
  /\ at[r] \in {"claiming"} \cup Leading
  /\ GoesWrong("fail")
  /\ Idle(r)
  /\ UNCHANGED <<cluster, lease, current, served, overran>>

----------------------------------------------------------------------------
(* tls.rs.                                                                  *)

\* Mutant of Loadable: the files are there, be they empty.
LoadablePresent(r) == TRUE

\* The placeholder mounts empty files.
Loadable(r) == file[r] # None

\* The first pair that can be loaded.
Loads(r) ==
  /\ server[r] = "waiting" /\ Loadable(r)
  /\ server' = [server EXCEPT ![r] = "loaded"]
  /\ serving' = [serving EXCEPT ![r] = file[r]]
  /\ UNCHANGED <<cluster, lease, current, rotation, file, seen, noticed, raced, overran, wrong>>

Stamps(r) ==
  /\ server[r] = "loaded"
  /\ server' = [server EXCEPT ![r] = "serving"]
  /\ seen' = [seen EXCEPT ![r] = file[r]]
  /\ raced' = [raced EXCEPT ![r] = file[r] # serving[r]]
  /\ UNCHANGED <<cluster, lease, current, rotation, file, serving, noticed, overran, wrong>>

\* A tick of the reload: first the times, then the files.
Polls(r) ==
  /\ server[r] = "serving" /\ file[r] # seen[r]
  /\ server' = [server EXCEPT ![r] = "reloading"]
  /\ noticed' = [noticed EXCEPT ![r] = file[r]]
  /\ UNCHANGED <<cluster, lease, current, rotation, file, serving, seen, raced, overran, wrong>>

\* Mutant of Reloaded: the times are read after the files.
ReloadedFirst(r) == [serving |-> noticed[r], seen |-> file[r]]

\* The files are read after the times.  A pair swapped between the two reads
\* does not match, and is read again at the next tick: only whole ones load.
Reloaded(r) == [serving |-> file[r], seen |-> noticed[r]]

Reloads(r) ==
  /\ server[r] = "reloading"
  /\ server' = [server EXCEPT ![r] = "serving"]
  /\ serving' = [serving EXCEPT ![r] = Reloaded(r).serving]
  /\ seen' = [seen EXCEPT ![r] = Reloaded(r).seen]
  /\ noticed' = [noticed EXCEPT ![r] = None]
  /\ raced' = [raced EXCEPT ![r] = FALSE]
  /\ UNCHANGED <<cluster, lease, current, rotation, file, overran, wrong>>

----------------------------------------------------------------------------
(* The rest of the cluster, and time.                                       *)

KubeletSyncs(r) ==
  /\ secret # None /\ file[r] # secret
  /\ file' = [file EXCEPT ![r] = secret]
  /\ UNCHANGED <<cluster, lease, current, rotation, server, serving, seen, noticed, raced,
                 overran, wrong>>

\* The container ends and is started again, in the same pod.
Restarts(r) ==
  /\ GoesWrong("crash")
  /\ Idle(r)
  /\ server' = [server EXCEPT ![r] = "waiting"]
  /\ serving' = [serving EXCEPT ![r] = None] /\ seen' = [seen EXCEPT ![r] = None]
  /\ noticed' = [noticed EXCEPT ![r] = None] /\ raced' = [raced EXCEPT ![r] = FALSE]
  /\ UNCHANGED <<cluster, lease, current, file, overran>>

\* Nobody has renewed it for a term: its holder is not at it ...
LeaseRunsOut ==
  /\ ~lease.over /\ \A r \in Replicas : lease.holder = r => at[r] \notin Leading
  /\ lease' = [lease EXCEPT !.over = TRUE]
  /\ UNCHANGED <<cluster, current, rotation, served, overran, wrong>>

\* ... or is, and its calls take too long.
LeaseOverruns ==
  /\ ~lease.over /\ \E r \in Replicas : lease.holder = r /\ at[r] \in Leading
  /\ GoesWrong("slow")
  /\ lease' = [lease EXCEPT !.over = TRUE]
  /\ overran' = TRUE
  /\ UNCHANGED <<cluster, current, rotation, served>>

\* Two thirds of the pair's time: long after it has arrived everywhere.
Spends ==
  /\ secret # None /\ ~spent
  /\ \A r \in Replicas :
       /\ at[r] \notin Leading
       /\ file[r] = secret /\ server[r] = "serving" /\ seen[r] = file[r]
  /\ spent' = TRUE /\ overran' = FALSE
  /\ UNCHANGED <<secret, bundle, lease, current, rotation, served, wrong>>

----------------------------------------------------------------------------

Attend(r) ==
  \/ HoldReads(r) \/ HoldTakes(r) \/ HoldRefused(r)
  \/ ChecksFresh(r) \/ ChecksDue(r) \/ Renews(r) \/ Mints(r)
  \/ WritesSecret(r) \/ PatchesBundle(r) \/ Lost(r) \/ CallFails(r)

Serve(r) == Loads(r) \/ Stamps(r) \/ Polls(r) \/ Reloads(r)

Next ==
  \/ \E r \in Replicas : Attend(r) \/ Serve(r) \/ KubeletSyncs(r) \/ Restarts(r)
  \/ LeaseRunsOut \/ LeaseOverruns \/ Spends

Spec == Init /\ [][Next]_vars

(* The loop and the server go on, the kubelet syncs, and time passes: a     *)
(* lease nobody renews runs out, and a pair is spent one day however often  *)
(* the loop has asked.                                                      *)
Fairness ==
  /\ \A r \in Replicas :
       /\ WF_vars(HoldReads(r)) /\ WF_vars(HoldTakes(r)) /\ WF_vars(HoldRefused(r))
       /\ WF_vars(ChecksFresh(r)) /\ WF_vars(ChecksDue(r)) /\ WF_vars(Mints(r))
       /\ WF_vars(WritesSecret(r)) /\ WF_vars(PatchesBundle(r))
       /\ WF_vars(Serve(r)) /\ WF_vars(KubeletSyncs(r))
  /\ WF_vars(LeaseRunsOut) /\ SF_vars(Spends)

FairSpec == Spec /\ Fairness

----------------------------------------------------------------------------
(* Properties.                                                              *)

\* Every variable has its type; a pair is minted exactly between its mint and
\* its bundle; a server past its first load serves something.
TypeOK ==
  /\ secret \in Authorities \cup {None} /\ spent \in BOOLEAN /\ bundle \subseteq Authorities
  /\ lease \in [holder : Replicas \cup {None}, over : BOOLEAN] /\ current \subseteq Replicas
  /\ at \in [Replicas -> {"idle", "claiming"} \cup Leading]
  /\ minted \in [Replicas -> Authorities \cup {None}]
  /\ previous \in [Replicas -> Authorities \cup {None}]
  /\ file \in [Replicas -> Authorities \cup {None}]
  /\ server \in [Replicas -> {"waiting", "loaded", "serving", "reloading"}]
  /\ serving \in [Replicas -> Authorities \cup {None}]
  /\ seen \in [Replicas -> Authorities \cup {None}]
  /\ noticed \in [Replicas -> Authorities \cup {None}]
  /\ raced \in [Replicas -> BOOLEAN]
  /\ overran \in BOOLEAN /\ wrong \in 0..Budget
  /\ \A r \in Replicas :
       /\ minted[r] # None <=> at[r] \in {"writing", "patching"}
       /\ serving[r] = None <=> server[r] = "waiting"
       /\ file[r] = None => server[r] = "waiting"
       /\ noticed[r] # None <=> server[r] = "reloading"

\* Two replicas are at a rotation only where a lease ran out under one of them.
OneRotator ==
  overran \/ \A r, s \in Replicas : at[r] \in Leading /\ at[s] \in Leading => r = s

\* The leaf of the Secret is one the API server does not trust.
HalfWritten == secret # None /\ secret \notin bundle

\* A rotation that was not cut short and had the lease to itself leaves every
\* replica, wherever it is between the old pair and the new one, with a leaf
\* the API server trusts; but one that stamped files it had not loaded.
EveryReplicaTrusted ==
  \/ overran \/ HalfWritten \/ \E r \in Replicas : at[r] = "patching"
  \/ \A r \in Replicas : serving[r] = None \/ serving[r] \in bundle \/ raced[r]

\* A server either serves the pair that is mounted or will find it new, but
\* for the one it started with.
NoticesNews ==
  \A r \in Replicas :
    server[r] = "serving" => serving[r] = file[r] \/ seen[r] # file[r] \/ raced[r]

\* After whatever went wrong, and from the placeholder on, there is a time at
\* which every replica serves a leaf the API server trusts.
Heals == []<>(\A r \in Replicas : serving[r] \in bundle)

=============================================================================
