-------------------------- MODULE LeaseLoopProofs --------------------------
(***************************************************************************)
(* What is proved of LeaseLoop for every set of credentials, every set of   *)
(* grants, every length of a call that is short against them, every wait of *)
(* a watch and every policy.                                                *)
(***************************************************************************)
EXTENDS LeaseLoop, TLAPS

----------------------------------------------------------------------------
(* The inductive invariant.                                                 *)

\* While the loop waits for the timer, the credential in the file outlives it
\* by the two calls that a refused renewal and the issue after it may take;
\* while it awaits one of these, by what they may still take.
Margin ==
  /\ pc = "select" => left[file] > renewal + 2 * Call
  /\ pc = "renewing" => left[file] + waited > 2 * Call
  /\ pc = "reissuing" => left[file] + waited > Call
  /\ pc = "stopped" => left[file] = 0

\* A credential that is kept is in the file and outlives what the loop waits
\* for; a loop that has none, begins again or waits for a watch keeps nothing.
Keeping ==
  kept => /\ pc \in {"select", "renewing", "reissuing", "revoking", "stopped"}
          /\ lease.id \in Ids /\ file = lease.id
          /\ Margin

\* What is awaited takes no longer than it may.
Waited == pc \in {"renewing", "reissuing"} => waited <= Call

----------------------------------------------------------------------------
(* The store and the timer.                                                 *)

USE TimesAssumption

LEMMA Spare == \A a, b, c, d \in Ids \cup {None} : Ids \ {a, b, c, d} # {}
  BY IdsAssumption

\* A fresh credential is nowhere yet.
LEMMA FreshIsSpare ==
  ASSUME Ids \ Known # {}
  PROVE  Fresh \in Ids /\ Fresh \notin Known /\ Fresh # None
  <1>1. \E c \in Ids : c \notin Known
    OBVIOUS
  <1> QED BY <1>1 DEF Fresh

LEMMA MintedType ==
  ASSUME NEW c \in Ids, NEW g \in Grants, left \in [Ids -> Nat]
  PROVE  Minted(c, g) \in [Ids -> Nat]
  BY DEF Minted

LEMMA WaitsType ==
  ASSUME NEW g \in Grants, NEW w \in Waits(g)
  PROVE  w \in Nat /\ g.ttl \in Nat /\ g.renewable \in BOOLEAN
  BY DEF Waits

\* A renewal that is timely leaves two calls to the end of the lease.
LEMMA TimelyEnds ==
  ASSUME NEW g \in Grants, NEW w \in Waits(g), Timely(g, w)
  PROVE  g.ttl > w + 2 * Call
  BY CallsAssumption, WaitsType DEF Timely

----------------------------------------------------------------------------
(* Types.                                                                   *)

\* What the loop's places, clocks and credentials range over.
Places ==
  /\ left \in [Ids -> Nat]
  /\ file \in Ids \cup {None} /\ lease.id \in Ids \cup {None}
  /\ slot \in Ids \cup {None} /\ withheld \in Ids \cup {None}
  /\ lease.ttl \in Nat /\ period \in Nat /\ renewal \in 0..period
  /\ pc \in {"down", "fetching", "select", "renewing", "reissuing", "reopening", "revoking", "stopped"}
  /\ pc \in {"renewing", "reissuing", "revoking"} => lease.id # None
  /\ waited \in 0..(IF Call < Reopen THEN Reopen ELSE Call)
  /\ budget \in 0..Budget

Flags == admitted \in BOOLEAN /\ kept \in BOOLEAN /\ lease.renewable \in BOOLEAN

LEMMA TypeParts == Places /\ Flags <=> TypeOK
  BY Spare DEF Places, Flags, TypeOK, Known

LEMMA InitPlaces == Init => Places
  BY DEF Init, Places, NoLease, None

LEMMA NoLeaseIsTyped == NoLease.renewable \in BOOLEAN
  BY DEF NoLease

LEMMA InitFlags == Init => Flags
  BY NoLeaseIsTyped, Zenon DEF Init, Flags

LEMMA FreshIsTyped ==
  ASSUME Places
  PROVE  Fresh \in Ids /\ Fresh \notin Known /\ Fresh # None
  BY FreshIsSpare, Spare DEF Places, Known

LEMMA StorePlaces ==
  ASSUME Places, Tick \/ CohortMoves \/ \E g \in Grants : WatchDelivers(g)
  PROVE  Places'
  <1> USE DEF Places, Spend, memory, timer
  <1>1. CASE Tick
    <2>1. left' \in [Ids -> Nat]
      BY <1>1 DEF Tick
    <2>2. renewal' \in 0..period' /\ waited' \in 0..(IF Call < Reopen THEN Reopen ELSE Call)
      BY <1>1 DEF Tick
    <2> QED BY <1>1, <2>1, <2>2 DEF Tick
  <1>2. CASE CohortMoves
    BY <1>2 DEF CohortMoves
  <1>3. ASSUME NEW g \in Grants, WatchDelivers(g) PROVE Places'
    BY <1>3, FreshIsTyped, MintedType DEF WatchDelivers
  <1> QED BY <1>1, <1>2, <1>3

LEMMA StartPlaces ==
  ASSUME Places, Starts \/ FirstFails
  PROVE  Places'
  BY DEF Places, Starts, FirstFails, Spend, Awaits, memory, store

LEMMA IssuePlaces ==
  ASSUME Places, NEW g \in Grants, NEW w, FirstFetched(g, w) \/ Renewed(g, w) \/ Reissued(g, w)
  PROVE  Places'
  <1>1. w \in Waits(g)
    BY DEF FirstFetched, Renewed, Reissued, Scheduled
  <1>2. w \in Nat /\ g.ttl \in Nat
    BY <1>1, WaitsType
  <1>3. Fresh \in Ids /\ Fresh # None /\ Minted(Fresh, g) \in [Ids -> Nat]
    BY FreshIsTyped, MintedType DEF Places
  <1> USE <1>2, <1>3 DEF Places, Held, Awaits
  <1>4. CASE FirstFetched(g, w)
    BY <1>4 DEF FirstFetched
  <1>5. CASE Renewed(g, w)
    BY <1>5 DEF Renewed
  <1>6. CASE Reissued(g, w)
    BY <1>6 DEF Reissued, Arrives, Spend
  <1> QED BY <1>4, <1>5, <1>6

LEMMA DeliveryPlaces ==
  ASSUME Places, Delivers \/ CanaryTicks
  PROVE  Places'
  BY DEF Places, Delivers, CanaryTicks, Arrives, Spend, timer, store

LEMMA RenewalPlaces ==
  ASSUME Places, RenewalDue \/ RenewFails \/ ReissueFails
  PROVE  Places'
  BY DEF Places, RenewalDue, RenewFails, ReissueFails, Due, AfterRefusal, Awaits, Spend,
         memory, store

LEMMA EndPlaces ==
  ASSUME Places, WatchEnds \/ Reopens \/ Rebuilds \/ Crashes \/ Stops \/ Revoked \/ RevokeFails
  PROVE  Places'
  <1> USE DEF Places, Awaits, Spend, memory, store
  <1>1. CASE WatchEnds \/ Reopens
    BY <1>1 DEF WatchEnds, Reopens
  <1>2. CASE Rebuilds \/ Crashes
    BY <1>2 DEF Rebuilds, Crashes, Forgets, NoLease, None
  <1>3. CASE Stops
    BY <1>3 DEF Stops
  <1>4. CASE Revoked \/ RevokeFails
    BY <1>4 DEF Revoked, RevokeFails
  <1> QED BY <1>1, <1>2, <1>3, <1>4

LEMMA PlacesStep == Places /\ [Next]_vars => Places'
  <1>1. Places /\ UNCHANGED vars => Places'
    BY DEF Places, vars
  <1>2. Places /\ Issues => Places'
    BY IssuePlaces DEF Issues
  <1> QED
    BY <1>1, <1>2, StorePlaces, StartPlaces, DeliveryPlaces, RenewalPlaces, EndPlaces DEF Next

LEMMA FlagsStep == Flags /\ [Next]_vars => Flags'
  <1> SUFFICES ASSUME Flags, [Next]_vars PROVE Flags'
    OBVIOUS
  <1> USE DEF Flags, memory, timer, store
  <1>1. CASE Tick
    BY <1>1, Zenon DEF Tick
  <1>2. CASE CohortMoves
    BY <1>2, Zenon DEF CohortMoves
  <1>3. CASE \E g \in Grants : WatchDelivers(g)
    BY <1>3, Zenon DEF WatchDelivers
  <1>4. CASE Starts \/ FirstFails
    BY <1>4, Zenon DEF Starts, FirstFails
  <1>5. CASE Issues
    <2> PICK g \in Grants, w \in WaitsEver : FirstFetched(g, w) \/ Renewed(g, w) \/ Reissued(g, w)
      BY <1>5, Zenon DEF Issues
    <2>1. g.renewable \in BOOLEAN
      OBVIOUS
    <2>2. Timely(g, w) \in BOOLEAN
      BY <2>1, Zenon DEF Timely
    <2>3. Held(Fresh, g).renewable = g.renewable /\ Held(lease.id, g).renewable = g.renewable
      BY DEF Held
    <2>4. CASE FirstFetched(g, w)
      BY <2>1, <2>2, <2>3, <2>4, Zenon DEF FirstFetched
    <2>5. CASE Renewed(g, w)
      BY <2>1, <2>2, <2>3, <2>5, Zenon DEF Renewed
    <2>6. CASE Reissued(g, w)
      BY <2>1, <2>2, <2>3, <2>6, Zenon DEF Reissued, Arrives
    <2> QED BY <2>4, <2>5, <2>6, Zenon
  <1>6. CASE Delivers \/ CanaryTicks
    BY <1>6, Zenon DEF Delivers, CanaryTicks, Arrives
  <1>7. CASE RenewalDue \/ RenewFails \/ ReissueFails
    BY <1>7, Zenon DEF RenewalDue, RenewFails, ReissueFails
  <1>8. CASE WatchEnds \/ Reopens
    BY <1>8, Zenon DEF WatchEnds, Reopens
  <1>9. CASE Rebuilds \/ Crashes
    BY <1>9, NoLeaseIsTyped, Zenon DEF Rebuilds, Crashes, Forgets
  <1>10. CASE Stops \/ Revoked \/ RevokeFails
    BY <1>10, Zenon DEF Stops, Revoked, RevokeFails
  <1>11. CASE UNCHANGED vars
    BY <1>11, Zenon DEF vars
  <1> QED
    BY <1>1, <1>2, <1>3, <1>4, <1>5, <1>6, <1>7, <1>8, <1>9, <1>10, <1>11, Zenon DEF Next

\* Whatever the calls, deliveries, cohorts, crashes and runs, every variable of
\* the loop keeps its type, it awaits an answer about a lease only while it has
\* one, and the store has a credential left to issue.
THEOREM LeaseTyped == Spec => []TypeOK
  <1>1. Spec => []Places
    BY InitPlaces, PlacesStep, PTL DEF Spec
  <1>2. Spec => []Flags
    BY InitFlags, FlagsStep, PTL DEF Spec
  <1> QED BY <1>1, <1>2, TypeParts, PTL

----------------------------------------------------------------------------
(* ServedAlive.                                                             *)

\* What is kept outlives what is awaited.
KeepInv == Keeping /\ Waited

LEMMA KeptIsServed == Places /\ KeepInv => ServedAlive
  BY DEF Places, KeepInv, Keeping, Waited, Margin, ServedAlive, None

LEMMA InitKeep == Init => KeepInv
  BY Zenon DEF Init, KeepInv, Keeping, Waited

\* Nothing is said of what is not kept.
LEMMA NotKept ==
  ASSUME kept' = FALSE, Waited'
  PROVE  KeepInv'
  BY Zenon DEF KeepInv, Keeping

\* Time takes from the credential what it takes from the wait for the timer,
\* or from what is still to wait for an answer.
LEMMA TickKeeps ==
  ASSUME Places, KeepInv, Tick
  PROVE  KeepInv'
  <1>1. Waited'
    BY DEF Tick, Waited, Places
  <1>2. kept' = kept
    BY DEF Tick
  <1>3. ASSUME kept PROVE
           /\ pc' \in {"select", "renewing", "reissuing", "revoking", "stopped"}
           /\ lease'.id \in Ids /\ file' = lease'.id
    BY <1>3 DEF Tick, KeepInv, Keeping
  <1>4. ASSUME kept PROVE Margin'
    <2>1. file \in Ids /\ file # None /\ Margin /\ file' = file /\ pc' = pc /\ lease.id # None
      BY <1>4 DEF Tick, KeepInv, Keeping, None
    <2>2. left[file] \in Nat /\ left'[file] = IF left[file] = 0 THEN 0 ELSE left[file] - 1
      BY <2>1 DEF Tick, Places
    <2>3. CASE pc = "select"
      <3>1. renewal # 0
        BY <2>1, <2>3 DEF Tick, Due
      <3> QED BY <2>1, <2>2, <2>3, <3>1 DEF Tick, Margin, Places
    <2>4. CASE pc \in {"renewing", "reissuing"}
      <3>1. waited < Call /\ waited' = waited + 1
        BY <2>4 DEF Tick
      <3> QED BY <2>1, <2>2, <2>4, <3>1 DEF Margin, Places
    <2>5. CASE pc \notin {"select", "renewing", "reissuing"}
      BY <2>1, <2>2, <2>5 DEF Margin
    <2> QED BY <2>3, <2>4, <2>5
  <1> QED BY <1>1, <1>2, <1>3, <1>4, Zenon DEF KeepInv, Keeping

\* Another credential is minted, a failed write or a held document leaves file,
\* lease and timer as they were.
LEMMA SameKeeps ==
  ASSUME Places, KeepInv,
         UNCHANGED <<file, lease, renewal, pc, waited>>, kept' = kept \/ kept' = FALSE,
         file \in Ids => left'[file] = left[file]
  PROVE  KeepInv'
  <1>1. Waited'
    BY DEF KeepInv, Waited
  <1>2. CASE kept' = FALSE
    BY <1>1, <1>2, NotKept
  <1>3. CASE kept' = kept
    <2>1. ASSUME kept PROVE
           /\ pc' \in {"select", "renewing", "reissuing", "revoking", "stopped"}
           /\ lease'.id \in Ids /\ file' = lease'.id /\ Margin'
      BY <2>1 DEF KeepInv, Keeping, Margin
    <2> QED BY <1>1, <1>3, <2>1, Zenon DEF KeepInv, Keeping
  <1> QED BY <1>2, <1>3

LEMMA StoreKeeps ==
  ASSUME Places, KeepInv, CohortMoves \/ \E g \in Grants : WatchDelivers(g)
  PROVE  KeepInv'
  <1>1. CASE CohortMoves
    BY <1>1, SameKeeps DEF CohortMoves, memory
  <1>2. ASSUME NEW g \in Grants, WatchDelivers(g) PROVE KeepInv'
    <2>1. file \in Ids => left'[file] = left[file]
      BY <1>2, FreshIsTyped DEF WatchDelivers, Minted, Known
    <2>2. UNCHANGED <<file, lease, renewal, pc, waited, kept>>
      BY <1>2 DEF WatchDelivers, timer
    <2> QED BY <2>1, <2>2, SameKeeps
  <1> QED BY <1>1, <1>2

LEMMA StartKeeps ==
  ASSUME Places, KeepInv, Starts \/ FirstFails
  PROVE  KeepInv'
  <1>1. Waited'
    BY DEF Starts, FirstFails, Awaits, Waited
  <1>2. ~kept
    BY DEF Starts, FirstFails, KeepInv, Keeping
  <1>3. kept' = kept
    BY DEF Starts, FirstFails
  <1> QED BY <1>1, <1>2, <1>3, Zenon DEF KeepInv, Keeping

\* What has just been granted outlives the wait for its renewal and two calls,
\* unless that wait was drawn too long.
LEMMA GrantedKeeps ==
  ASSUME NEW g \in Grants, NEW w \in Waits(g), kept' => Timely(g, w),
         kept' => lease'.id \in Ids /\ file' = lease'.id /\ left'[file'] = g.ttl,
         renewal' = w, pc' = "select"
  PROVE  KeepInv'
  <1>1. Waited'
    BY DEF Waited
  <1>2. ASSUME kept' PROVE Margin'
    BY <1>2, TimelyEnds DEF Margin
  <1> QED BY <1>1, <1>2 DEF KeepInv, Keeping

LEMMA IssueKeeps ==
  ASSUME Places, KeepInv, NEW g \in Grants, NEW w,
         FirstFetched(g, w) \/ Renewed(g, w) \/ Reissued(g, w)
  PROVE  KeepInv'
  <1>1. w \in Waits(g) /\ renewal' = w /\ pc' = "select"
    BY DEF FirstFetched, Renewed, Reissued, Scheduled, Awaits
  <1>2. Fresh \in Ids
    BY FreshIsTyped
  <1>3. Minted(Fresh, g)[Fresh] = g.ttl
    BY <1>2 DEF Minted
  <1>4. CASE FirstFetched(g, w)
    <2>1. lease'.id = Fresh /\ file' = Fresh /\ left'[Fresh] = g.ttl
      BY <1>3, <1>4 DEF FirstFetched, Held
    <2>2. kept' = Timely(g, w)
      BY <1>4 DEF FirstFetched
    <2> QED BY <1>1, <1>2, <2>1, <2>2, GrantedKeeps
  <1>5. CASE Renewed(g, w)
    <2>1. lease.id \in Ids
      BY <1>5 DEF Renewed, Places
    <2>2. lease'.id = lease.id /\ file' = file /\ left'[lease.id] = g.ttl
      BY <1>5, <2>1 DEF Renewed, Held, Places
    <2>3. kept' = (file = lease.id /\ Timely(g, w))
      BY <1>5 DEF Renewed
    <2> QED BY <1>1, <2>1, <2>2, <2>3, GrantedKeeps
  <1>6. CASE Reissued(g, w)
    <2>1. lease'.id = Fresh /\ left'[Fresh] = g.ttl
      BY <1>3, <1>6 DEF Reissued, Held
    <2>2. (file' = Fresh /\ kept' = Timely(g, w)) \/ kept' = FALSE
      BY <1>6 DEF Reissued, Arrives
    <2>3. CASE file' = Fresh /\ kept' = Timely(g, w)
      BY <1>1, <1>2, <2>1, <2>3, GrantedKeeps
    <2>4. CASE kept' = FALSE
      <3>1. Waited'
        BY <1>1 DEF Waited
      <3> QED BY <2>4, <3>1, NotKept
    <2> QED BY <2>2, <2>3, <2>4
  <1> QED BY <1>4, <1>5, <1>6

LEMMA DeliveryKeeps ==
  ASSUME Places, KeepInv, Delivers \/ CanaryTicks
  PROVE  KeepInv'
  <1>1. UNCHANGED <<lease, renewal, pc, waited, left>>
    BY DEF Delivers, CanaryTicks, timer, store
  <1>2. kept' = FALSE \/ (kept' = kept /\ file' = file)
    BY Zenon DEF Delivers, CanaryTicks, Arrives
  <1>3. CASE kept' = FALSE
    BY <1>1, <1>3, NotKept DEF KeepInv, Waited
  <1>4. CASE kept' = kept /\ file' = file
    BY <1>1, <1>4, SameKeeps
  <1> QED BY <1>2, <1>3, <1>4

\* A renewal that is due, and one that is refused, find the margin untouched.
LEMMA RenewalKeeps ==
  ASSUME Places, KeepInv, RenewalDue \/ RenewFails \/ ReissueFails
  PROVE  KeepInv'
  <1>1. Waited'
    BY DEF RenewalDue, RenewFails, ReissueFails, Awaits, AfterRefusal, Waited
  <1>2. CASE ReissueFails
    BY <1>1, <1>2, NotKept DEF ReissueFails
  <1>3. CASE RenewalDue
    <2>1. kept' = kept /\ UNCHANGED <<file, lease, left>> /\ waited' = 0
      BY <1>3 DEF RenewalDue, Awaits, store
    <2>2. pc' \in {"renewing", "reissuing"}
      BY <1>3 DEF RenewalDue, Awaits
    <2>3. ASSUME kept PROVE lease'.id \in Ids /\ file' = lease'.id /\ Margin'
      <3>1. lease.id \in Ids /\ file = lease.id /\ left[file] > 2 * Call
        BY <1>3, <2>3 DEF RenewalDue, Due, KeepInv, Keeping, Margin, Places
      <3>2. left[file] \in Nat
        BY <3>1 DEF Places
      <3> QED BY <2>1, <2>2, <3>1, <3>2 DEF Margin
    <2> QED BY <1>1, <2>1, <2>2, <2>3 DEF KeepInv, Keeping
  <1>4. CASE RenewFails
    <2>1. kept' = kept /\ UNCHANGED <<file, lease, left>> /\ waited' = 0 /\ pc' = "reissuing"
      BY <1>4 DEF RenewFails, Awaits, AfterRefusal, memory, store
    <2>2. ASSUME kept PROVE lease'.id \in Ids /\ file' = lease'.id /\ Margin'
      <3>1. lease.id \in Ids /\ file = lease.id /\ left[file] + waited > 2 * Call /\ waited <= Call
        BY <1>4, <2>2 DEF RenewFails, KeepInv, Keeping, Waited, Margin
      <3>2. left[file] \in Nat /\ waited \in Nat
        BY <3>1 DEF Places
      <3> QED BY <2>1, <3>1, <3>2 DEF Margin
    <2> QED BY <1>1, <2>1, <2>2 DEF KeepInv, Keeping
  <1> QED BY <1>2, <1>3, <1>4

LEMMA EndKeeps ==
  ASSUME Places, KeepInv,
         WatchEnds \/ Reopens \/ Rebuilds \/ Crashes \/ Stops \/ Revoked \/ RevokeFails
  PROVE  KeepInv'
  <1>1. Waited'
    BY DEF WatchEnds, Reopens, Rebuilds, Crashes, Stops, Revoked, RevokeFails, Awaits, Waited
  <1>2. CASE WatchEnds \/ Rebuilds \/ Crashes \/ RevokeFails
    BY <1>1, <1>2, NotKept DEF WatchEnds, Rebuilds, Crashes, Forgets, RevokeFails
  <1>3. CASE Reopens
    <2>1. ~kept /\ kept' = kept
      BY <1>3, Zenon DEF Reopens, KeepInv, Keeping
    <2> QED BY <1>1, <2>1, Zenon DEF KeepInv, Keeping
  <1>4. CASE Stops
    <2>1. kept' = FALSE \/ (kept' = kept /\ pc' = "revoking")
      BY <1>4, Zenon DEF Stops, Awaits
    <2>2. CASE kept' = FALSE
      BY <1>1, <2>2, NotKept
    <2>3. CASE kept' = kept /\ pc' = "revoking"
      <3>1. UNCHANGED <<file, lease>>
        BY <1>4 DEF Stops, memory
      <3>2. ASSUME kept PROVE lease'.id \in Ids /\ file' = lease'.id /\ Margin'
        BY <2>3, <3>1, <3>2 DEF KeepInv, Keeping, Margin
      <3> QED BY <1>1, <2>3, <3>2 DEF KeepInv, Keeping
    <2> QED BY <2>1, <2>2, <2>3
  <1>5. CASE Revoked
    <2>1. kept' = kept /\ UNCHANGED <<file, lease>> /\ pc' = "stopped"
      BY <1>5 DEF Revoked, Awaits, memory
    <2>2. ASSUME kept PROVE lease'.id \in Ids /\ file' = lease'.id /\ Margin'
      BY <1>5, <2>1, <2>2 DEF Revoked, KeepInv, Keeping, Margin, Places
    <2> QED BY <1>1, <2>1, <2>2 DEF KeepInv, Keeping
  <1> QED BY <1>2, <1>3, <1>4, <1>5

LEMMA KeepStep == Places /\ KeepInv /\ [Next]_vars => KeepInv'
  <1>1. Places /\ KeepInv /\ UNCHANGED vars => KeepInv'
    BY SameKeeps DEF vars
  <1>2. Places /\ KeepInv /\ Issues => KeepInv'
    BY IssueKeeps DEF Issues
  <1> QED
    BY <1>1, <1>2, TickKeeps, StoreKeeps, StartKeeps, DeliveryKeeps, RenewalKeeps, EndKeeps DEF Next

\* While nothing has gone wrong since the kept lease's credential came to the
\* file - and a refused renewal, a delivery that is not written and a cohort
\* that moves are nothing of the kind - it stays in the file and alive until the
\* loop is told to stop, and a loop that has stopped has handed it back.
THEOREM KeptStaysAlive == Spec => []ServedAlive
  <1>1. Spec => []Places
    BY InitPlaces, PlacesStep, PTL DEF Spec
  <1>2. Spec => []KeepInv
    BY <1>1, InitKeep, KeepStep, PTL DEF Spec
  <1> QED BY <1>1, <1>2, KeptIsServed, PTL

=============================================================================
