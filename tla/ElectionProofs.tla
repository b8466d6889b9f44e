--------------------------- MODULE ElectionProofs ---------------------------
(***************************************************************************)
(* What Election keeps true for any replicas, terms, delays and clocks: its *)
(* types, and the two bounds on how long two replicas can both lead.        *)
(***************************************************************************)
EXTENDS Election, TLAPS

\* What the clocks of one replica can have come to, wherever its claim is.
Timed(r) ==
  /\ at[r] = "down" => stamp[r] = 0
  /\ at[r] = "polling" => timer[r] <= Poll
  /\ at[r] = "sleeping" => timer[r] <= Renew
  /\ at[r] \in Calling => timer[r] <= Call
  /\ at[r] = "asking" => stamp[r] <= timer[r]
  /\ at[r] \in {"writing", "written"} => stamp[r] <= Call + timer[r]

\* How long a leader can have been without a confirmed renewal.
HeldWithin(r) ==
  r \in leads =>
    /\ at[r] = "sleeping" => held[r] + 1 <= Term + timer[r]
    /\ at[r] = "asking" => held[r] + 1 <= Term + Renew + timer[r]
    /\ at[r] \in {"writing", "written"} => held[r] + 1 <= Term + Renew + Call + timer[r]

\* The lease is no older than any leader's last confirmed renewal.
Aged(r) == r \in leads => lease.holder # None /\ lease.age <= held[r] + 2 * Call

\* A write that was taken is still the lease when it is answered.
Taken(r) == at[r] = "written" => lease.holder = r /\ lease.age <= stamp[r]

\* A write that will be taken found the lease over.
Founded(r) ==
  (at[r] = "writing" /\ r \in current /\ lease.holder \notin {None, r}) =>
    /\ lease.age + Skew >= Term + 1
    /\ stamp[r] + Term + 1 <= lease.age + Skew + Call

\* A leader whose lease another has taken has been unconfirmed for a term.
Overtaken(r) ==
  (r \in leads /\ lease.holder # r) =>
    /\ held[r] + 2 * Call + Skew > Term
    /\ lease.tenure + Term + 1 <= held[r] + 3 * Call + Skew

Inv ==
  /\ Typing
  /\ \A r \in Replicas : Timed(r) /\ HeldWithin(r)
  /\ \A r \in Replicas : Aged(r) /\ Taken(r) /\ Founded(r) /\ Overtaken(r)

(***************************************************************************)
(* Each action keeps Inv.  The first two are about the ends of a claim that *)
(* several actions share.                                                   *)
(***************************************************************************)
\* A process that ends.
LEMMA EndsKeeps ==
  ASSUME Inv, NEW r \in Replicas, Ends(r), UNCHANGED lease
  PROVE  Inv'
<1>1. Typing'
  BY TimesAssumption, TermAssumption, AheadAssumption, NoneAssumption
  DEF Inv, Typing, Calling, Ends, Goes
<1>2. \A q \in Replicas : Timed(q)' /\ HeldWithin(q)'
  BY TimesAssumption, TermAssumption, AheadAssumption, NoneAssumption
  DEF Inv, Typing, Calling, Timed, HeldWithin, Ends, Goes
<1>3. \A q \in Replicas : Aged(q)' /\ Taken(q)'
  BY TimesAssumption, TermAssumption, AheadAssumption, NoneAssumption
  DEF Inv, Typing, Calling, Timed, Aged, Taken, Ends, Goes
<1>4. \A q \in Replicas : Founded(q)'
  BY TimesAssumption, TermAssumption, AheadAssumption, NoneAssumption
  DEF Inv, Typing, Calling, Timed, Founded, Ends, Goes
<1>5. \A q \in Replicas : Overtaken(q)'
  BY TimesAssumption, TermAssumption, AheadAssumption, NoneAssumption
  DEF Inv, Typing, Calling, Timed, Aged, Founded, Overtaken, Ends, Goes
<1> QED  BY <1>1, <1>2, <1>3, <1>4, <1>5 DEF Inv

\* Time passing: nothing is due, and every age moves together.
LEMMA TickKeeps ==
  ASSUME Inv, Tick
  PROVE  Inv'
<1> USE TimesAssumption
<1>1. /\ lease.age \in 0..Cap /\ lease.tenure \in 0..Cap /\ lease'.holder = lease.holder
      /\ lease'.age \in 0..Cap /\ lease.age <= lease'.age /\ lease'.age <= lease.age + 1
      /\ lease'.tenure \in 0..Cap /\ lease'.tenure <= lease.tenure + 1
      /\ lease'.age = lease.age + 1 \/ lease'.age = Cap
  BY DEF Inv, Typing, Tick, Older
<1>2. ASSUME NEW q \in Replicas
      PROVE  /\ timer[q] \in Nat /\ stamp[q] \in Nat /\ held[q] \in Nat
             /\ timer'[q] = IF at[q] = "down" THEN 0 ELSE timer[q] + 1
             /\ stamp'[q] = IF at[q] \in Calling THEN stamp[q] + 1 ELSE 0
             /\ held'[q] = IF q \in leads THEN held[q] + 1 ELSE 0
             /\ at[q] = "polling" => timer[q] # Poll
             /\ at[q] = "sleeping" => timer[q] # Renew
             /\ at[q] \in Calling => timer[q] # Call
  BY <1>2 DEF Inv, Typing, Tick, Due, SleepOver
<1>3. UNCHANGED <<current, at, leads>>
  BY DEF Tick
<1>4. Typing'
  <2>1. lease' \in [holder : Replicas \cup {None}, age : 0..Cap, tenure : 0..Cap]
    BY <1>1 DEF Inv, Typing, Tick
  <2>2. /\ timer' \in [Replicas -> Nat] /\ stamp' \in [Replicas -> Nat]
        /\ held' \in [Replicas -> Nat]
    BY <1>2 DEF Tick
  <2> QED  BY <1>3, <2>1, <2>2 DEF Inv, Typing
<1>5. \A q \in Replicas : Timed(q)' /\ HeldWithin(q)'
  <2> SUFFICES ASSUME NEW q \in Replicas PROVE Timed(q)' /\ HeldWithin(q)'
    OBVIOUS
  <2>1. Timed(q) /\ HeldWithin(q)
    BY DEF Inv
  <2> QED  BY <1>2, <1>3, <2>1 DEF Timed, HeldWithin, Calling
<1>6. \A q \in Replicas : Aged(q)' /\ Taken(q)'
  <2> SUFFICES ASSUME NEW q \in Replicas PROVE Aged(q)' /\ Taken(q)'
    OBVIOUS
  <2>1. Aged(q) /\ Taken(q)
    BY DEF Inv
  <2> QED  BY <1>1, <1>2, <1>3, <2>1 DEF Aged, Taken, Calling
<1>7. \A q \in Replicas : Founded(q)'
  <2> SUFFICES ASSUME NEW q \in Replicas PROVE Founded(q)'
    OBVIOUS
  <2>1. Founded(q) /\ Timed(q)
    BY DEF Inv
  <2> QED  BY <1>1, <1>2, <1>3, <2>1 DEF Founded, Timed, Calling
<1>8. \A q \in Replicas : Overtaken(q)'
  <2> SUFFICES ASSUME NEW q \in Replicas PROVE Overtaken(q)'
    OBVIOUS
  <2>1. Overtaken(q)
    BY DEF Inv
  <2> QED  BY <1>1, <1>2, <1>3, <2>1 DEF Overtaken
<1> QED  BY <1>4, <1>5, <1>6, <1>7, <1>8 DEF Inv

\* A process that starts.
LEMMA StartKeeps ==
  ASSUME Inv, NEW r \in Replicas, Start(r)
  PROVE  Inv'
<1>1. Typing'
  BY TimesAssumption, TermAssumption, AheadAssumption, NoneAssumption
  DEF Inv, Typing, Calling, Start, Goes
<1>2. \A q \in Replicas : Timed(q)' /\ HeldWithin(q)'
  BY TimesAssumption, TermAssumption, AheadAssumption, NoneAssumption
  DEF Inv, Typing, Calling, Timed, HeldWithin, Start, Goes
<1>3. \A q \in Replicas : Aged(q)' /\ Taken(q)'
  BY TimesAssumption, TermAssumption, AheadAssumption, NoneAssumption
  DEF Inv, Typing, Calling, Timed, Aged, Taken, Start, Goes
<1>4. \A q \in Replicas : Founded(q)'
  BY TimesAssumption, TermAssumption, AheadAssumption, NoneAssumption
  DEF Inv, Typing, Calling, Timed, Founded, Start, Goes
<1>5. \A q \in Replicas : Overtaken(q)'
  BY TimesAssumption, TermAssumption, AheadAssumption, NoneAssumption
  DEF Inv, Typing, Calling, Timed, Aged, Founded, Overtaken, Start, Goes
<1> QED  BY <1>1, <1>2, <1>3, <1>4, <1>5 DEF Inv

\* A sleep that is over.
LEMMA AsksKeeps ==
  ASSUME Inv, NEW r \in Replicas, Asks(r)
  PROVE  Inv'
<1>1. Typing'
  BY TimesAssumption, TermAssumption, AheadAssumption, NoneAssumption
  DEF Inv, Typing, Calling, Asks, Goes, SleepOver
<1>2. \A q \in Replicas : Timed(q)' /\ HeldWithin(q)'
  BY TimesAssumption, TermAssumption, AheadAssumption, NoneAssumption
  DEF Inv, Typing, Calling, Timed, HeldWithin, Asks, Goes, SleepOver
<1>3. \A q \in Replicas : Aged(q)' /\ Taken(q)'
  BY TimesAssumption, TermAssumption, AheadAssumption, NoneAssumption
  DEF Inv, Typing, Calling, Timed, Aged, Taken, Asks, Goes, SleepOver
<1>4. \A q \in Replicas : Founded(q)'
  BY TimesAssumption, TermAssumption, AheadAssumption, NoneAssumption
  DEF Inv, Typing, Calling, Timed, Founded, Asks, Goes, SleepOver
<1>5. \A q \in Replicas : Overtaken(q)'
  BY TimesAssumption, TermAssumption, AheadAssumption, NoneAssumption
  DEF Inv, Typing, Calling, Timed, Aged, Founded, Overtaken, Asks, Goes, SleepOver
<1> QED  BY <1>1, <1>2, <1>3, <1>4, <1>5 DEF Inv

\* A claim that goes on to write.
LEMMA ReadsKeeps ==
  ASSUME Inv, NEW r \in Replicas, Reads(r)
  PROVE  Inv'
<1>1. Typing'
  BY TimesAssumption, TermAssumption, AheadAssumption, NoneAssumption
  DEF Inv, Typing, Calling, Reads, Goes, Claimable, Expired
<1>2. \A q \in Replicas : Timed(q)' /\ HeldWithin(q)'
  BY TimesAssumption, TermAssumption, AheadAssumption, NoneAssumption
  DEF Inv, Typing, Calling, Timed, HeldWithin, Reads, Goes, Claimable, Expired
<1>3. \A q \in Replicas : Aged(q)' /\ Taken(q)'
  BY TimesAssumption, TermAssumption, AheadAssumption, NoneAssumption
  DEF Inv, Typing, Calling, Timed, Aged, Taken, Reads, Goes, Claimable, Expired
<1>4. \A q \in Replicas : Founded(q)'
  <2>1. ASSUME NEW q \in Replicas, q # r PROVE Founded(q)'
    BY <2>1 DEF Inv, Typing, Founded, Reads, Goes
  <2>2. Founded(r)'
    <3> SUFFICES ASSUME lease.holder \notin {None, r}
                 PROVE  /\ lease.age + Skew >= Term + 1
                        /\ stamp[r] + Term + 1 <= lease.age + Skew + Call
      BY DEF Founded, Reads
    <3>1. lease.holder \in Replicas /\ lease.age + Ahead[r] - Ahead[lease.holder] > Term
      BY DEF Inv, Typing, Reads, Claimable, Expired
    <3>2. Ahead[r] - Ahead[lease.holder] <= Skew /\ Ahead[r] \in Int /\ Ahead[lease.holder] \in Int
      BY <3>1, AheadAssumption
    <3>3. stamp[r] <= Call
      BY TimesAssumption DEF Inv, Typing, Calling, Timed, Reads
    <3> QED  BY <3>1, <3>2, <3>3, TimesAssumption DEF Inv, Typing
  <2> QED  BY <2>1, <2>2
<1>5. \A q \in Replicas : Overtaken(q)'
  BY TimesAssumption, TermAssumption, AheadAssumption, NoneAssumption
  DEF Inv, Typing, Calling, Timed, Aged, Founded, Overtaken, Reads, Goes, Claimable, Expired
<1> QED  BY <1>1, <1>2, <1>3, <1>4, <1>5 DEF Inv

\* A write that is taken: the lease it found was over, so nobody else's write
\* is waiting to be answered.
LEMMA AppliesKeeps ==
  ASSUME Inv, NEW r \in Replicas, Applies(r)
  PROVE  Inv'
<1>1. stamp[r] \in Nat /\ stamp[r] <= 2 * Call
  BY TimesAssumption DEF Inv, Typing, Calling, Timed, Applies
<1>2. /\ lease'.holder = r /\ lease'.age = stamp[r]
      /\ lease'.tenure = IF lease.holder = r THEN lease.tenure ELSE stamp[r]
  BY DEF Applies
<1>3. Typing'
  BY <1>1, <1>2, TimesAssumption DEF Inv, Typing, Calling, Applies
<1>4. \A q \in Replicas : Timed(q)' /\ HeldWithin(q)'
  BY TimesAssumption DEF Inv, Typing, Calling, Timed, HeldWithin, Applies
<1>5. \A q \in Replicas : Aged(q)'
  BY <1>1, <1>2, TimesAssumption, NoneAssumption DEF Inv, Typing, Aged, Applies
<1>6. \A q \in Replicas : Taken(q)'
  <2> SUFFICES ASSUME NEW q \in Replicas, q # r, at[q] = "written" PROVE FALSE
    BY <1>2 DEF Inv, Typing, Taken, Applies
  <2>1. lease.holder = q /\ lease.age <= stamp[q] /\ stamp[q] <= 2 * Call
    BY TimesAssumption DEF Inv, Typing, Calling, Timed, Taken
  <2>2. stamp[r] + Term + 1 <= lease.age + Skew + Call
    BY <2>1, NoneAssumption DEF Inv, Founded, Applies, Fenced
  <2> QED  BY <1>1, <2>1, <2>2, TimesAssumption, TermAssumption DEF Inv, Typing
<1>7. \A q \in Replicas : Founded(q)'
  BY DEF Founded, Applies
<1>8. \A q \in Replicas : Overtaken(q)'
  <2> SUFFICES ASSUME NEW q \in Replicas, q \in leads, q # r
               PROVE  /\ held[q] + 2 * Call + Skew > Term
                      /\ lease'.tenure + Term + 1 <= held[q] + 3 * Call + Skew
    BY <1>2 DEF Overtaken, Applies
  <2>1. CASE lease.holder = r
    BY <1>2, <2>1 DEF Inv, Overtaken
  <2>2. CASE lease.holder # r
    <3>1. lease.holder # None /\ lease.age <= held[q] + 2 * Call
      BY DEF Inv, Aged
    <3>2. /\ lease.age + Skew >= Term + 1
          /\ stamp[r] + Term + 1 <= lease.age + Skew + Call
      BY <2>2, <3>1 DEF Inv, Founded, Applies, Fenced
    <3> QED  BY <1>1, <1>2, <2>2, <3>1, <3>2, TimesAssumption DEF Inv, Typing
  <2> QED  BY <2>1, <2>2
<1> QED  BY <1>3, <1>4, <1>5, <1>6, <1>7, <1>8 DEF Inv

\* A claim that answers yes.
LEMMA AnsweredKeeps ==
  ASSUME Inv, NEW r \in Replicas, Answered(r)
  PROVE  Inv'
<1>1. Typing'
  BY TimesAssumption, TermAssumption, AheadAssumption, NoneAssumption
  DEF Inv, Typing, Calling, Answered, Goes
<1>2. \A q \in Replicas : Timed(q)' /\ HeldWithin(q)'
  BY TimesAssumption, TermAssumption, AheadAssumption, NoneAssumption
  DEF Inv, Typing, Calling, Timed, HeldWithin, Answered, Goes
<1>3. \A q \in Replicas : Aged(q)' /\ Taken(q)'
  BY TimesAssumption, TermAssumption, AheadAssumption, NoneAssumption
  DEF Inv, Typing, Calling, Timed, Aged, Taken, Answered, Goes
<1>4. \A q \in Replicas : Founded(q)'
  BY TimesAssumption, TermAssumption, AheadAssumption, NoneAssumption
  DEF Inv, Typing, Calling, Timed, Founded, Answered, Goes
<1>5. \A q \in Replicas : Overtaken(q)'
  BY TimesAssumption, TermAssumption, AheadAssumption, NoneAssumption
  DEF Inv, Typing, Calling, Timed, Aged, Taken, Overtaken, Answered, Goes
<1> QED  BY <1>1, <1>2, <1>3, <1>4, <1>5 DEF Inv

\* A claim that is denied or fails and leaves its process alive: it only goes
\* back to sleep, and forgets the version it read.
LEMMA BacksOffKeeps ==
  ASSUME Inv, NEW r \in Replicas, NEW to \in {"polling", "sleeping"}, Goes(r, to),
         at[r] \in Calling, to = "sleeping" <=> r \in leads,
         r \in leads => at[r] \in Calling /\ held[r] + 1 <= Term,
         current' = current \ {r}, UNCHANGED <<lease, stamp, held, leads>>
  PROVE  Inv'
<1>1. Typing'
  BY TimesAssumption DEF Inv, Typing, Calling, Goes
<1>2. \A q \in Replicas : Timed(q)' /\ HeldWithin(q)'
  BY TimesAssumption DEF Inv, Typing, Calling, Timed, HeldWithin, Goes
<1>3. \A q \in Replicas : Aged(q)' /\ Taken(q)'
  BY DEF Inv, Typing, Calling, Aged, Taken, Goes
<1>4. \A q \in Replicas : Founded(q)'
  BY DEF Inv, Typing, Calling, Founded, Goes
<1>5. \A q \in Replicas : Overtaken(q)'
  BY DEF Inv, Overtaken, Goes
<1> QED  BY <1>1, <1>2, <1>3, <1>4, <1>5 DEF Inv

\* A claim that is answered no.
LEMMA DeniedKeeps ==
  ASSUME Inv, NEW r \in Replicas, at[r] \in Calling, Denied(r), UNCHANGED lease
  PROVE  Inv'
<1>1. CASE r \in leads
  BY <1>1, EndsKeeps DEF Denied
<1>2. CASE r \notin leads
  BY <1>2, BacksOffKeeps DEF Denied
<1> QED  BY <1>1, <1>2

\* A claim that is not answered: the process goes on only within its term.
LEMMA CallFailsKeeps ==
  ASSUME Inv, NEW r \in Replicas, CallFails(r)
  PROVE  Inv'
<1>1. CASE r \notin leads \/ TermOver(r)
  BY <1>1, EndsKeeps DEF CallFails
<1>2. CASE r \in leads /\ ~TermOver(r)
  <2>1. held[r] + 1 <= Term
    BY <1>2, TimesAssumption DEF TermOver, Inv, Typing
  <2> QED  BY <1>2, <2>1, BacksOffKeeps DEF CallFails
<1> QED  BY <1>1, <1>2

\* Nobody leads at first.
LEMMA InitInv ==
  ASSUME Init
  PROVE  Inv
BY TimesAssumption, NoneAssumption
   DEF Init, Inv, Typing, Calling, Timed, HeldWithin, Aged, Taken, Founded, Overtaken

\* Every step keeps Inv.
LEMMA NextInv ==
  ASSUME Inv, [Next]_vars
  PROVE  Inv'
<1>1. CASE Tick
  BY <1>1, TickKeeps
<1>2. ASSUME NEW r \in Replicas, Start(r) \/ Asks(r) \/ Reads(r) \/ Applies(r) \/ Answered(r)
      PROVE  Inv'
  BY <1>2, StartKeeps, AsksKeeps, ReadsKeeps, AppliesKeeps, AnsweredKeeps
<1>3. ASSUME NEW r \in Replicas, ReadsAnothers(r) \/ Refused(r)
      PROVE  Inv'
  BY <1>3, DeniedKeeps DEF ReadsAnothers, Refused, Calling
<1>4. ASSUME NEW r \in Replicas, CallFails(r)
      PROVE  Inv'
  BY <1>4, CallFailsKeeps
<1>5. ASSUME NEW r \in Replicas, Crash(r)
      PROVE  Inv'
  BY <1>5, EndsKeeps DEF Crash
<1>6. CASE UNCHANGED vars
  BY <1>6 DEF vars, Inv, Typing, Timed, HeldWithin, Aged, Taken, Founded, Overtaken
<1> QED  BY <1>1, <1>2, <1>3, <1>4, <1>5, <1>6 DEF Next, Claim

\* Inv is an invariant.
LEMMA Invariant == Spec => []Inv
<1>1. Init => Inv
  BY InitInv
<1>2. Inv /\ [Next]_vars => Inv'
  BY NextInv
<1> QED  BY <1>1, <1>2, PTL DEF Spec

(***************************************************************************)
(* The theorems.                                                            *)
(***************************************************************************)
\* How long any leader has gone on, and how old any claim is.
LEMMA InTime ==
  ASSUME Inv, NEW r \in Replicas
  PROVE  /\ at[r] \in Calling => stamp[r] <= 2 * Call
         /\ r \in leads => held[r] + 1 <= Term + Renew + 2 * Call
<1>1. Timed(r) /\ HeldWithin(r) /\ (r \in leads => at[r] \in {"sleeping"} \cup Calling)
  BY DEF Inv, Typing
<1>2. timer[r] \in Nat /\ stamp[r] \in Nat /\ held[r] \in Nat
  BY DEF Inv, Typing
<1> QED  BY <1>1, <1>2, TimesAssumption DEF Timed, HeldWithin, Calling

\* Election's variables have their types; what ends a replica's lead ends its
\* process; and no sleep, call, claim or lead goes on for longer than it may.
THEOREM Typed == Spec => []TypeOK
<1>1. Inv => TypeOK
  <2> SUFFICES ASSUME Inv PROVE TypeOK
    OBVIOUS
  <2>1. \A r \in Replicas : Timed(r)
    BY DEF Inv
  <2> QED  BY <2>1, InTime DEF Inv, Typing, Timed, TypeOK
<1> QED  BY <1>1, Invariant, PTL

\* A leader whose lease another has taken goes on for no longer than its next
\* renewal, the calls and the difference of the clocks.
THEOREM OverlapBounded == Spec => []OverlapIsBounded
<1>1. Inv => OverlapIsBounded
  <2> SUFFICES ASSUME Inv, NEW r \in leads, lease.holder # r
               PROVE  lease.tenure + 2 <= Renew + 5 * Call + Skew
    BY DEF OverlapIsBounded
  <2>1. r \in Replicas /\ held[r] \in Nat /\ timer[r] \in Nat /\ lease.tenure \in Nat
    BY TimesAssumption DEF Inv, Typing
  <2>2. lease.tenure + Term + 1 <= held[r] + 3 * Call + Skew
    BY <2>1 DEF Inv, Overtaken
  <2>3. held[r] + 1 <= Term + Renew + 2 * Call
    BY <2>1, InTime
  <2> QED  BY <2>1, <2>2, <2>3, TimesAssumption
<1> QED  BY <1>1, Invariant, PTL

\* Two replicas whose last renewal is recent enough never lead together.
THEOREM GoodStanding == Spec => []OneInGoodStanding
<1>1. Inv => OneInGoodStanding
  BY DEF Inv, Typing, Overtaken, OneInGoodStanding
<1> QED  BY <1>1, Invariant, PTL

=============================================================================
