-------------------------- MODULE SelfRotateProofs --------------------------
(***************************************************************************)
(* What SelfRotate keeps true for any replicas, pairs and failures: its     *)
(* types, that rotations are alone unless a lease runs out under one, that  *)
(* a reload misses nothing, and that every replica serves a trusted leaf.   *)
(***************************************************************************)
EXTENDS SelfRotate, TLAPS

\* A pair that is minted and not written is nowhere else.
Fresh ==
  \A r \in Replicas : at[r] = "writing" =>
    /\ minted[r] # secret
    /\ \A q \in Replicas :
         /\ minted[r] \notin {file[q], serving[q], seen[q], noticed[q]}
         /\ q # r /\ at[q] = "writing" => minted[q] # minted[r]

\* Whoever has seen the Secret's pair has it mounted: the mount never goes back.
Newest ==
  \A q \in Replicas :
    secret # None /\ secret \in {serving[q], seen[q], noticed[q]} => file[q] = secret

\* While no lease has run out under it, a rotation's lease is its own, and
\* nobody has read a version that could still take it.
Alone ==
  ~overran => \A r \in Replicas : at[r] \in Leading =>
                lease.holder = r /\ ~lease.over /\ current = {}

\* What replica q mounts and serves is among S.
Holds(q, S) == file[q] \in S \cup {None} /\ (serving[q] \in S \cup {None} \/ raced[q])

\* A spent pair has arrived everywhere.
Settled == spent => \A q \in Replicas : Holds(q, {secret})

\* What a rotation that is alone knows of the pairs around it.
Begun ==
  ~overran => \A r \in Replicas :
    /\ at[r] \in {"rotating", "writing"} => spent
    /\ at[r] = "writing" => previous[r] = secret
    /\ at[r] \in {"writing", "patching"} => minted[r] \notin bundle
    /\ at[r] = "patching" =>
         secret = minted[r] /\ \A q \in Replicas : Holds(q, {minted[r], previous[r]})

\* What it leaves, if it is not cut short.
Done ==
  ~overran /\ ~HalfWritten /\ (\A r \in Replicas : at[r] # "patching")
    => \A q \in Replicas : Holds(q, bundle)

News == Fresh /\ Newest /\ NoticesNews
Trust == Settled /\ Begun /\ Done
Inv == TypeOK /\ News /\ Alone /\ Trust

(***************************************************************************)
(* Types.                                                                   *)
(***************************************************************************)
\* Every step keeps the types.
LEMMA TypeNext ==
  ASSUME TypeOK, [Next]_vars
  PROVE  TypeOK'
<1> USE NoneAssumption, BudgetAssumption DEF TypeOK, Leading, Rotating
<1>1. ASSUME NEW r \in Replicas, HoldReads(r) \/ HoldTakes(r) \/ HoldRefused(r) PROVE TypeOK'
  <2>1. CASE HoldReads(r)
    BY <2>1 DEF HoldReads, Goes, cluster, served
  <2>2. CASE HoldTakes(r)
    BY <2>2 DEF HoldTakes, Taken, Goes, cluster, served
  <2>3. CASE HoldRefused(r)
    BY <2>3 DEF HoldRefused, Idle, cluster, served
  <2> QED  BY <1>1, <2>1, <2>2, <2>3
<1>2. ASSUME NEW r \in Replicas, ChecksFresh(r) \/ ChecksDue(r) \/ Renews(r) PROVE TypeOK'
  <2>1. CASE ChecksFresh(r)
    BY <2>1 DEF ChecksFresh, Idle, cluster, served
  <2>2. CASE ChecksDue(r)
    BY <2>2 DEF ChecksDue, Goes, cluster, served
  <2>3. CASE Renews(r)
    BY <2>3 DEF Renews, Taken, cluster, served, rotation
  <2> QED  BY <1>2, <2>1, <2>2, <2>3
<1>3. ASSUME NEW r \in Replicas, Mints(r) PROVE TypeOK'
  BY <1>3 DEF Mints, cluster, served
<1>4. ASSUME NEW r \in Replicas, WritesSecret(r) PROVE TypeOK'
  BY <1>4 DEF WritesSecret, Goes, served
<1>5. ASSUME NEW r \in Replicas, PatchesBundle(r) PROVE TypeOK'
  BY <1>5 DEF PatchesBundle, Bundle, Idle, served
<1>6. ASSUME NEW r \in Replicas, Lost(r) PROVE TypeOK'
  BY <1>6 DEF Lost, Idle, cluster, served
<1>7. ASSUME NEW r \in Replicas, CallFails(r) PROVE TypeOK'
  BY <1>7 DEF CallFails, GoesWrong, Idle, cluster, served
<1>8. ASSUME NEW r \in Replicas, Loads(r) PROVE TypeOK'
  BY <1>8 DEF Loads, Loadable, cluster, rotation
<1>9. ASSUME NEW r \in Replicas, Stamps(r) PROVE TypeOK'
  BY <1>9 DEF Stamps, cluster, rotation
<1>10. ASSUME NEW r \in Replicas, Polls(r) PROVE TypeOK'
  BY <1>10 DEF Polls, cluster, rotation
<1>11. ASSUME NEW r \in Replicas, Reloads(r) PROVE TypeOK'
  BY <1>11 DEF Reloads, Reloaded, cluster, rotation
<1>12. ASSUME NEW r \in Replicas, KubeletSyncs(r) PROVE TypeOK'
  BY <1>12 DEF KubeletSyncs, cluster, rotation
<1>13. ASSUME NEW r \in Replicas, Restarts(r) PROVE TypeOK'
  BY <1>13 DEF Restarts, GoesWrong, Idle, cluster
<1>14. CASE LeaseRunsOut
  <2>1. lease' \in [holder : Replicas \cup {None}, over : BOOLEAN]
    BY <1>14 DEF LeaseRunsOut
  <2> QED  BY <1>14, <2>1 DEF LeaseRunsOut, cluster, rotation, served
<1>15. CASE LeaseOverruns
  <2>1. lease' \in [holder : Replicas \cup {None}, over : BOOLEAN]
    BY <1>15 DEF LeaseOverruns
  <2> QED  BY <1>15, <2>1 DEF LeaseOverruns, GoesWrong, cluster, rotation, served
<1>16. CASE Spends
  BY <1>16 DEF Spends, rotation, served
<1>17. CASE UNCHANGED vars
  BY <1>17 DEF vars, cluster, rotation, served
<1> QED
  BY <1>1, <1>2, <1>3, <1>4, <1>5, <1>6, <1>7, <1>8, <1>9, <1>10, <1>11, <1>12, <1>13, <1>14,
     <1>15, <1>16, <1>17 DEF Next, Attend, Serve

(***************************************************************************)
(* The reload.                                                              *)
(***************************************************************************)
\* A mint's pair is in use nowhere.
LEMMA MintIsNew ==
  ASSUME NEW r \in Replicas, Mints(r), TypeOK
  PROVE  minted'[r] \in Authorities /\ minted'[r] \notin InUse
<1>1. \E a \in Authorities : a \notin InUse
  BY DEF Mints
<1> QED  BY <1>1 DEF Mints, TypeOK

\* Every step keeps News.
LEMMA NewsNext ==
  ASSUME TypeOK, News, [Next]_vars
  PROVE  News'
<1> USE NoneAssumption DEF News
<1>1. ASSUME NEW r \in Replicas, Mints(r) PROVE News'
  <2>1. minted'[r] \in Authorities /\ minted'[r] \notin InUse
    BY <1>1, MintIsNew
  <2>2. /\ minted'[r] # secret
        /\ \A q \in Replicas :
             minted'[r] \notin {minted[q], file[q], serving[q], seen[q], noticed[q]}
    BY <2>1 DEF InUse
  <2>3. UNCHANGED <<secret, file, server, serving, seen, noticed, raced>>
    BY <1>1 DEF Mints, cluster, served
  <2>4. Fresh'
    BY <1>1, <2>2, <2>3 DEF Mints, Fresh, TypeOK
  <2> QED  BY <2>3, <2>4 DEF Newest, NoticesNews
<1>2. ASSUME NEW r \in Replicas, WritesSecret(r) PROVE News'
  <2>1. UNCHANGED <<file, server, serving, seen, noticed, raced, minted>> /\ secret' = minted[r]
    BY <1>2 DEF WritesSecret, Goes, served
  <2>2. Fresh'
    BY <1>2, <2>1 DEF WritesSecret, Goes, Fresh, TypeOK
  <2>3. Newest'
    BY <1>2, <2>1 DEF WritesSecret, Fresh, Newest
  <2> QED  BY <2>1, <2>2, <2>3 DEF NoticesNews
<1>3. ASSUME NEW r \in Replicas, Loads(r) PROVE News'
  BY <1>3 DEF Loads, Loadable, cluster, rotation, Fresh, Newest, NoticesNews, TypeOK
<1>4. ASSUME NEW r \in Replicas, Stamps(r) PROVE News'
  <2>1. /\ UNCHANGED <<secret, at, minted, file, serving, noticed>>
        /\ server' = [server EXCEPT ![r] = "serving"] /\ seen' = [seen EXCEPT ![r] = file[r]]
        /\ \A q \in Replicas : q # r => raced'[q] = raced[q]
        /\ file[r] # serving[r] => raced'[r]
    BY <1>4 DEF Stamps, cluster, rotation, TypeOK
  <2>2. Fresh' /\ Newest'
    BY <2>1 DEF Fresh, Newest, TypeOK
  <2>3. NoticesNews'
    BY <2>1 DEF NoticesNews, TypeOK
  <2> QED  BY <2>2, <2>3
<1>5. ASSUME NEW r \in Replicas, Polls(r) PROVE News'
  BY <1>5 DEF Polls, cluster, rotation, Fresh, Newest, NoticesNews, TypeOK
<1>6. ASSUME NEW r \in Replicas, Reloads(r) PROVE News'
  BY <1>6 DEF Reloads, Reloaded, cluster, rotation, Fresh, Newest, NoticesNews, TypeOK
<1>7. ASSUME NEW r \in Replicas, KubeletSyncs(r) PROVE News'
  <2>1. /\ UNCHANGED <<secret, at, minted, server, serving, seen, noticed, raced>>
        /\ file' = [file EXCEPT ![r] = secret]
    BY <1>7 DEF KubeletSyncs, cluster, rotation
  <2>2. Fresh'
    BY <2>1 DEF Fresh, TypeOK
  <2>3. Newest'
    BY <2>1 DEF Newest, TypeOK
  <2>4. NoticesNews'
    BY <1>7, <2>1 DEF KubeletSyncs, Newest, NoticesNews, TypeOK
  <2> QED  BY <2>2, <2>3, <2>4
<1>8. ASSUME NEW r \in Replicas, Restarts(r) PROVE News'
  <2>1. /\ UNCHANGED <<secret, file>>
        /\ at' = [at EXCEPT ![r] = "idle"] /\ minted' = [minted EXCEPT ![r] = None]
        /\ server' = [server EXCEPT ![r] = "waiting"]
        /\ serving' = [serving EXCEPT ![r] = None] /\ seen' = [seen EXCEPT ![r] = None]
        /\ noticed' = [noticed EXCEPT ![r] = None] /\ raced' = [raced EXCEPT ![r] = FALSE]
    BY <1>8 DEF Restarts, Idle, cluster
  <2>2. \A q \in Replicas : at[q] = "writing" => minted[q] # None
    BY DEF TypeOK
  <2>3. Fresh'
    BY <2>1, <2>2 DEF Fresh, TypeOK
  <2>4. Newest'
    BY <2>1 DEF Newest, TypeOK
  <2>5. NoticesNews'
    BY <2>1 DEF NoticesNews, TypeOK
  <2> QED  BY <2>3, <2>4, <2>5
<1>9. ASSUME UNCHANGED <<secret, served>>,
             \A q \in Replicas : at'[q] = "writing" => at[q] = "writing" /\ minted'[q] = minted[q]
      PROVE  News'
  BY <1>9 DEF served, Fresh, Newest, NoticesNews
<1>10. ASSUME NEW r \in Replicas,
              HoldReads(r) \/ HoldTakes(r) \/ HoldRefused(r) \/ ChecksFresh(r) \/ ChecksDue(r)
       PROVE  News'
  <2>1. UNCHANGED <<secret, served>>
    BY <1>10 DEF HoldReads, HoldTakes, HoldRefused, ChecksFresh, ChecksDue, cluster
  <2>2. \A q \in Replicas : at'[q] = "writing" => at[q] = "writing" /\ minted'[q] = minted[q]
    BY <1>10 DEF HoldReads, HoldTakes, HoldRefused, ChecksFresh, ChecksDue, Goes, Idle, TypeOK
  <2> QED  BY <1>9, <2>1, <2>2
<1>11. ASSUME NEW r \in Replicas, Renews(r) \/ PatchesBundle(r) \/ Lost(r) \/ CallFails(r)
       PROVE  News'
  <2>1. UNCHANGED <<secret, served>>
    BY <1>11 DEF Renews, PatchesBundle, Lost, CallFails, cluster
  <2>2. \A q \in Replicas : at'[q] = "writing" => at[q] = "writing" /\ minted'[q] = minted[q]
    BY <1>11 DEF Renews, PatchesBundle, Lost, CallFails, Idle, rotation, TypeOK
  <2> QED  BY <1>9, <2>1, <2>2
<1>12. CASE LeaseRunsOut \/ LeaseOverruns \/ Spends \/ UNCHANGED vars
  <2>1. UNCHANGED <<secret, served, at, minted>>
    BY <1>12 DEF LeaseRunsOut, LeaseOverruns, Spends, vars, cluster, rotation
  <2> QED  BY <1>9, <2>1
<1> QED
  BY <1>1, <1>2, <1>3, <1>4, <1>5, <1>6, <1>7, <1>8, <1>10, <1>11, <1>12 DEF Next, Attend, Serve

(***************************************************************************)
(* The lease.                                                               *)
(***************************************************************************)
\* Every step keeps Alone.
LEMMA AloneNext ==
  ASSUME TypeOK, Alone, [Next]_vars
  PROVE  Alone'
<1> USE DEF Alone, Leading, Rotating
<1>1. ASSUME NEW r \in Replicas, HoldReads(r) PROVE Alone'
  BY <1>1 DEF HoldReads, Claimable, Goes, TypeOK
<1>2. ASSUME NEW r \in Replicas, HoldTakes(r) PROVE Alone'
  BY <1>2 DEF HoldTakes, Fenced, Taken, Goes, TypeOK
<1>3. ASSUME NEW r \in Replicas, Renews(r) PROVE Alone'
  BY <1>3 DEF Renews, Taken, rotation, TypeOK
<1>4. ASSUME UNCHANGED <<lease, current, overran>>,
             \A q \in Replicas : at'[q] \in Leading => at[q] \in Leading
      PROVE  Alone'
  BY <1>4
<1>5. ASSUME NEW r \in Replicas, HoldRefused(r) \/ ChecksFresh(r) \/ ChecksDue(r) \/ Lost(r)
      PROVE  Alone'
  <2>1. UNCHANGED <<lease, current, overran>>
    BY <1>5 DEF HoldRefused, ChecksFresh, ChecksDue, Lost
  <2>2. \A q \in Replicas : at'[q] \in Leading => at[q] \in Leading
    BY <1>5 DEF HoldRefused, ChecksFresh, ChecksDue, Lost, Goes, Idle, TypeOK
  <2> QED  BY <1>4, <2>1, <2>2
<1>6. ASSUME NEW r \in Replicas, Mints(r) \/ WritesSecret(r) \/ PatchesBundle(r)
      PROVE  Alone'
  <2>1. UNCHANGED <<lease, current, overran>>
    BY <1>6 DEF Mints, WritesSecret, PatchesBundle
  <2>2. \A q \in Replicas : at'[q] \in Leading => at[q] \in Leading
    BY <1>6 DEF Mints, WritesSecret, PatchesBundle, Goes, Idle, TypeOK
  <2> QED  BY <1>4, <2>1, <2>2
<1>7. ASSUME NEW r \in Replicas, CallFails(r) \/ Restarts(r) PROVE Alone'
  <2>1. UNCHANGED <<lease, current, overran>>
    BY <1>7 DEF CallFails, Restarts
  <2>2. \A q \in Replicas : at'[q] \in Leading => at[q] \in Leading
    BY <1>7 DEF CallFails, Restarts, Idle, TypeOK
  <2> QED  BY <1>4, <2>1, <2>2
<1>8. ASSUME NEW r \in Replicas, Serve(r) \/ KubeletSyncs(r) PROVE Alone'
  BY <1>8 DEF Serve, Loads, Stamps, Polls, Reloads, KubeletSyncs, rotation
<1>9. CASE LeaseRunsOut
  BY <1>9 DEF LeaseRunsOut, rotation
<1>10. CASE LeaseOverruns
  BY <1>10 DEF LeaseOverruns
<1>11. CASE Spends
  BY <1>11 DEF Spends, rotation
<1>12. CASE UNCHANGED vars
  BY <1>12 DEF vars, rotation
<1> QED
  BY <1>1, <1>2, <1>3, <1>5, <1>6, <1>7, <1>8, <1>9, <1>10, <1>11, <1>12 DEF Next, Attend

(***************************************************************************)
(* The trust.                                                               *)
(***************************************************************************)
\* What a step of the server does to the pairs it holds: it may load what is
\* mounted, and stamps as raced only what it did not load.
LEMMA ServeHolds ==
  ASSUME TypeOK, NEW r \in Replicas, Serve(r)
  PROVE  /\ UNCHANGED <<cluster, rotation, overran, file>>
         /\ \A q \in Replicas :
              \/ serving'[q] = serving[q] /\ raced'[q] = raced[q]
              \/ serving'[q] = file[q]
              \/ serving'[q] = serving[q] /\ raced'[q]
<1>1. CASE Loads(r)
  BY <1>1 DEF Loads, Loadable, TypeOK, cluster, rotation
<1>2. CASE Stamps(r)
  <2>1. \A q \in Replicas : q # r => raced'[q] = raced[q]
    BY <1>2 DEF Stamps, TypeOK
  <2>2. file[r] # serving[r] => raced'[r]
    BY <1>2 DEF Stamps, TypeOK
  <2> QED  BY <1>2, <2>1, <2>2 DEF Stamps
<1>3. CASE Polls(r)
  BY <1>3 DEF Polls
<1>4. CASE Reloads(r)
  BY <1>4 DEF Reloads, Reloaded, TypeOK
<1> QED  BY <1>1, <1>2, <1>3, <1>4 DEF Serve

\* What the steps of attend() have in common where they write nothing.
LEMMA AttendHolds ==
  ASSUME NEW r \in Replicas,
         HoldReads(r) \/ HoldTakes(r) \/ HoldRefused(r) \/ ChecksFresh(r) \/ ChecksDue(r)
           \/ Renews(r) \/ Lost(r) \/ CallFails(r)
  PROVE  UNCHANGED <<cluster, served, overran>>
BY DEF HoldReads, HoldTakes, HoldRefused, ChecksFresh, ChecksDue, Renews, Lost, CallFails

\* Every step keeps Settled: until the next write of the Secret only its pair
\* is mounted and loaded.
LEMMA SettledNext ==
  ASSUME TypeOK, NoticesNews, Settled, [Next]_vars
  PROVE  Settled'
<1> USE DEF Settled, Holds
<1>1. ASSUME NEW r \in Replicas, Serve(r) PROVE Settled'
  BY <1>1, ServeHolds DEF cluster
<1>2. ASSUME NEW r \in Replicas, KubeletSyncs(r) PROVE Settled'
  BY <1>2 DEF KubeletSyncs, cluster, TypeOK
<1>3. ASSUME NEW r \in Replicas, Restarts(r) PROVE Settled'
  BY <1>3 DEF Restarts, cluster, TypeOK
<1>4. ASSUME NEW r \in Replicas, WritesSecret(r) PROVE Settled'
  BY <1>4 DEF WritesSecret
<1>5. CASE Spends
  BY <1>5 DEF Spends, served, NoticesNews
<1>6. ASSUME UNCHANGED <<secret, spent, served>> PROVE Settled'
  BY <1>6 DEF served
<1>7. ASSUME NEW r \in Replicas, Attend(r), ~WritesSecret(r) PROVE Settled'
  BY <1>6, <1>7, AttendHolds DEF Attend, Mints, PatchesBundle, cluster
<1>8. CASE LeaseRunsOut \/ LeaseOverruns \/ UNCHANGED vars
  BY <1>6, <1>8 DEF LeaseRunsOut, LeaseOverruns, vars, cluster
<1> QED  BY <1>1, <1>2, <1>3, <1>4, <1>5, <1>7, <1>8 DEF Next

\* Every step keeps Begun: a rotation that is alone writes over the pair that is
\* settled everywhere.
LEMMA BegunNext ==
  ASSUME TypeOK, Alone, Settled, Begun, [Next]_vars
  PROVE  Begun'
<1> USE DEF Begun
<1>1. ASSUME UNCHANGED <<cluster, served, overran>>,
             \A q \in Replicas :
               at'[q] \in Rotating =>
                 \/ at'[q] = at[q] /\ minted'[q] = minted[q] /\ previous'[q] = previous[q]
                 \/ at'[q] = "rotating" /\ spent
      PROVE  Begun'
  BY <1>1 DEF cluster, served, Rotating, Holds
<1>2. ASSUME NEW r \in Replicas,
             HoldReads(r) \/ HoldTakes(r) \/ HoldRefused(r) \/ ChecksFresh(r) \/ ChecksDue(r)
               \/ Renews(r) \/ Lost(r) \/ CallFails(r)
      PROVE  Begun'
  <2>1. UNCHANGED <<cluster, served, overran>>
    BY <1>2, AttendHolds
  <2>2. CASE HoldReads(r) \/ HoldTakes(r) \/ Renews(r)
    BY <1>1, <2>1, <2>2 DEF HoldReads, HoldTakes, Renews, Goes, Rotating, rotation, TypeOK
  <2>3. CASE ChecksDue(r)
    BY <1>1, <2>1, <2>3 DEF ChecksDue, Due, Goes, Rotating, TypeOK
  <2>4. CASE HoldRefused(r) \/ ChecksFresh(r) \/ Lost(r) \/ CallFails(r)
    BY <1>1, <2>1, <2>4 DEF HoldRefused, ChecksFresh, Lost, CallFails, Idle, Rotating, TypeOK
  <2> QED  BY <1>2, <2>2, <2>3, <2>4
<1>3. ASSUME NEW r \in Replicas, Mints(r) PROVE Begun'
  <2>1. minted'[r] \notin bundle
    BY <1>3, MintIsNew DEF InUse
  <2>2. UNCHANGED <<cluster, served, overran>> /\ at[r] = "rotating"
    BY <1>3 DEF Mints
  <2>3. /\ at'[r] = "writing" /\ previous'[r] = secret
        /\ \A q \in Replicas : q # r =>
             at'[q] = at[q] /\ minted'[q] = minted[q] /\ previous'[q] = previous[q]
    BY <1>3 DEF Mints, TypeOK
  <2> QED  BY <2>1, <2>2, <2>3 DEF cluster, served, Holds
<1>4. ASSUME NEW r \in Replicas, WritesSecret(r) PROVE Begun'
  <2> SUFFICES ASSUME ~overran PROVE Begun'
    BY <1>4 DEF WritesSecret
  <2>1. \A q \in Replicas : q # r => at[q] \notin Leading
    BY <1>4 DEF WritesSecret, Alone, Leading
  <2>2. spent /\ previous[r] = secret /\ minted[r] \notin bundle
    BY <1>4 DEF WritesSecret
  <2>3. \A q \in Replicas : Holds(q, {minted[r], previous[r]})
    BY <2>2 DEF Settled, Holds
  <2>4. /\ secret' = minted[r] /\ at' = [at EXCEPT ![r] = "patching"]
        /\ UNCHANGED <<bundle, minted, previous, served>>
    BY <1>4 DEF WritesSecret, Goes
  <2> QED  BY <2>1, <2>2, <2>3, <2>4 DEF served, Holds, Leading, TypeOK
<1>5. ASSUME NEW r \in Replicas, PatchesBundle(r) PROVE Begun'
  <2> SUFFICES ASSUME ~overran PROVE Begun'
    BY <1>5 DEF PatchesBundle
  <2>1. \A q \in Replicas : q # r => at[q] \notin Leading
    BY <1>5 DEF PatchesBundle, Alone, Leading
  <2> QED  BY <1>5, <2>1 DEF PatchesBundle, Idle, Leading, TypeOK
<1>6. ASSUME NEW r \in Replicas, Serve(r) PROVE Begun'
  BY <1>6, ServeHolds DEF cluster, rotation, Holds
<1>7. ASSUME NEW r \in Replicas, KubeletSyncs(r) PROVE Begun'
  BY <1>7 DEF KubeletSyncs, cluster, rotation, Holds, TypeOK
<1>8. ASSUME NEW r \in Replicas, Restarts(r) PROVE Begun'
  BY <1>8 DEF Restarts, Idle, cluster, Holds, TypeOK
<1>9. CASE LeaseRunsOut \/ UNCHANGED vars
  BY <1>1, <1>9 DEF LeaseRunsOut, vars, rotation
<1>10. CASE LeaseOverruns
  BY <1>10 DEF LeaseOverruns
<1>11. CASE Spends
  BY <1>11 DEF Spends, rotation, Leading
<1> QED
  BY <1>2, <1>3, <1>4, <1>5, <1>6, <1>7, <1>8, <1>9, <1>10, <1>11 DEF Next, Attend

\* Every step keeps Done: the bundle covers what was settled and what is new.
LEMMA DoneNext ==
  ASSUME TypeOK, NoticesNews, Alone, Begun, Done, [Next]_vars
  PROVE  Done'
<1> USE DEF Done, HalfWritten
<1>1. ASSUME UNCHANGED <<cluster, served, overran>>,
             \A q \in Replicas : at[q] = "patching" => at'[q] = "patching"
      PROVE  Done'
  BY <1>1 DEF cluster, served, Holds
\* A rotation that is cut short between its writes leaves them half-written.
<1>2. ASSUME NEW r \in Replicas, at[r] = "patching", UNCHANGED <<cluster, overran>>,
             at'[r] # "patching"
      PROVE  Done'
  <2> SUFFICES ASSUME ~overran PROVE Done'
    BY <1>2
  <2>1. secret = minted[r] /\ minted[r] \notin bundle /\ minted[r] # None
    BY <1>2 DEF Begun, TypeOK
  <2> QED  BY <1>2, <2>1 DEF cluster
<1>3. ASSUME NEW r \in Replicas,
             HoldReads(r) \/ HoldTakes(r) \/ HoldRefused(r) \/ ChecksFresh(r) \/ ChecksDue(r)
               \/ Renews(r) \/ Lost(r) \/ CallFails(r)
      PROVE  Done'
  <2>1. UNCHANGED <<cluster, served, overran>>
    BY <1>3, AttendHolds
  <2>2. CASE HoldReads(r) \/ HoldTakes(r) \/ HoldRefused(r)
    BY <1>1, <2>1, <2>2 DEF HoldReads, HoldTakes, HoldRefused, Goes, Idle, TypeOK
  <2>3. CASE ChecksFresh(r) \/ ChecksDue(r) \/ Renews(r)
    BY <1>1, <2>1, <2>3 DEF ChecksFresh, ChecksDue, Renews, Goes, Idle, rotation, TypeOK
  <2>4. CASE Lost(r) \/ CallFails(r)
    <3>1. at' = [at EXCEPT ![r] = "idle"]
      BY <2>4 DEF Lost, CallFails, Idle
    <3>2. CASE at[r] = "patching"
      BY <1>2, <2>1, <3>1, <3>2 DEF TypeOK
    <3>3. CASE at[r] # "patching"
      BY <1>1, <2>1, <3>1, <3>3 DEF TypeOK
    <3> QED  BY <3>2, <3>3
  <2> QED  BY <1>3, <2>2, <2>3, <2>4
<1>4. ASSUME NEW r \in Replicas, Mints(r) PROVE Done'
  BY <1>1, <1>4 DEF Mints, TypeOK
<1>5. ASSUME NEW r \in Replicas, WritesSecret(r) PROVE Done'
  BY <1>5 DEF WritesSecret, Goes, TypeOK
<1>6. ASSUME NEW r \in Replicas, PatchesBundle(r) PROVE Done'
  <2> SUFFICES ASSUME ~overran PROVE \A q \in Replicas : Holds(q, bundle)'
    BY <1>6 DEF PatchesBundle
  <2>1. \A q \in Replicas : Holds(q, {minted[r], previous[r]})
    BY <1>6 DEF PatchesBundle, Begun
  <2>2. bundle' = {minted[r], previous[r]} \ {None} /\ UNCHANGED served
    BY <1>6 DEF PatchesBundle, Bundle
  <2>3. \A q \in Replicas : Holds(q, bundle')
    BY <2>1, <2>2 DEF Holds
  <2> QED  BY <2>2, <2>3 DEF served, Holds
<1>7. ASSUME NEW r \in Replicas, Serve(r) PROVE Done'
  BY <1>7, ServeHolds DEF cluster, rotation, Holds
<1>8. ASSUME NEW r \in Replicas, KubeletSyncs(r) PROVE Done'
  BY <1>8 DEF KubeletSyncs, cluster, rotation, Holds, TypeOK
<1>9. ASSUME NEW r \in Replicas, Restarts(r) PROVE Done'
  <2>1. CASE at[r] = "patching"
    BY <1>2, <1>9, <2>1 DEF Restarts, Idle, TypeOK
  <2>2. CASE at[r] # "patching"
    BY <1>9, <2>2 DEF Restarts, Idle, cluster, Holds, TypeOK
  <2> QED  BY <2>1, <2>2
<1>10. CASE LeaseRunsOut \/ UNCHANGED vars
  BY <1>1, <1>10 DEF LeaseRunsOut, vars, rotation
<1>11. CASE LeaseOverruns
  BY <1>11 DEF LeaseOverruns
<1>12. CASE Spends
  BY <1>12 DEF Spends, served, NoticesNews, Holds
<1> QED
  BY <1>3, <1>4, <1>5, <1>6, <1>7, <1>8, <1>9, <1>10, <1>11, <1>12 DEF Next, Attend

(***************************************************************************)
(* The theorems.                                                            *)
(***************************************************************************)
\* Before the first rotation there is no pair anywhere.
LEMMA InitInv ==
  ASSUME Init
  PROVE  Inv
<1> USE NoneAssumption DEF Init
<1>1. TypeOK
  <2>1. lease \in [holder : Replicas \cup {None}, over : BOOLEAN] /\ wrong \in 0..Budget
    BY BudgetAssumption
  <2>2. /\ at \in [Replicas -> {"idle", "claiming"} \cup Leading]
        /\ server \in [Replicas -> {"waiting", "loaded", "serving", "reloading"}]
        /\ raced \in [Replicas -> BOOLEAN]
    OBVIOUS
  <2> QED  BY <2>1, <2>2 DEF TypeOK
<1>2. News
  BY DEF News, Fresh, Newest, NoticesNews
<1>3. Alone /\ Trust
  BY DEF Alone, Leading, Trust, Settled, Begun, Done, Holds
<1> QED  BY <1>1, <1>2, <1>3 DEF Inv

\* Inv is an invariant.
LEMMA Invariant == Spec => []Inv
<1>1. Init => Inv
  BY InitInv
<1>2. Inv /\ [Next]_vars => Inv'
  BY TypeNext, NewsNext, AloneNext, SettledNext, BegunNext, DoneNext DEF Inv, News, Trust
<1> QED  BY <1>1, <1>2, PTL DEF Spec

\* SelfRotate's variables have their types: a pair is minted exactly between its
\* mint and its bundle, and a server past its first load serves something.
THEOREM Typed == Spec => []TypeOK
<1>1. Inv => TypeOK
  BY DEF Inv
<1> QED  BY <1>1, Invariant, PTL

\* The lease keeps rotations apart as long as none runs out under a rotation.
THEOREM RotationsApart == Spec => []OneRotator
<1>1. Inv => OneRotator
  BY DEF Inv, Alone, OneRotator
<1> QED  BY <1>1, Invariant, PTL

\* The reload misses no pair but at the start of a server.
THEOREM ReloadNotices == Spec => []NoticesNews
<1>1. Inv => NoticesNews
  BY DEF Inv, News
<1> QED  BY <1>1, Invariant, PTL

\* The two authorities of the bundle cover whatever any replica serves.
THEOREM ReplicasTrusted == Spec => []EveryReplicaTrusted
<1>1. Inv => EveryReplicaTrusted
  BY DEF Inv, Trust, Done, Holds, EveryReplicaTrusted
<1> QED  BY <1>1, Invariant, PTL

=============================================================================
