-------------------------- MODULE NodePluginProofs --------------------------
(***************************************************************************)
(* What NodePlugin keeps true for any volumes, documents, watches and       *)
(* outside events: its types, that a document has one watch and nobody gone *)
(* is left in the registry, and that a pod starts on a file of its own.     *)
(***************************************************************************)
EXTENDS NodePlugin, TLAPS

\* What is kept of a document between two steps was answered to the question
\* of whom it is kept for.
Told(v) == offered[Question[v]]

CallKnows(v) ==
  /\ call[v].at \in {"fetched", "written"} => call[v].doc \in Told(v)
  /\ call[v].at = "written" => View[v][call[v].doc] # Bad

WatchKnows(t) ==
  /\ t.at \in {"free", "dead"} => ~t.up /\ t.resync = None
  /\ t.at # "free" =>
       /\ t.starter \in Vols
       /\ {t.doc, t.seen, t.slot, t.resync} \subseteq Told(t.starter) \cup {None, Asked}
  /\ t.at \in {"first", "telling", "hearing"} => t.doc \in Told(t.starter)
  /\ t.at \in {"first", "hearing"} => View[t.starter][t.doc] # Bad
  /\ \A v \in t.todo : Key[v] = Key[t.starter]

Knowledge ==
  /\ \A q \in Questions : store[q] \in offered[q]
  /\ \A v \in Vols : CallKnows(v)
  /\ \A w \in Watches : WatchKnows(watch[w])

\* A document has an entry exactly while it has readers, and the entry's watch
\* runs for it.
Entry(k) ==
  /\ owner[k] = None <=> readers[k] = {}
  /\ owner[k] # None =>
       LET t == watch[owner[k]] IN t.at # "free" /\ Key[t.starter] = k /\ ~t.stop
  /\ \A v \in readers[k] : Key[v] = k

Entries == \A k \in Keys : Entry(k)

\* Which calls the kubelet has in progress for a pod, and what an unpublish has
\* taken away by then.
Phase(v) ==
  /\ call[v].at \in {"building", "fetched", "written", "claimed"} => pod[v] \in {"wanted", "leaving"}
  /\ call[v].at \in {"released", "unlisted"} => pod[v] = "leaving" /\ v \notin readers[Key[v]]
  /\ call[v].at = "unlisted" => v \notin published

Phases == \A v \in Vols : Phase(v)

\* A target that was written stays so from its first write until it is unlisted.
HasOwnFile(v) ==
  \E u \in Came(Key[v]) : \E d \in Told(u) : file[v] = View[v][d] /\ file[v] # Bad

Kept ==
  \A v \in Vols :
    pod[v] = "mounted" \/ v \in published \/ call[v].at \in {"written", "claimed"} => HasOwnFile(v)

\* Nobody's watch was started before the pod came.
StartersCame == \A w \in Watches : watch[w].at # "free" => pod[watch[w].starter] # "none"

Registered == Entries /\ OneWatch /\ Phases /\ NobodyLeftBehind
Inv == TypeOK /\ Knowledge /\ Registered

(***************************************************************************)
(* The watch task.                                                          *)
(***************************************************************************)
\* A rendering is a text, and no sign of a missing file.
LEMMA Renderings ==
  ASSUME NEW v \in Vols, NEW d \in Docs, View[v][d] # Bad
  PROVE  View[v][d] \in Texts /\ View[v][d] \notin {NoFile, NoDir, None}
<1>1. View[v][d] \in Texts
  BY DEF Texts
<1> QED  BY <1>1, FileAssumption, NoneAssumption

\* A file is left, or gets the rendering of a document that the watch was told.
MayWrite(t) ==
  \/ UNCHANGED file
  \/ \E v \in Vols : \E d \in Told(t.starter) :
       /\ Key[v] = Key[t.starter] /\ View[v][d] # Bad
       /\ file' = [file EXCEPT ![v] = View[v][d]]

\* What any step of a watch comes to: it goes on for its starter, or ends.
Steps(w, t) ==
  /\ watch[w].at \notin {"free", "dead"}
  /\ t \in WatchStates /\ Becomes(w, t) /\ WatchKnows(t)
  /\ \/ t.at # "free" /\ t.starter = watch[w].starter /\ t.stop = watch[w].stop
     \/ t = Free /\ watch[w].stop
  /\ UNCHANGED <<store, offered, pod, call, published, readers, owner>>
  /\ spent' \in Nat
  /\ MayWrite(watch[w])

LEMMA WatchTaskSteps ==
  ASSUME TypeOK, Knowledge, Entries, NEW w \in Watches, WatchTask(w)
  PROVE  \E t \in WatchStates : Steps(w, t)
<1> DEFINE t == watch[w]
<1> USE DEF outside, registry
<1>1. t \in WatchStates /\ WatchKnows(t) /\ spent \in Nat
  BY DEF TypeOK, Knowledge
<1>2. Free \in WatchStates /\ WatchKnows(Free)
  BY DEF WatchStates, Free, WatchKnows
<1>3. t.starter \in Vols => Told(t.starter) \subseteq Docs
  BY KeyAssumption DEF Told, TypeOK
<1>4. ASSUME NEW v \in Vols, t.starter \in Vols, Key[v] = Key[t.starter],
             t.doc \in Told(t.starter), View[v][t.doc] # Bad, WriteWorks(v, t.doc)
      PROVE  MayWrite(t)
  BY <1>4 DEF WriteWorks, Written, MayWrite
<1>5. ASSUME NEW v \in Vols, WriteBreaks(v) \/ \E d \in Docs : WriteWorks(v, d)
      PROVE  spent' \in Nat
  BY <1>1, <1>5, BudgetAssumption DEF WriteBreaks, WriteWorks, Happens, Costs
<1>6. t.at = "free" \/ t.starter \in Vols
  BY <1>1 DEF WatchKnows
<1>7. CASE WatchStarts(w)
  <2>1. /\ t.at = "first" /\ t.starter \in Vols /\ t.doc \in Told(t.starter)
        /\ View[t.starter][t.doc] # Bad
    BY <1>1, <1>7 DEF WatchStarts, WatchKnows
  <2>2. View[t.starter][t.doc] \in Texts
    BY <1>3, <2>1, Renderings
  <2>3. spent' \in Nat
    BY <1>3, <1>5, <1>7, <2>1 DEF WatchStarts
  <2>4. CASE WriteWorks(t.starter, t.doc) /\ Becomes(w, [t EXCEPT !.at = "telling",
                !.todo = Others(t), !.rendered = View[t.starter][t.doc]])
    <3> DEFINE n == [t EXCEPT !.at = "telling", !.todo = Others(t),
                              !.rendered = View[t.starter][t.doc]]
    <3>1. Others(t) \subseteq Vols /\ \A v \in Others(t) : Key[v] = Key[t.starter]
      BY <2>1, KeyAssumption DEF Others, Entries, Entry, TypeOK
    <3>2. n \in WatchStates
      BY <1>1, <2>1, <2>2, <3>1 DEF WatchStates
    <3>3. WatchKnows(n)
      BY <1>1, <2>1, <3>1 DEF WatchKnows, WatchStates
    <3>4. n.at # "free" /\ n.starter = t.starter /\ n.stop = t.stop
      BY <1>1 DEF WatchStates
    <3>5. MayWrite(t)
      BY <1>4, <2>1, <2>4
    <3> QED  BY <1>7, <2>1, <2>3, <2>4, <3>2, <3>3, <3>4, <3>5 DEF WatchStarts, Steps
  <2>5. CASE UNCHANGED file /\ Becomes(w, IF t.stop THEN Free
                                ELSE [Free EXCEPT !.at = "dead", !.starter = t.starter])
    <3> DEFINE n == [Free EXCEPT !.at = "dead", !.starter = t.starter]
    <3>1. n \in WatchStates /\ WatchKnows(n)
      BY <1>1, <2>1 DEF WatchStates, Free, WatchKnows
    <3>2. n.at # "free" /\ n.starter = t.starter /\ n.stop = FALSE
      BY DEF Free
    <3>3. t.stop \in BOOLEAN
      BY <1>1 DEF WatchStates
    <3>4. CASE t.stop
      BY <1>2, <1>7, <2>1, <2>3, <2>5, <3>4 DEF WatchStarts, Steps, MayWrite
    <3>5. CASE ~t.stop
      BY <1>7, <2>1, <2>3, <2>5, <3>1, <3>2, <3>3, <3>5 DEF WatchStarts, Steps, MayWrite
    <3> QED  BY <3>4, <3>5
  <2> QED  BY <1>7, <2>4, <2>5 DEF WatchStarts
<1>8. ASSUME NEW v \in Vols, FansOut(w, v) PROVE \E n \in WatchStates : Steps(w, n)
  <2> DEFINE n == [t EXCEPT !.todo = @ \ {v}]
  <2>1. /\ t.at \in {"telling", "hearing"} /\ t.starter \in Vols /\ t.doc \in Told(t.starter)
        /\ Key[v] = Key[t.starter]
    BY <1>1, <1>8 DEF FansOut, WatchKnows
  <2>2. n \in WatchStates /\ WatchKnows(n)
    BY <1>1 DEF WatchStates, WatchKnows
  <2>3. n.at # "free" /\ n.starter = t.starter /\ n.stop = t.stop
    BY <1>1, <2>1 DEF WatchStates
  <2>4. spent' \in Nat
    BY <1>1, <1>3, <1>5, <1>8, <2>1 DEF FansOut
  <2>5. MayWrite(t)
    BY <1>4, <1>8, <2>1 DEF FansOut, MayWrite
  <2> QED  BY <1>8, <2>1, <2>2, <2>3, <2>4, <2>5 DEF FansOut, Steps
<1>9. CASE WatchOpens(w)
  <2> DEFINE n == Opened(t)
  <2>1. t.at # "free" /\ t.at # "dead" /\ t.starter \in Vols
    BY <1>1, <1>9 DEF WatchOpens, WatchKnows
  <2>2. store[Question[t.starter]] \in Told(t.starter)
    BY <2>1, KeyAssumption DEF Knowledge, Told
  <2>3. store[Question[t.starter]] \in Docs
    BY <1>3, <2>1, <2>2
  <2>4. /\ n.at = "select" /\ n.up /\ n.seen = store[Question[t.starter]]
        /\ n.starter = t.starter /\ n.stop = t.stop /\ n.doc = t.doc /\ n.slot = t.slot
        /\ n.resync = t.resync /\ n.todo = t.todo
    BY <1>1 DEF Opened, WatchStates
  <2>5. n \in WatchStates
    BY <1>1, <2>3 DEF Opened, WatchStates
  <2>6. {t.doc, t.slot, t.resync} \subseteq Told(t.starter) \cup {None, Asked}
    BY <1>1, <2>1 DEF WatchKnows
  <2>7. \A v \in t.todo : Key[v] = Key[t.starter]
    BY <1>1 DEF WatchKnows
  <2>8. WatchKnows(n)
    BY <2>1, <2>2, <2>4, <2>6, <2>7 DEF WatchKnows
  <2> QED  BY <1>1, <1>9, <2>1, <2>4, <2>5, <2>8 DEF WatchOpens, Steps, MayWrite
<1>10. CASE Delivers(w)
  <2> DEFINE d == t.slot
             heard == [t EXCEPT !.slot = None, !.at = "hearing", !.doc = d, !.todo = Others(t)]
             same == [t EXCEPT !.slot = None]
  <2>1. t.at = "select" /\ d # None /\ t.starter \in Vols
    BY <1>1, <1>10 DEF Delivers, WatchKnows
  <2>2. d \in Told(t.starter)
    BY <1>1, <2>1, NoneAssumption DEF WatchKnows, WatchStates
  <2>3. Others(t) \subseteq Vols /\ \A v \in Others(t) : Key[v] = Key[t.starter]
    BY <2>1, KeyAssumption DEF Others, Entries, Entry, TypeOK
  <2>4. CASE Moved(t, d)
    <3>1. heard \in WatchStates
      BY <1>1, <1>3, <2>1, <2>2, <2>3 DEF WatchStates
    <3>2. WatchKnows(heard)
      BY <1>1, <2>1, <2>2, <2>3, <2>4 DEF WatchStates, WatchKnows, Moved
    <3>3. heard.at # "free" /\ heard.starter = t.starter /\ heard.stop = t.stop
      BY <1>1 DEF WatchStates
    <3> QED  BY <1>1, <1>10, <2>1, <2>4, <3>1, <3>2, <3>3 DEF Delivers, Steps, MayWrite
  <2>5. CASE ~Moved(t, d)
    <3>1. same \in WatchStates /\ WatchKnows(same)
      BY <1>1, <2>1 DEF WatchStates, WatchKnows
    <3>2. same.at # "free" /\ same.starter = t.starter /\ same.stop = t.stop
      BY <1>1, <2>1 DEF WatchStates
    <3> QED  BY <1>1, <1>10, <2>1, <2>5, <3>1, <3>2 DEF Delivers, Steps, MayWrite
  <2> QED  BY <2>4, <2>5
<1>11. CASE WatchPublishes(w)
  <2> DEFINE rest == [t EXCEPT !.at = "select"]
             done == [rest EXCEPT !.rendered = View[t.starter][t.doc]]
  <2>1. /\ t.at = "hearing" /\ t.starter \in Vols /\ t.doc \in Told(t.starter)
        /\ View[t.starter][t.doc] # Bad
    BY <1>1, <1>11 DEF WatchPublishes, WatchKnows
  <2>2. View[t.starter][t.doc] \in Texts
    BY <1>3, <2>1, Renderings
  <2>3. spent' \in Nat
    BY <1>3, <1>5, <1>11, <2>1 DEF WatchPublishes
  <2>4. /\ rest \in WatchStates /\ WatchKnows(rest)
        /\ rest.at # "free" /\ rest.starter = t.starter /\ rest.stop = t.stop
    BY <1>1, <2>1 DEF WatchStates, WatchKnows
  <2>7. /\ done \in WatchStates /\ WatchKnows(done)
        /\ done.at # "free" /\ done.starter = t.starter /\ done.stop = t.stop
    BY <1>1, <2>1, <2>2 DEF WatchStates, WatchKnows
  <2>5. (WriteWorks(t.starter, t.doc) /\ Becomes(w, done)) \/ (UNCHANGED file /\ Becomes(w, rest))
    BY <1>11 DEF WatchPublishes
  <2>6. MayWrite(t)
    BY <1>4, <2>1, <2>5 DEF MayWrite
  <2> QED  BY <1>11, <2>1, <2>3, <2>4, <2>5, <2>6, <2>7 DEF WatchPublishes, Steps
<1>12. CASE WatchStops(w)
  BY <1>1, <1>2, <1>12 DEF WatchStops, Steps, MayWrite
<1>13. CASE WatchReopens(w)
  <2> DEFINE n == [t EXCEPT !.at = "reopening"]
  <2>1. /\ n \in WatchStates /\ WatchKnows(n)
        /\ n.at # "free" /\ n.starter = t.starter /\ n.stop = t.stop
    BY <1>1, <1>13 DEF WatchReopens, WatchStates, WatchKnows
  <2> QED  BY <1>1, <1>13, <2>1 DEF WatchReopens, Steps, MayWrite
<1>14. CASE Pushes(w)
  <2> DEFINE now == store[Question[t.starter]]
             n == [t EXCEPT !.seen = now, !.slot = now]
  <2>1. t.at \notin {"free", "dead"} /\ t.starter \in Vols
    BY <1>1, <1>14 DEF Pushes, WatchKnows, WatchStates
  <2>2. now \in Told(t.starter) /\ now \in Docs
    BY <1>3, <2>1, KeyAssumption DEF Knowledge, Told
  <2>3. /\ n \in WatchStates /\ WatchKnows(n)
        /\ n.at # "free" /\ n.starter = t.starter /\ n.stop = t.stop
    BY <1>1, <2>1, <2>2 DEF WatchStates, WatchKnows
  <2> QED  BY <1>1, <1>14, <2>1, <2>3 DEF Pushes, Steps, MayWrite
<1>15. CASE Drops(w)
  <2> DEFINE n == [t EXCEPT !.up = FALSE]
  <2>1. t.at \notin {"free", "dead"}
    BY <1>1, <1>15 DEF Drops, WatchKnows
  <2>2. /\ n \in WatchStates /\ WatchKnows(n)
        /\ n.at # "free" /\ n.starter = t.starter /\ n.stop = t.stop
    BY <1>1, <2>1 DEF WatchStates, WatchKnows
  <2> QED  BY <1>1, <1>15, <2>1, <2>2 DEF Drops, Steps, MayWrite
<1>16. CASE Resyncs(w)
  <2>1. t.at \notin {"free", "dead"} /\ t.starter \in Vols
    BY <1>1, <1>16, NoneAssumption DEF Resyncs, WatchKnows, WatchStates
  <2>2. store[Question[t.starter]] \in Told(t.starter) /\ Told(t.starter) \subseteq Docs
    BY <1>3, <2>1, KeyAssumption DEF Knowledge, Told
  <2> DEFINE asked == [t EXCEPT !.resync = Asked]
             answered == [t EXCEPT !.resync = store[Question[t.starter]]]
             put == [t EXCEPT !.resync = None, !.slot = t.resync]
  <2>3. CASE Becomes(w, asked)
    <3>1. /\ asked \in WatchStates /\ WatchKnows(asked)
          /\ asked.at # "free" /\ asked.starter = t.starter /\ asked.stop = t.stop
      BY <1>1, <2>1 DEF WatchStates, WatchKnows
    <3> QED  BY <1>1, <1>16, <2>1, <2>3, <3>1 DEF Resyncs, Steps, MayWrite
  <2>4. CASE Becomes(w, answered)
    <3>1. /\ answered \in WatchStates /\ WatchKnows(answered)
          /\ answered.at # "free" /\ answered.starter = t.starter /\ answered.stop = t.stop
      BY <1>1, <2>1, <2>2 DEF WatchStates, WatchKnows
    <3> QED  BY <1>1, <1>16, <2>1, <2>4, <3>1 DEF Resyncs, Steps, MayWrite
  <2>5. CASE t.resync \in Docs /\ Becomes(w, put)
    <3>1. /\ put \in WatchStates /\ WatchKnows(put)
          /\ put.at # "free" /\ put.starter = t.starter /\ put.stop = t.stop
      BY <1>1, <2>1, <2>5 DEF WatchStates, WatchKnows
    <3> QED  BY <1>1, <1>16, <2>1, <2>5, <3>1 DEF Resyncs, Steps, MayWrite
  <2> QED  BY <1>16, <2>3, <2>4, <2>5 DEF Resyncs
<1> QED
  BY <1>7, <1>8, <1>9, <1>10, <1>11, <1>12, <1>13, <1>14, <1>15, <1>16 DEF WatchTask

(***************************************************************************)
(* Types.                                                                   *)
(***************************************************************************)
LEMMA TypeNext ==
  ASSUME TypeOK, Knowledge, Entries, [Next]_vars
  PROVE  TypeOK'
<1> USE NoneAssumption, BudgetAssumption, KeyAssumption
        DEF TypeOK, Calls, NoCall, outside, registry, Costs, Happens
<1>1. ASSUME NEW q \in Questions, NEW d \in Docs, StorePut(q, d) PROVE TypeOK'
  BY <1>1 DEF StorePut
<1>2. ASSUME NEW v \in Vols, Kubelet(v) PROVE TypeOK'
  <2>1. CASE PodArrives(v)
    BY <2>1 DEF PodArrives
  <2>2. CASE PodLeaves(v)
    BY <2>2 DEF PodLeaves
  <2>3. CASE DirectoryRemoved(v)
    BY <2>3 DEF DirectoryRemoved, Files
  <2>4. CASE GivenUp(v)
    BY <2>4 DEF GivenUp
  <2> QED  BY <1>2, <2>1, <2>2, <2>3, <2>4 DEF Kubelet
<1>3. ASSUME NEW v \in Vols, PublishVolume(v) PROVE TypeOK'
  <2>1. CASE PublishCalled(v)
    <3>1. CASE v \in published
      BY <2>1, <3>1 DEF PublishCalled, Answer
    <3>2. CASE v \notin published
      <4>1. /\ call' = [call EXCEPT ![v].at = "building"]
            /\ file' = [file EXCEPT ![v] = IF @ = NoDir THEN NoFile ELSE @]
            /\ UNCHANGED <<outside, pod, spent, published, registry, watch>>
        BY <2>1, <3>2 DEF PublishCalled
      <4>2. file' \in [Vols -> Files]
        BY <4>1 DEF Files
      <4>3. call' \in [Vols -> Calls]
        BY <4>1
      <4> QED  BY <4>1, <4>2, <4>3
    <3> QED  BY <3>1, <3>2
  <2>2. CASE PublishFetched(v)
    BY <2>2 DEF PublishFetched
  <2>3. CASE PublishFails(v)
    BY <2>3 DEF PublishFails
  <2>4. CASE PublishRefused(v)
    BY <2>4 DEF PublishRefused
  <2>5. CASE PublishWrites(v)
    <3>1. call[v].doc \in Docs /\ View[v][call[v].doc] \in Texts
      BY <2>5, Renderings DEF PublishWrites, Knowledge, CallKnows, Told
    <3>2. call' \in [Vols -> Calls] /\ UNCHANGED <<outside, pod, published, registry, watch>>
      BY <2>5 DEF PublishWrites
    <3>3. CASE WriteWorks(v, call[v].doc)
      BY <3>1, <3>2, <3>3 DEF WriteWorks, Written, Files
    <3>4. CASE WriteBreaks(v) /\ UNCHANGED file
      BY <3>2, <3>4 DEF WriteBreaks
    <3> QED  BY <2>5, <3>3, <3>4 DEF PublishWrites
  <2>6. CASE PublishClaims(v)
    <3>1. call[v].doc \in Docs
      BY <2>6 DEF PublishClaims, Knowledge, CallKnows, Told
    <3>2. Started(v, call[v].doc) \in WatchStates
      BY <3>1 DEF Started, Free, WatchStates
    <3>4. readers' \in [Keys -> SUBSET Vols] /\ call' \in [Vols -> Calls]
      BY <2>6 DEF PublishClaims
    <3>3. CASE Held(Key[v])
      BY <2>6, <3>3, <3>4 DEF PublishClaims
    <3>5. CASE ~Held(Key[v])
      <4>1. PICK w \in Watches : /\ watch' = [watch EXCEPT ![w] = Started(v, call[v].doc)]
                                 /\ owner' = [owner EXCEPT ![Key[v]] = w]
        BY <2>6, <3>5 DEF PublishClaims
      <4>2. watch' \in [Watches -> WatchStates] /\ owner' \in [Keys -> Watches \cup {None}]
        BY <3>2, <4>1
      <4> QED  BY <2>6, <3>4, <4>2 DEF PublishClaims
    <3> QED  BY <3>3, <3>5
  <2>7. CASE PublishLists(v)
    BY <2>7 DEF PublishLists, Answer
  <2> QED  BY <1>3, <2>1, <2>2, <2>3, <2>4, <2>5, <2>6, <2>7 DEF PublishVolume
<1>4. ASSUME NEW v \in Vols, UnpublishVolume(v) PROVE TypeOK'
  <2>1. CASE UnpublishReleases(v)
    <3>1. \A t \in WatchStates : Stopped(t) \in WatchStates
      BY DEF Stopped, Free, WatchStates
    <3>2. owner' \in [Keys -> Watches \cup {None}]
      BY <2>1 DEF UnpublishReleases
    <3>4. \/ watch' = watch
          \/ watch' = [watch EXCEPT ![owner[Key[v]]] = Stopped(watch[owner[Key[v]]])]
      BY <2>1 DEF UnpublishReleases
    <3>5. watch' \in [Watches -> WatchStates]
      BY <3>1, <3>4
    <3>3. readers' \in [Keys -> SUBSET Vols] /\ call' \in [Vols -> Calls]
      BY <2>1 DEF UnpublishReleases, Without
    <3> QED  BY <2>1, <3>2, <3>3, <3>5 DEF UnpublishReleases
  <2>2. CASE UnpublishUnlists(v)
    BY <2>2 DEF UnpublishUnlists
  <2>3. CASE UnpublishEmpties(v)
    BY <2>3 DEF UnpublishEmpties, Files
  <2> QED  BY <1>4, <2>1, <2>2, <2>3 DEF UnpublishVolume
<1>5. ASSUME NEW w \in Watches, WatchTask(w) PROVE TypeOK'
  <2>1. PICK t \in WatchStates : Steps(w, t)
    BY <1>5, WatchTaskSteps
  <2>2. watch[w].starter \in Vols
    BY <2>1 DEF Steps, Knowledge, WatchKnows
  <2>3. file' \in [Vols -> Files]
    BY <2>1, <2>2, Renderings DEF Steps, MayWrite, Told, Files
  <2> QED  BY <2>1, <2>3 DEF Steps, Becomes
<1>6. CASE Restarted
  <2>1. Free \in WatchStates
    BY DEF Free, WatchStates
  <2> QED  BY <1>6, <2>1 DEF Restarted
<1>7. CASE UNCHANGED vars
  BY <1>7 DEF vars
<1> QED  BY <1>1, <1>2, <1>3, <1>4, <1>5, <1>6, <1>7 DEF Next

(***************************************************************************)
(* What is known of documents.                                              *)
(***************************************************************************)
LEMMA KnowledgeNext ==
  ASSUME TypeOK, Knowledge, Entries, [Next]_vars
  PROVE  Knowledge'
<1> USE NoneAssumption, KeyAssumption DEF outside, registry, Told
<1>1. ASSUME NEW q \in Questions, NEW d \in Docs, StorePut(q, d) PROVE Knowledge'
  <2>1. UNCHANGED <<call, watch>> /\ \A v \in Vols : Told(v) \subseteq Told(v)'
    BY <1>1 DEF StorePut, TypeOK
  <2>2. \A p \in Questions : store'[p] \in offered'[p]
    BY <1>1 DEF StorePut, TypeOK, Knowledge
  <2>3. \A v \in Vols : CallKnows(v)'
    BY <2>1 DEF Knowledge, CallKnows
  <2>4. ASSUME NEW w \in Watches PROVE WatchKnows(watch[w])'
    BY <2>1 DEF Knowledge, WatchKnows
  <2> QED  BY <2>2, <2>3, <2>4 DEF Knowledge
<1>2. ASSUME NEW v \in Vols, UNCHANGED <<store, offered, watch>>,
             \A u \in Vols : call'[u] = call[u] \/ CallKnows(u)'
      PROVE  Knowledge'
  <2>1. \A u \in Vols : CallKnows(u)'
    BY <1>2 DEF Knowledge, CallKnows
  <2> QED  BY <1>2, <2>1 DEF Knowledge, WatchKnows
<1>3. ASSUME NEW v \in Vols, Kubelet(v) PROVE Knowledge'
  <2>1. \A u \in Vols : call'[u] = call[u] \/ CallKnows(u)'
    BY <1>3 DEF Kubelet, PodArrives, PodLeaves, DirectoryRemoved, GivenUp, TypeOK, CallKnows, NoCall
  <2> QED  BY <1>2, <1>3, <2>1 DEF Kubelet, PodArrives, PodLeaves, DirectoryRemoved, GivenUp
<1>4. ASSUME NEW v \in Vols, PublishVolume(v) PROVE Knowledge'
  <2> USE DEF TypeOK, Calls, CallKnows, NoCall
  <2>1. CASE PublishCalled(v)
    BY <1>2, <2>1 DEF PublishCalled, Answer
  <2>2. CASE PublishFetched(v)
    BY <1>2, <2>2 DEF PublishFetched, Knowledge
  <2>3. CASE PublishFails(v) \/ PublishRefused(v)
    BY <1>2, <2>3 DEF PublishFails, PublishRefused
  <2>4. CASE PublishWrites(v)
    BY <1>2, <2>4 DEF PublishWrites, Knowledge
  <2>5. CASE PublishClaims(v)
    <3>1. call[v].doc \in Told(v) /\ View[v][call[v].doc] # Bad
      BY <2>5 DEF PublishClaims, Knowledge
    <3>2. WatchKnows(Started(v, call[v].doc))
      BY <3>1 DEF Started, Free, WatchKnows
    <3>3. \A u \in Vols : CallKnows(u)'
      BY <2>5 DEF PublishClaims, Knowledge
    <3>4. UNCHANGED <<store, offered>>
      BY <2>5 DEF PublishClaims
    <3>5. \A w \in Watches : watch'[w] = watch[w] \/ watch'[w] = Started(v, call[v].doc)
      BY <2>5 DEF PublishClaims
    <3>6. \A w \in Watches : WatchKnows(watch[w])'
      BY <3>2, <3>4, <3>5 DEF Knowledge, WatchKnows
    <3> QED  BY <3>3, <3>4, <3>6 DEF Knowledge
  <2>6. CASE PublishLists(v)
    BY <1>2, <2>6 DEF PublishLists, Answer
  <2> QED  BY <1>4, <2>1, <2>2, <2>3, <2>4, <2>5, <2>6 DEF PublishVolume
<1>5. ASSUME NEW v \in Vols, UnpublishVolume(v) PROVE Knowledge'
  <2> USE DEF TypeOK, Calls, CallKnows, NoCall
  <2>1. CASE UnpublishReleases(v)
    <3>1. \A t \in WatchStates : WatchKnows(t) => WatchKnows(Stopped(t))
      BY DEF Stopped, Free, WatchStates, WatchKnows
    <3>2. \A u \in Vols : CallKnows(u)'
      BY <2>1 DEF UnpublishReleases, Knowledge
    <3>3. UNCHANGED <<store, offered>>
      BY <2>1 DEF UnpublishReleases
    <3>4. \A w \in Watches : watch'[w] = watch[w] \/ watch'[w] = Stopped(watch[w])
      BY <2>1 DEF UnpublishReleases
    <3>5. \A w \in Watches : WatchKnows(watch'[w])
      BY <3>1, <3>4 DEF Knowledge
    <3>6. \A w \in Watches : WatchKnows(watch[w])'
      BY <3>3, <3>5 DEF WatchKnows
    <3> QED  BY <3>2, <3>3, <3>6 DEF Knowledge
  <2>2. CASE UnpublishUnlists(v)
    BY <1>2, <2>2 DEF UnpublishUnlists
  <2>3. CASE UnpublishEmpties(v)
    BY <1>2, <2>3 DEF UnpublishEmpties
  <2> QED  BY <1>5, <2>1, <2>2, <2>3 DEF UnpublishVolume
<1>6. ASSUME NEW w \in Watches, WatchTask(w) PROVE Knowledge'
  <2>1. PICK t \in WatchStates : Steps(w, t)
    BY <1>6, WatchTaskSteps
  <2>2. UNCHANGED <<store, offered, call>> /\ WatchKnows(t)
    BY <2>1 DEF Steps
  <2>3. \A u \in Watches : watch'[u] = IF u = w THEN t ELSE watch[u]
    BY <2>1 DEF Steps, Becomes, TypeOK
  <2>4. \A u \in Watches : WatchKnows(watch[u])'
    BY <2>2, <2>3 DEF Knowledge, WatchKnows
  <2> QED  BY <2>2, <2>4 DEF Knowledge, CallKnows
<1>7. CASE Restarted
  BY <1>7 DEF Restarted, Knowledge, CallKnows, NoCall, WatchKnows, Free
<1>8. CASE UNCHANGED vars
  BY <1>8 DEF vars, Knowledge, CallKnows, WatchKnows
<1> QED  BY <1>1, <1>3, <1>4, <1>5, <1>6, <1>7, <1>8 DEF Next

(***************************************************************************)
(* The registry.                                                            *)
(***************************************************************************)
\* A claim: the entry is there, or a watch is started for it.
LEMMA ClaimKeeps ==
  ASSUME TypeOK, Knowledge, Registered, NEW v \in Vols, PublishClaims(v)
  PROVE  Registered'
<1> DEFINE k == Key[v]
<1> USE NoneAssumption, KeyAssumption DEF TypeOK
<1>1. /\ call[v].at = "written" /\ k \in Keys
      /\ readers' = [readers EXCEPT ![k] = @ \cup {v}]
      /\ call' = [call EXCEPT ![v].at = "claimed"]
      /\ UNCHANGED <<pod, published>>
  BY DEF PublishClaims
<1>2. Phases' /\ NobodyLeftBehind'
  <2>1. pod[v] \in {"wanted", "leaving"}
    BY <1>1 DEF Registered, Phases, Phase
  <2>2. call'[v].at = "claimed" /\ \A u \in Vols \ {v} : call'[u] = call[u]
    BY <1>1 DEF Calls
  <2>3. \A u \in Vols \ {v} : u \in readers'[Key[u]] => u \in readers[Key[u]]
    BY <1>1
  <2>4. \A u \in Vols : Phase(u)'
    BY <1>1, <2>1, <2>2, <2>3 DEF Registered, Phases, Phase
  <2> QED  BY <1>1, <2>1, <2>3, <2>4 DEF Registered, Phases, NobodyLeftBehind
<1>3. CASE Held(k)
  <2>1. UNCHANGED <<owner, watch>>
    BY <1>3 DEF PublishClaims
  <2>2. \A l \in Keys : Entry(l)'
    BY <1>1, <1>3, <2>1 DEF Registered, Entries, Entry, Held
  <2> QED  BY <1>2, <2>1, <2>2 DEF Registered, Entries, OneWatch, Live
<1>4. CASE ~Held(k)
  <2>1. PICK w \in Watches : /\ watch[w] = Free
                             /\ watch' = [watch EXCEPT ![w] = Started(v, call[v].doc)]
                             /\ owner' = [owner EXCEPT ![k] = w]
    BY <1>4 DEF PublishClaims
  <2>2. readers[k] = {} /\ owner[k] = None
    BY <1>1, <1>4 DEF Held, Registered, Entries, Entry
  <2>3. /\ watch'[w].at = "first" /\ watch'[w].starter = v /\ ~watch'[w].stop
        /\ \A u \in Watches \ {w} : watch'[u] = watch[u]
    BY <2>1 DEF Started, Free
  <2>4. watch[w].at = "free"
    BY <2>1 DEF Free
  <2>5. \A l \in Keys \ {k} : owner'[l] = owner[l] /\ owner[l] # w /\ readers'[l] = readers[l]
    BY <1>1, <2>1, <2>4 DEF Registered, Entries, Entry
  <2>6. \A l \in Keys \ {k} : Entry(l)'
    BY <2>3, <2>5 DEF Registered, Entries, Entry
  <2>7. Entry(k)'
    BY <1>1, <2>1, <2>2, <2>3 DEF Entry
  <2>8. ASSUME NEW u \in Watches, Live(u)' PROVE owner'[Key[watch'[u].starter]] = u
    <3>1. CASE u = w
      BY <1>1, <2>1, <2>3, <3>1
    <3>2. CASE u # w
      <4>1. owner[Key[watch[u].starter]] = u
        BY <2>3, <2>8, <3>2 DEF Live, Registered, OneWatch
      <4>2. watch[u].starter \in Vols
        BY <2>3, <2>8, <3>2 DEF Live, Knowledge, WatchKnows
      <4> QED  BY <2>1, <2>2, <2>3, <3>2, <4>1, <4>2
    <3> QED  BY <3>1, <3>2
  <2> QED  BY <1>2, <2>6, <2>7, <2>8 DEF Registered, Entries, OneWatch
<1> QED  BY <1>3, <1>4

\* A release: the last reader takes the entry with it, and its watch is told.
LEMMA ReleaseKeeps ==
  ASSUME TypeOK, Knowledge, Registered, NEW v \in Vols, UnpublishReleases(v)
  PROVE  Registered'
<1> DEFINE k == Key[v]
<1> USE NoneAssumption, KeyAssumption DEF TypeOK
<1>1. /\ pod[v] = "leaving" /\ k \in Keys
      /\ readers' = [readers EXCEPT ![k] = @ \ {v}]
      /\ call' = [call EXCEPT ![v].at = "released"]
      /\ UNCHANGED <<pod, published>>
  BY DEF UnpublishReleases, Without
<1>2. Phases' /\ NobodyLeftBehind'
  <2>1. call'[v].at = "released" /\ \A u \in Vols \ {v} : call'[u] = call[u]
    BY <1>1 DEF Calls
  <2>2. v \notin readers'[k] /\ \A u \in Vols : u \in readers'[Key[u]] => u \in readers[Key[u]]
    BY <1>1
  <2>3. \A u \in Vols : Phase(u)'
    BY <1>1, <2>1, <2>2 DEF Registered, Phases, Phase
  <2> QED  BY <1>1, <2>2, <2>3 DEF Registered, Phases, NobodyLeftBehind
<1>3. CASE readers[k] # {v}
  <2>1. UNCHANGED <<owner, watch>>
    BY <1>3 DEF UnpublishReleases
  <2>2. readers'[k] = {} <=> readers[k] = {}
    BY <1>1, <1>3
  <2>3. \A l \in Keys : Entry(l)'
    BY <1>1, <2>1, <2>2 DEF Registered, Entries, Entry
  <2> QED  BY <1>2, <2>1, <2>3 DEF Registered, Entries, OneWatch, Live
<1>4. CASE readers[k] = {v}
  <2>1. PICK w \in Watches : w = owner[k] /\ Key[watch[w].starter] = k
    BY <1>1, <1>4 DEF Registered, Entries, Entry
  <2>2. /\ owner' = [owner EXCEPT ![k] = None]
        /\ watch' = [watch EXCEPT ![w] = Stopped(watch[w])]
    BY <1>4, <2>1 DEF UnpublishReleases
  <2>3. \A u \in Watches \ {w} : watch'[u] = watch[u]
    BY <2>2
  <2>4. watch'[w] = Stopped(watch[w])
    BY <2>1, <2>2
  <2>5. ~Live(w)'
    BY <2>1, <2>4 DEF Stopped, Live, Free, WatchStates
  <2>6. \A l \in Keys \ {k} : owner'[l] = owner[l] /\ owner[l] # w /\ readers'[l] = readers[l]
    BY <1>1, <2>1, <2>2 DEF Registered, Entries, Entry
  <2>7. \A l \in Keys \ {k} : Entry(l)'
    BY <2>3, <2>6 DEF Registered, Entries, Entry
  <2>8. Entry(k)'
    BY <1>1, <1>4, <2>2 DEF Entry
  <2>9. ASSUME NEW u \in Watches, Live(u)' PROVE owner'[Key[watch'[u].starter]] = u
    <3>1. u # w
      BY <2>5, <2>9
    <3>2. owner[Key[watch[u].starter]] = u
      BY <2>3, <2>9, <3>1 DEF Live, Registered, OneWatch
    <3>3. watch[u].starter \in Vols
      BY <2>3, <2>9, <3>1 DEF Live, Knowledge, WatchKnows
    <3> QED  BY <2>1, <2>2, <2>3, <3>1, <3>2, <3>3
  <2> QED  BY <1>2, <2>7, <2>8, <2>9 DEF Registered, Entries, OneWatch
<1> QED  BY <1>3, <1>4

\* A watch goes on for its starter, or ends when it was told to.
LEMMA WatchTaskKeeps ==
  ASSUME TypeOK, Knowledge, Registered, NEW w \in Watches, WatchTask(w)
  PROVE  Registered'
<1> USE NoneAssumption, KeyAssumption DEF TypeOK
<1>1. PICK t \in WatchStates : Steps(w, t)
  BY WatchTaskSteps DEF Registered
<1>2. UNCHANGED <<pod, call, published, readers, owner>>
  BY <1>1 DEF Steps
<1>3. \A u \in Watches : watch'[u] = IF u = w THEN t ELSE watch[u]
  BY <1>1 DEF Steps, Becomes
<1>4. ASSUME NEW k \in Keys PROVE Entry(k)'
  <2>1. CASE owner[k] = w
    <3>1. watch[w].at # "free" /\ Key[watch[w].starter] = k /\ ~watch[w].stop
      BY <1>4, <2>1 DEF Registered, Entries, Entry
    <3>2. t.at # "free" /\ t.starter = watch[w].starter /\ t.stop = watch[w].stop
      BY <1>1, <3>1 DEF Steps
    <3> QED  BY <1>2, <1>3, <1>4, <2>1, <3>1, <3>2 DEF Registered, Entries, Entry
  <2>2. CASE owner[k] # w
    BY <1>2, <1>3, <1>4, <2>2 DEF Registered, Entries, Entry
  <2> QED  BY <2>1, <2>2
<1>5. ASSUME NEW u \in Watches, Live(u)' PROVE owner'[Key[watch'[u].starter]] = u
  <2>1. CASE u = w
    <3>1. t.at # "free" /\ t.starter = watch[w].starter /\ t.stop = watch[w].stop /\ Live(w)
      BY <1>1, <1>3, <1>5, <2>1 DEF Steps, Live, Free
    <3> QED  BY <1>2, <1>3, <2>1, <3>1 DEF Registered, OneWatch
  <2>2. CASE u # w
    BY <1>2, <1>3, <1>5, <2>2 DEF Registered, OneWatch, Live
  <2> QED  BY <2>1, <2>2
<1>6. Phases' /\ NobodyLeftBehind'
  BY <1>2 DEF Registered, Phases, Phase, NobodyLeftBehind
<1> QED  BY <1>4, <1>5, <1>6 DEF Registered, Entries, OneWatch

LEMMA RegisteredNext ==
  ASSUME TypeOK, Knowledge, Registered, [Next]_vars
  PROVE  Registered'
<1> USE DEF outside, registry
<1>1. ASSUME UNCHANGED <<readers, owner, watch>>, Phases', NobodyLeftBehind' PROVE Registered'
  BY <1>1 DEF Registered, Entries, Entry, OneWatch, Live
<1>2. ASSUME UNCHANGED <<pod, call, published, readers, owner, watch>> PROVE Registered'
  BY <1>2 DEF Registered, Entries, Entry, OneWatch, Live, Phases, Phase, NobodyLeftBehind
<1>3. ASSUME NEW v \in Vols, Kubelet(v) PROVE Registered'
  <2> USE DEF TypeOK, Calls, NoCall
  <2>1. UNCHANGED <<published, readers, owner, watch>>
    BY <1>3 DEF Kubelet, PodArrives, PodLeaves, DirectoryRemoved, GivenUp
  <2>2. \A u \in Vols \ {v} : pod'[u] = pod[u] /\ call'[u] = call[u]
    BY <1>3 DEF Kubelet, PodArrives, PodLeaves, DirectoryRemoved, GivenUp
  <2>3. /\ Phase(v)'
        /\ pod'[v] \in {"none", "unmounted", "gone"} => pod[v] \in {"none", "unmounted", "gone"}
    <3>1. CASE PodArrives(v)
      BY <3>1 DEF PodArrives, Registered, Phases, Phase
    <3>2. CASE PodLeaves(v)
      BY <3>2 DEF PodLeaves, Registered, Phases, Phase
    <3>3. CASE DirectoryRemoved(v)
      BY <3>3 DEF DirectoryRemoved, Registered, Phases, Phase
    <3>4. CASE GivenUp(v)
      BY <3>4 DEF GivenUp, Registered, Phases, Phase
    <3> QED  BY <1>3, <3>1, <3>2, <3>3, <3>4 DEF Kubelet
  <2>4. Phases'
    BY <2>1, <2>2, <2>3 DEF Registered, Phases, Phase
  <2>5. NobodyLeftBehind'
    BY <2>1, <2>2, <2>3 DEF Registered, NobodyLeftBehind
  <2> QED  BY <1>1, <2>1, <2>4, <2>5
<1>4. ASSUME NEW v \in Vols, PublishVolume(v) PROVE Registered'
  <2> USE DEF TypeOK, Calls, NoCall
  <2>1. CASE PublishClaims(v)
    BY <2>1, ClaimKeeps
  <2>2. CASE ~PublishClaims(v)
    <3>1. /\ UNCHANGED <<readers, owner, watch>>
          /\ \A u \in Vols \ {v} : pod'[u] = pod[u] /\ call'[u] = call[u]
          /\ \A u \in Vols \ {v} : u \in published' <=> u \in published
      BY <1>4, <2>2 DEF PublishVolume, PublishCalled, PublishFetched, PublishFails, PublishRefused,
                        PublishWrites, PublishLists, Answer
    <3>2. Phase(v)' /\ pod'[v] \notin {"none", "unmounted", "gone"}
      <4>1. CASE PublishCalled(v)
        BY <4>1 DEF PublishCalled, Answer, Phase
      <4>2. CASE PublishFetched(v)
        BY <4>2 DEF PublishFetched, Registered, Phases, Phase
      <4>3. CASE PublishFails(v) \/ PublishRefused(v)
        BY <4>3 DEF PublishFails, PublishRefused, Registered, Phases, Phase
      <4>4. CASE PublishWrites(v)
        BY <4>4 DEF PublishWrites, Registered, Phases, Phase
      <4>5. CASE PublishLists(v)
        BY <4>5 DEF PublishLists, Answer, Registered, Phases, Phase
      <4> QED  BY <1>4, <2>2, <4>1, <4>2, <4>3, <4>4, <4>5 DEF PublishVolume
    <3>3. Phases' /\ NobodyLeftBehind'
      BY <3>1, <3>2 DEF Registered, Phases, Phase, NobodyLeftBehind
    <3> QED  BY <1>1, <3>1, <3>3
  <2> QED  BY <2>1, <2>2
<1>5. ASSUME NEW v \in Vols, UnpublishVolume(v) PROVE Registered'
  <2> USE DEF TypeOK, Calls, NoCall
  <2>1. CASE UnpublishReleases(v)
    BY <2>1, ReleaseKeeps
  <2>2. CASE UnpublishUnlists(v)
    <3>1. UNCHANGED <<pod, readers, owner, watch>> /\ published' = published \ {v}
      BY <2>2 DEF UnpublishUnlists
    <3>2. \A u \in Vols : Phase(u)'
      BY <2>2, <3>1 DEF UnpublishUnlists, Registered, Phases, Phase
    <3>3. NobodyLeftBehind'
      BY <3>1 DEF Registered, NobodyLeftBehind
    <3> QED  BY <1>1, <3>1, <3>2, <3>3 DEF Phases
  <2>3. CASE UnpublishEmpties(v)
    <3>1. /\ v \notin readers[Key[v]] /\ v \notin published
          /\ UNCHANGED <<published, readers, owner, watch>>
          /\ call' = [call EXCEPT ![v] = NoCall]
          /\ \A u \in Vols \ {v} : pod'[u] = pod[u]
      BY <2>3 DEF UnpublishEmpties, Registered, Phases, Phase
    <3>2. \A u \in Vols : Phase(u)'
      BY <3>1 DEF Registered, Phases, Phase
    <3>3. NobodyLeftBehind'
      BY <3>1 DEF Registered, NobodyLeftBehind
    <3> QED  BY <1>1, <3>1, <3>2, <3>3 DEF Phases
  <2> QED  BY <1>5, <2>1, <2>2, <2>3 DEF UnpublishVolume
<1>6. CASE Restarted
  <2>1. /\ \A v \in Vols : call'[v].at = "none"
        /\ \A w \in Watches : watch'[w].at = "free"
        /\ \A k \in Keys : readers'[k] = {} /\ owner'[k] = None
        /\ published' = {}
    BY <1>6 DEF Restarted, NoCall, Free
  <2>2. Entries' /\ OneWatch'
    BY <2>1 DEF Entries, Entry, OneWatch, Live
  <2>3. Phases' /\ NobodyLeftBehind'
    BY <2>1, KeyAssumption DEF Phases, Phase, NobodyLeftBehind
  <2> QED  BY <2>2, <2>3 DEF Registered
<1>7. ASSUME NEW w \in Watches, WatchTask(w) PROVE Registered'
  BY <1>7, WatchTaskKeeps
<1>8. ASSUME NEW q \in Questions, NEW d \in Docs, StorePut(q, d) PROVE Registered'
  BY <1>2, <1>8 DEF StorePut
<1>9. CASE UNCHANGED vars
  BY <1>2, <1>9 DEF vars
<1> QED  BY <1>3, <1>4, <1>5, <1>6, <1>7, <1>8, <1>9 DEF Next

(***************************************************************************)
(* The files of mounted pods.                                               *)
(***************************************************************************)
\* Whom a file is kept for.
Owed(v) == pod[v] = "mounted" \/ v \in published \/ call[v].at \in {"written", "claimed"}

\* A pod that came has come, and what a question was answered with stays so.
LEMMA MoreCame ==
  ASSUME Inv, [Next]_vars
  PROVE  /\ \A u \in Vols : pod'[u] = "none" => pod[u] = "none"
         /\ \A u \in Vols : Told(u) \subseteq Told(u)'
<1> USE KeyAssumption DEF Inv, TypeOK, outside, Told
<1>1. ASSUME NEW v \in Vols, Kubelet(v)
      PROVE  UNCHANGED offered /\ \A u \in Vols : pod'[u] = "none" => pod[u] = "none"
  BY <1>1 DEF Kubelet, PodArrives, PodLeaves, DirectoryRemoved, GivenUp
<1>2. ASSUME NEW v \in Vols, PublishVolume(v)
      PROVE  UNCHANGED offered /\ \A u \in Vols : pod'[u] = "none" => pod[u] = "none"
  <2>1. CASE PublishCalled(v) \/ PublishLists(v)
    BY <2>1 DEF PublishCalled, PublishLists, Answer
  <2>2. CASE PublishFetched(v) \/ PublishFails(v) \/ PublishRefused(v)
             \/ PublishWrites(v) \/ PublishClaims(v)
    BY <2>2 DEF PublishFetched, PublishFails, PublishRefused, PublishWrites, PublishClaims
  <2> QED  BY <1>2, <2>1, <2>2 DEF PublishVolume
<1>3. ASSUME NEW v \in Vols, UnpublishVolume(v)
      PROVE  UNCHANGED offered /\ \A u \in Vols : pod'[u] = "none" => pod[u] = "none"
  BY <1>3 DEF UnpublishVolume, UnpublishReleases, UnpublishUnlists, UnpublishEmpties
<1>4. ASSUME NEW w \in Watches, WatchTask(w) PROVE UNCHANGED <<offered, pod>>
  BY <1>4, WatchTaskSteps DEF Registered, Steps
<1>5. ASSUME NEW q \in Questions, NEW d \in Docs, StorePut(q, d)
      PROVE  UNCHANGED pod /\ \A u \in Vols : Told(u) \subseteq Told(u)'
  BY <1>5 DEF StorePut
<1>6. CASE Restarted \/ UNCHANGED vars
  BY <1>6 DEF Restarted, vars
<1> QED  BY <1>1, <1>2, <1>3, <1>4, <1>5, <1>6 DEF Next

\* A watch has the starter it had, or was claimed for one whose pod has come.
LEMMA StartersCameNext ==
  ASSUME Inv, StartersCame, [Next]_vars
  PROVE  StartersCame'
<1> USE NoneAssumption, KeyAssumption DEF Inv, TypeOK, outside, registry
<1>1. ASSUME NEW w \in Watches, watch'[w].at # "free",
             watch[w].at # "free" /\ watch'[w].starter = watch[w].starter
      PROVE  pod'[watch'[w].starter] # "none"
  <2>1. watch[w].starter \in Vols
    BY <1>1 DEF Knowledge, WatchKnows
  <2> QED  BY <1>1, <2>1, MoreCame DEF StartersCame
<1>2. ASSUME UNCHANGED watch PROVE StartersCame'
  BY <1>1, <1>2 DEF StartersCame
<1>3. ASSUME NEW v \in Vols, Kubelet(v) PROVE StartersCame'
  BY <1>2, <1>3 DEF Kubelet, PodArrives, PodLeaves, DirectoryRemoved, GivenUp
<1>4. ASSUME NEW v \in Vols, PublishVolume(v) PROVE StartersCame'
  <2>1. CASE PublishClaims(v)
    <3>1. pod'[v] # "none"
      BY <2>1 DEF PublishClaims, Registered, Phases, Phase
    <3>2. ASSUME NEW x \in Watches, watch' = [watch EXCEPT ![x] = Started(v, call[v].doc)]
          PROVE  StartersCame'
      <4>1. Started(v, call[v].doc).starter = v
        BY DEF Started, Free
      <4>2. watch'[x].starter = v /\ \A w \in Watches \ {x} : watch'[w] = watch[w]
        BY <3>2, <4>1
      <4>3. ASSUME NEW w \in Watches, watch'[w].at # "free" PROVE pod'[watch'[w].starter] # "none"
        BY <1>1, <3>1, <4>2, <4>3
      <4> QED  BY <4>3 DEF StartersCame
    <3> QED  BY <1>2, <2>1, <3>2 DEF PublishClaims
  <2>2. CASE ~PublishClaims(v)
    BY <1>2, <1>4, <2>2 DEF PublishVolume, PublishCalled, PublishFetched, PublishFails, PublishRefused,
                            PublishWrites, PublishLists
  <2> QED  BY <2>1, <2>2
<1>5. ASSUME NEW v \in Vols, UnpublishVolume(v) PROVE StartersCame'
  <2>1. CASE UnpublishReleases(v)
    <3>1. ASSUME NEW w \in Watches, watch'[w].at # "free"
          PROVE  watch[w].at # "free" /\ watch'[w].starter = watch[w].starter
      <4>1. watch'[w] = watch[w] \/ watch'[w] = Stopped(watch[w])
        BY <2>1 DEF UnpublishReleases
      <4>2. /\ Stopped(watch[w]).at # "free" => watch[w].at # "free"
            /\ Stopped(watch[w]).at # "free" => Stopped(watch[w]).starter = watch[w].starter
        BY DEF Stopped, Free, WatchStates
      <4> QED  BY <3>1, <4>1, <4>2
    <3> QED  BY <1>1, <3>1 DEF StartersCame
  <2>2. CASE UnpublishUnlists(v) \/ UnpublishEmpties(v)
    BY <1>2, <2>2 DEF UnpublishUnlists, UnpublishEmpties
  <2> QED  BY <1>5, <2>1, <2>2 DEF UnpublishVolume
<1>6. ASSUME NEW w \in Watches, WatchTask(w) PROVE StartersCame'
  <2>1. PICK t \in WatchStates : Steps(w, t)
    BY <1>6, WatchTaskSteps DEF Registered
  <2>2. ASSUME NEW u \in Watches, watch'[u].at # "free"
        PROVE  watch[u].at # "free" /\ watch'[u].starter = watch[u].starter
    BY <2>1, <2>2 DEF Steps, Becomes, Free
  <2> QED  BY <1>1, <2>2 DEF StartersCame
<1>7. CASE Restarted
  BY <1>7 DEF Restarted, StartersCame, Free
<1>8. ASSUME NEW q \in Questions, NEW d \in Docs, StorePut(q, d) PROVE StartersCame'
  BY <1>2, <1>8 DEF StorePut
<1>9. CASE UNCHANGED vars
  BY <1>2, <1>9 DEF vars
<1> QED  BY <1>3, <1>4, <1>5, <1>6, <1>7, <1>8, <1>9 DEF Next

LEMMA KeptNext ==
  ASSUME Inv, StartersCame, Kept, [Next]_vars
  PROVE  Kept'
<1> USE NoneAssumption, KeyAssumption
        DEF Inv, TypeOK, Calls, NoCall, outside, registry, Told, Owed
<1>1. ASSUME NEW u \in Vols, file'[u] = file[u], HasOwnFile(u)
      PROVE  HasOwnFile(u)'
  BY <1>1, MoreCame DEF HasOwnFile, Came
<1>2. ASSUME \A u \in Vols : Owed(u)' => Owed(u) /\ file'[u] = file[u]
      PROVE  Kept'
  <2>1. \A u \in Vols : Owed(u)' => HasOwnFile(u)'
    BY <1>1, <1>2 DEF Kept
  <2> QED  BY <2>1 DEF Kept
<1>3. ASSUME NEW q \in Questions, NEW d \in Docs, StorePut(q, d) PROVE Kept'
  BY <1>2, <1>3 DEF StorePut
<1>4. ASSUME NEW v \in Vols, Kubelet(v) PROVE Kept'
  <2>1. UNCHANGED offered /\ \A u \in Vols \ {v} : Owed(u)' => Owed(u) /\ file'[u] = file[u]
    BY <1>4 DEF Kubelet, PodArrives, PodLeaves, DirectoryRemoved, GivenUp
  <2>2. Owed(v)' => Owed(v) /\ file'[v] = file[v]
    <3>1. CASE PodArrives(v) \/ PodLeaves(v) \/ GivenUp(v)
      BY <3>1 DEF PodArrives, PodLeaves, GivenUp
    <3>2. CASE DirectoryRemoved(v)
      BY <3>2 DEF DirectoryRemoved, Registered, Phases, Phase, NobodyLeftBehind
    <3> QED  BY <1>4, <3>1, <3>2 DEF Kubelet
  <2> QED  BY <1>2, <2>1, <2>2
<1>5. ASSUME NEW v \in Vols, PublishVolume(v) PROVE Kept'
  <2>1. UNCHANGED offered /\ \A u \in Vols \ {v} : Owed(u)' => Owed(u) /\ file'[u] = file[u]
    <3>1. CASE PublishCalled(v) \/ PublishFetched(v) \/ PublishFails(v) \/ PublishRefused(v)
               \/ PublishClaims(v) \/ PublishLists(v)
      BY <3>1 DEF PublishCalled, PublishFetched, PublishFails, PublishRefused, PublishClaims,
                  PublishLists, Answer
    <3>2. CASE PublishWrites(v)
      BY <3>2 DEF PublishWrites, WriteWorks, Written
    <3> QED  BY <1>5, <3>1, <3>2 DEF PublishVolume
  <2>2. CASE PublishWrites(v) /\ WriteWorks(v, call[v].doc)
    <3>1. call[v].doc \in Told(v)' /\ View[v][call[v].doc] # Bad
      BY <2>2 DEF PublishWrites, Knowledge, CallKnows
    <3>5. v \in Came(Key[v])'
      BY <2>2 DEF PublishWrites, Came, Registered, Phases, Phase
    <3>2. file'[v] = View[v][call[v].doc]
      BY <2>2 DEF WriteWorks, Written
    <3>3. HasOwnFile(v)'
      BY <3>1, <3>2, <3>5 DEF HasOwnFile
    <3>4. \A u \in Vols \ {v} : Owed(u)' => HasOwnFile(u)'
      BY <1>1, <2>1 DEF Kept
    <3> QED  BY <3>3, <3>4 DEF Kept
  <2>3. CASE ~(PublishWrites(v) /\ WriteWorks(v, call[v].doc))
    <3>1. Owed(v)' => Owed(v) /\ file'[v] = file[v]
      <4>1. CASE PublishCalled(v)
        BY <4>1 DEF PublishCalled, Answer
      <4>2. CASE PublishFetched(v) \/ PublishFails(v) \/ PublishRefused(v)
        BY <4>2 DEF PublishFetched, PublishFails, PublishRefused
      <4>3. CASE PublishWrites(v)
        BY <2>3, <4>3 DEF PublishWrites
      <4>4. CASE PublishClaims(v) \/ PublishLists(v)
        BY <4>4 DEF PublishClaims, PublishLists
      <4> QED  BY <1>5, <4>1, <4>2, <4>3, <4>4 DEF PublishVolume
    <3> QED  BY <1>2, <2>1, <3>1
  <2> QED  BY <2>2, <2>3
<1>6. ASSUME NEW v \in Vols, UnpublishVolume(v) PROVE Kept'
  <2>1. UNCHANGED offered /\ \A u \in Vols \ {v} : Owed(u)' => Owed(u) /\ file'[u] = file[u]
    BY <1>6 DEF UnpublishVolume, UnpublishReleases, UnpublishUnlists, UnpublishEmpties
  <2>2. Owed(v)' => Owed(v) /\ file'[v] = file[v]
    <3>1. CASE UnpublishReleases(v) \/ UnpublishUnlists(v)
      BY <3>1 DEF UnpublishReleases, UnpublishUnlists
    <3>2. CASE UnpublishEmpties(v)
      BY <3>2 DEF UnpublishEmpties, Registered, Phases, Phase
    <3> QED  BY <1>6, <3>1, <3>2 DEF UnpublishVolume
  <2> QED  BY <1>2, <2>1, <2>2
<1>7. ASSUME NEW w \in Watches, WatchTask(w) PROVE Kept'
  <2>1. PICK t \in WatchStates : Steps(w, t)
    BY <1>7, WatchTaskSteps DEF Registered
  <2>2. UNCHANGED <<pod, call, published, offered>> /\ MayWrite(watch[w])
    BY <2>1 DEF Steps
  <2>3. watch[w].starter \in Vols
    BY <2>1 DEF Steps, Knowledge, WatchKnows
  <2>4. CASE UNCHANGED file
    BY <1>2, <2>2, <2>4
  <2>5. ASSUME NEW v \in Vols, NEW d \in Told(watch[w].starter), Key[v] = Key[watch[w].starter],
               View[v][d] # Bad, file' = [file EXCEPT ![v] = View[v][d]]
        PROVE  Kept'
    <3> PICK u \in Vols : u = watch[w].starter
      BY <2>3
    <3>1. u \in Came(Key[v])' /\ d \in Told(u)'
      BY <2>1, <2>2, <2>5 DEF StartersCame, Came, Steps
    <3>2. HasOwnFile(v)'
      BY <2>5, <3>1 DEF HasOwnFile
    <3>3. \A x \in Vols \ {v} : Owed(x)' => HasOwnFile(x)'
      BY <1>1, <2>2, <2>5 DEF Kept
    <3> QED  BY <3>2, <3>3 DEF Kept
  <2> QED  BY <2>2, <2>4, <2>5 DEF MayWrite
<1>8. CASE Restarted
  BY <1>2, <1>8 DEF Restarted
<1>9. CASE UNCHANGED vars
  BY <1>2, <1>9 DEF vars
<1> QED  BY <1>3, <1>4, <1>5, <1>6, <1>7, <1>8, <1>9 DEF Next

(***************************************************************************)
(* The theorems.                                                            *)
(***************************************************************************)
LEMMA InvInit == Init => Inv /\ StartersCame /\ Kept
<1> SUFFICES ASSUME Init PROVE Inv /\ StartersCame /\ Kept
  OBVIOUS
<1> USE NoneAssumption, KeyAssumption DEF Init, NoCall
<1>1. Free \in WatchStates /\ WatchKnows(Free)
  BY DEF Free, WatchStates, WatchKnows
<1>2. TypeOK
  BY <1>1, BudgetAssumption DEF TypeOK, Calls, Files
<1>3. Knowledge
  BY <1>1 DEF Knowledge, CallKnows
<1>4. Registered
  BY DEF Registered, Entries, Entry, OneWatch, Live, Free, Phases, Phase, NobodyLeftBehind
<1>5. StartersCame /\ Kept
  BY DEF StartersCame, Kept, Free
<1> QED  BY <1>2, <1>3, <1>4, <1>5 DEF Inv

LEMMA InvAlways == Spec => []Inv
<1>1. Inv /\ [Next]_vars => Inv'
  BY TypeNext, KnowledgeNext, RegisteredNext DEF Inv, Registered
<1> QED  BY <1>1, InvInit, PTL DEF Spec

\* However calls, retries, watches, departures and restarts overlap, every
\* variable has its type (csi.rs, shared.rs and the loop they start).
THEOREM Typed == Spec => []TypeOK
<1>1. Inv => TypeOK
  BY DEF Inv
<1> QED  BY <1>1, InvAlways, PTL

\* A document never has two watches that nobody told to stop, however many
\* volumes share it and however their claims and releases race (shared.rs).
THEOREM WatchesShared == Spec => []OneWatch
<1>1. Inv => OneWatch
  BY DEF Inv, Registered
<1> QED  BY <1>1, InvAlways, PTL

\* The registry forgets every volume by the time the kubelet has (csi.rs,
\* shared.rs), whatever was lost, retried or restarted.
THEOREM NobodyStays == Spec => []NobodyLeftBehind
<1>1. Inv => NobodyLeftBehind
  BY DEF Inv, Registered
<1> QED  BY <1>1, InvAlways, PTL

\* A pod starts on a rendering by its own spec of what was asked for by its
\* key (publish.rs), for any volumes, questions, calls and watches.
THEOREM MountedOnOwnFile == Spec => []MountedHasOwnFile
<1>1. Inv /\ Kept => MountedHasOwnFile
  BY DEF Kept, MountedHasOwnFile, HasOwnFile, Told
<1>2. Inv /\ StartersCame /\ Kept /\ [Next]_vars => StartersCame' /\ Kept'
  BY StartersCameNext, KeptNext
<1> QED  BY <1>1, <1>2, InvInit, InvAlways, PTL DEF Spec
=============================================================================
