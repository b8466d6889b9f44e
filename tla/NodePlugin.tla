----------------------------- MODULE NodePlugin -----------------------------
(***************************************************************************)
(* The node agent: the CSI calls of csi.rs, the registry of shared.rs that  *)
(* shares one watch among the volumes reading one document, and the watch   *)
(* itself, which is run_from of sidecar.rs started with the document the    *)
(* call fetched and told, through `hear`, to fan every accepted one out.    *)
(*                                                                         *)
(* A volume is a target path, so it is published for one pod only.  Handlers *)
(* and watches run on several threads and meet in the registry's mutex: each *)
(* lock, await and write is a step.  The kubelet makes one call at a time   *)
(* for a volume.                                                            *)
(***************************************************************************)
EXTENDS Integers

CONSTANTS
  Vols,          \* target paths
  Keys, Key,     \* Key[v]: the Document a volume's attributes name
  Questions, Question, \* Question[v]: what its source asks the store
  Docs,          \* the documents the store may answer with
  View,          \* View[v][d]: d as v's spec renders it, or Bad
  Bad, NoFile, NoDir, None, Asked,
  Native,        \* the stores push: WatchCapability::Native
  Watches,       \* identities for watch tasks alive at once (a bound)
  Chaos, Budget  \* the outside events that may happen, and how many (a bound)

Texts == {View[v][d] : v \in Vols, d \in Docs} \ {Bad}
Files == Texts \cup {NoFile, NoDir}

ASSUME KeyAssumption == Key \in [Vols -> Keys] /\ Question \in [Vols -> Questions]
ASSUME ViewAssumption == DOMAIN View = Vols /\ \A v \in Vols : DOMAIN View[v] = Docs
ASSUME FileAssumption == {NoFile, NoDir} \cap Texts = {} /\ NoFile # NoDir
ASSUME NoneAssumption ==
  None \notin Docs \cup Texts \cup Watches \cup Vols \cup {Asked} /\ Asked \notin Docs
ASSUME BudgetAssumption == Budget \in Nat

VARIABLES
  store,     \* what the store answers to each question
  offered,   \* history: what it has answered
  spent,     \* outside events so far
  pod,       \* what the kubelet has got to with each volume
  call,      \* the call it has in progress for the volume
  file,      \* the volume's rendered file
  published, \* Plugin.published
  readers,   \* Registry.watched: who reads each document; {} when it is not there
  owner,     \* the watch whose `stop` the registry's entry holds
  watch      \* the watch tasks; `doc` is the document each accepted last

vars == <<store, offered, spent, pod, call, file, published, readers, owner, watch>>
outside == <<store, offered>>
registry == <<readers, owner>>

Calls == [at : {"none", "building", "fetched", "written", "claimed", "released", "unlisted"},
          doc : Docs \cup {None}]
WatchStates ==
  [at : {"free", "first", "telling", "select", "hearing", "reopening", "dead"},
   starter : Vols \cup {None}, doc : Docs \cup {None}, todo : SUBSET Vols,
   rendered : Texts \cup {None}, up : BOOLEAN, seen : Docs \cup {None},
   slot : Docs \cup {None}, resync : Docs \cup {None, Asked}, stop : BOOLEAN]

NoCall == [at |-> "none", doc |-> None]
Free == [at |-> "free", starter |-> None, doc |-> None, todo |-> {}, rendered |-> None,
         up |-> FALSE, seen |-> None, slot |-> None, resync |-> None, stop |-> FALSE]

Init ==
  /\ store \in [Questions -> Docs]
  /\ offered = [q \in Questions |-> {store[q]}]
  /\ spent = 0
  /\ pod = [v \in Vols |-> "none"] /\ call = [v \in Vols |-> NoCall]
  /\ file = [v \in Vols |-> NoDir]
  /\ published = {}
  /\ readers = [k \in Keys |-> {}] /\ owner = [k \in Keys |-> None]
  /\ watch = [w \in Watches |-> Free]

Costs(k) == spent + k <= Budget /\ spent' = spent + k
Happens(kind) == kind \in Chaos /\ Costs(1)

----------------------------------------------------------------------------
(* The store, and the kubelet.                                              *)

\* A new version of a document, or one it has been before.
StorePut(q, d) ==
  /\ Happens(IF d \in offered[q] THEN "revert" ELSE "put") /\ d # store[q]
  /\ store' = [store EXCEPT ![q] = d]
  /\ offered' = [offered EXCEPT ![q] = @ \cup {d}]
  /\ UNCHANGED <<pod, call, file, published, registry, watch>>

PodArrives(v) ==
  /\ pod[v] = "none"
  /\ pod' = [pod EXCEPT ![v] = "wanted"]
  /\ UNCHANGED <<outside, spent, call, file, published, registry, watch>>

PodLeaves(v) ==
  /\ "leave" \in Chaos /\ pod[v] \in {"wanted", "mounted"}
  /\ pod' = [pod EXCEPT ![v] = "leaving"]
  /\ UNCHANGED <<outside, spent, call, file, published, registry, watch>>

\* The answer to a call: lost, it leaves the kubelet where it was, and the
\* call is made again.
Answer(v, to) ==
  /\ call' = [call EXCEPT ![v] = NoCall]
  /\ \/ Costs(0) /\ pod' = [pod EXCEPT ![v] = IF pod[v] = "leaving" THEN @ ELSE to]
     \/ Happens("lost") /\ pod' = pod

\* After an unpublish the kubelet removes the directory, which it cannot while
\* there is a file in it: it then unpublishes again.
DirectoryRemoved(v) ==
  /\ pod[v] = "unmounted"
  /\ IF file[v] \in Texts
       THEN pod' = [pod EXCEPT ![v] = "leaving"] /\ UNCHANGED file
       ELSE pod' = [pod EXCEPT ![v] = "gone"] /\ file' = [file EXCEPT ![v] = NoDir]
  /\ UNCHANGED <<outside, spent, call, published, registry, watch>>

----------------------------------------------------------------------------
(* write_atomically needs the volume's directory.                           *)

\* Mutant of Written: one rendering for every reader of a document.
WrittenShared(v, d, files) ==
  [files EXCEPT ![v] = View[CHOOSE u \in Vols : Key[u] = Key[v]][d]]

Written(v, d, files) == [files EXCEPT ![v] = View[v][d]]

\* The write of v's rendering of d ends in an error and changes nothing.
WriteBreaks(v) ==
  \/ file[v] = NoDir /\ Costs(0)
  \/ file[v] # NoDir /\ Happens("write")

WriteWorks(v, d) ==
  /\ file[v] # NoDir /\ Costs(0)
  /\ file' = Written(v, d, file)

----------------------------------------------------------------------------
(* NodePublishVolume.                                                       *)

\* A target already published is answered at once; any other is parsed, its
\* directory made and its source built.
PublishCalled(v) ==
  /\ pod[v] = "wanted" /\ call[v] = NoCall
  /\ IF v \in published
       THEN Answer(v, "mounted") /\ UNCHANGED file
       ELSE /\ call' = [call EXCEPT ![v].at = "building"]
            /\ file' = [file EXCEPT ![v] = IF @ = NoDir THEN NoFile ELSE @]
            /\ UNCHANGED <<pod, spent>>
  /\ UNCHANGED <<outside, published, registry, watch>>

PublishFetched(v) ==
  /\ call[v].at = "building"
  /\ call' = [call EXCEPT ![v] = [at |-> "fetched", doc |-> store[Question[v]]]]
  /\ UNCHANGED <<outside, spent, pod, file, published, registry, watch>>

\* The source, the fetch: an error, or the kubelet gave up and the handler
\* was dropped where it awaits.
PublishFails(v) ==
  /\ call[v].at = "building" /\ Happens("fetch")
  /\ call' = [call EXCEPT ![v] = NoCall]
  /\ UNCHANGED <<outside, pod, file, published, registry, watch>>

PublishWrites(v) ==
  /\ call[v].at = "fetched" /\ View[v][call[v].doc] # Bad
  /\ \/ WriteWorks(v, call[v].doc) /\ call' = [call EXCEPT ![v].at = "written"]
     \/ WriteBreaks(v) /\ call' = [call EXCEPT ![v] = NoCall] /\ UNCHANGED file
  /\ UNCHANGED <<outside, pod, published, registry, watch>>

PublishRefused(v) ==
  /\ call[v].at = "fetched" /\ View[v][call[v].doc] = Bad
  /\ call' = [call EXCEPT ![v] = NoCall]
  /\ UNCHANGED <<outside, spent, pod, file, published, registry, watch>>

\* Mutant of Held: every claim starts a watch of its own.
HeldByNobody(k) == FALSE

\* Registry::claim finds the document already there.
Held(k) == readers[k] # {}

Started(v, d) == [Free EXCEPT !.at = "first", !.starter = v, !.doc = d]

PublishClaims(v) ==
  /\ call[v].at = "written"
  /\ readers' = [readers EXCEPT ![Key[v]] = @ \cup {v}]
  /\ IF Held(Key[v])
       THEN UNCHANGED <<owner, watch>>
       ELSE \E w \in Watches :
              /\ watch[w] = Free
              /\ watch' = [watch EXCEPT ![w] = Started(v, call[v].doc)]
              /\ owner' = [owner EXCEPT ![Key[v]] = w]
  /\ call' = [call EXCEPT ![v].at = "claimed"]
  /\ UNCHANGED <<outside, spent, pod, file, published>>

PublishLists(v) ==
  /\ call[v].at = "claimed"
  /\ published' = published \cup {v}
  /\ Answer(v, "mounted")
  /\ UNCHANGED <<outside, file, registry, watch>>

----------------------------------------------------------------------------
(* NodeUnpublishVolume, and the plugin's process going away.                *)

\* Mutant of Stopped: the watch is not told.
StoppedUntold(t) == t

\* The watch is told to stop; one that has already ended is gone with its entry.
Stopped(t) == IF t.at = "dead" THEN Free ELSE [t EXCEPT !.stop = TRUE]

\* Mutant of Without: readers are counted, and the last one out is whoever asks.
WithoutLast(k, v) == IF readers[k] = {v} THEN {} ELSE readers[k]

\* The targets that go on reading k.
Without(k, v) == readers[k] \ {v}

\* Registry::release: the last reader takes the entry with it.
UnpublishReleases(v) ==
  LET k == Key[v]
  IN /\ pod[v] = "leaving" /\ call[v] = NoCall
     /\ readers' = [readers EXCEPT ![k] = Without(k, v)]
     /\ IF readers[k] = {v}
          THEN /\ owner' = [owner EXCEPT ![k] = None]
               /\ watch' = [watch EXCEPT ![owner[k]] = Stopped(@)]
          ELSE UNCHANGED <<owner, watch>>
     /\ call' = [call EXCEPT ![v].at = "released"]
     /\ UNCHANGED <<outside, spent, pod, file, published>>

UnpublishUnlists(v) ==
  /\ call[v].at = "released"
  /\ published' = published \ {v}
  /\ call' = [call EXCEPT ![v].at = "unlisted"]
  /\ UNCHANGED <<outside, spent, pod, file, registry, watch>>

\* Whether the answer reaches the kubelet or not.
UnpublishEmpties(v) ==
  /\ call[v].at = "unlisted"
  /\ file' = [file EXCEPT ![v] = IF @ = NoDir THEN NoDir ELSE NoFile]
  /\ call' = [call EXCEPT ![v] = NoCall]
  /\ \/ Costs(0) /\ pod' = [pod EXCEPT ![v] = "unmounted"]
     \/ Happens("lost") /\ pod' = pod
  /\ UNCHANGED <<outside, published, registry, watch>>

\* A call the store does not answer is given up on at the kubelet's deadline,
\* and the pod's deletion goes on.
GivenUp(v) ==
  /\ pod[v] = "leaving" /\ call[v].at = "building"
  /\ call' = [call EXCEPT ![v] = NoCall]
  /\ UNCHANGED <<outside, spent, pod, file, published, registry, watch>>

\* The process dies and a new one takes its socket: the volumes stay.
Restarted ==
  /\ Happens("restart")
  /\ call' = [v \in Vols |-> NoCall]
  /\ published' = {}
  /\ readers' = [k \in Keys |-> {}] /\ owner' = [k \in Keys |-> None]
  /\ watch' = [w \in Watches |-> Free]
  /\ UNCHANGED <<outside, pod, file>>

----------------------------------------------------------------------------
(* The watch task: run_from, with `hear` as fan_out.                        *)

Becomes(w, t) == watch' = [watch EXCEPT ![w] = t]

\* Mutant of Others: nobody else hears.
OthersUntold(t) == {}

\* The readers of the document but the one the loop publishes for.
Others(t) == readers[Key[t.starter]] \ {t.starter}

\* The first document is written for the starter again and every reader hears
\* it; a write that fails ends run_from, and the registry's entry stays.
WatchStarts(w) ==
  LET t == watch[w]
  IN /\ t.at = "first"
     /\ \/ /\ WriteWorks(t.starter, t.doc)
           /\ Becomes(w, [t EXCEPT !.at = "telling", !.todo = Others(t),
                                   !.rendered = View[t.starter][t.doc]])
        \/ /\ WriteBreaks(t.starter) /\ UNCHANGED file
           /\ Becomes(w, IF t.stop THEN Free
                         ELSE [Free EXCEPT !.at = "dead", !.starter = t.starter])
     /\ UNCHANGED <<outside, pod, call, published, registry>>

\* fan_out: the document rendered for one reader; a failure is only logged.
FansOut(w, v) ==
  LET t == watch[w]
  IN /\ t.at \in {"telling", "hearing"} /\ v \in t.todo
     /\ \/ View[v][t.doc] # Bad /\ WriteWorks(v, t.doc)
        \/ View[v][t.doc] # Bad /\ WriteBreaks(v) /\ UNCHANGED file
        \/ View[v][t.doc] = Bad /\ UNCHANGED <<file, spent>>
     /\ Becomes(w, [t EXCEPT !.todo = @ \ {v}])
     /\ UNCHANGED <<outside, pod, call, published, registry>>

Opened(t) == [t EXCEPT !.at = "select", !.up = TRUE, !.seen = store[Question[t.starter]]]

WatchOpens(w) ==
  LET t == watch[w]
  IN /\ \/ t.at = "telling" /\ t.todo = {}
        \/ t.at = "reopening"
     /\ Becomes(w, Opened(t))
     /\ UNCHANGED <<outside, spent, pod, call, file, published, registry>>

\* Mutant of Moved: a document that does not render is a change as well.
MovedUnrendered(t, d) == View[t.starter][d] # t.rendered

\* The slot's document renders for the starter, and differently than before.
Moved(t, d) == View[t.starter][d] \notin {Bad, t.rendered}

Delivers(w) ==
  LET t == watch[w]
      d == t.slot
  IN /\ t.at = "select" /\ d # None
     /\ Becomes(w, IF Moved(t, d)
                     THEN [t EXCEPT !.slot = None, !.at = "hearing", !.doc = d, !.todo = Others(t)]
                     ELSE [t EXCEPT !.slot = None])
     /\ UNCHANGED <<outside, spent, pod, call, file, published, registry>>

\* Only after the others have heard is the starter's own file published, and
\* a failure of that leaves `rendered` as it was.
WatchPublishes(w) ==
  LET t == watch[w]
      rest == [t EXCEPT !.at = "select"]
  IN /\ t.at = "hearing" /\ t.todo = {}
     /\ \/ /\ WriteWorks(t.starter, t.doc)
           /\ Becomes(w, [rest EXCEPT !.rendered = View[t.starter][t.doc]])
        \/ WriteBreaks(t.starter) /\ UNCHANGED file /\ Becomes(w, rest)
     /\ UNCHANGED <<outside, pod, call, published, registry>>

WatchStops(w) ==
  /\ watch[w].at = "select" /\ watch[w].stop
  /\ Becomes(w, Free)
  /\ UNCHANGED <<outside, spent, pod, call, file, published, registry>>

WatchReopens(w) ==
  /\ watch[w].at = "select" /\ ~watch[w].up
  /\ Becomes(w, [watch[w] EXCEPT !.at = "reopening"])
  /\ UNCHANGED <<outside, spent, pod, call, file, published, registry>>

\* The store's stream, on a task of its own: a change, or its end, which may
\* come as often as it likes.
Pushes(w) ==
  LET now == store[Question[watch[w].starter]]
  IN /\ watch[w].up /\ watch[w].seen # now
     /\ Becomes(w, [watch[w] EXCEPT !.seen = now, !.slot = now])
     /\ UNCHANGED <<outside, spent, pod, call, file, published, registry>>

Drops(w) ==
  /\ watch[w].up /\ "drop" \in Chaos
  /\ Becomes(w, [watch[w] EXCEPT !.up = FALSE])
  /\ UNCHANGED <<outside, spent, pod, call, file, published, registry>>

\* The resync of a store that pushes: asked, answered, put into the slot.
Resyncs(w) ==
  LET t == watch[w]
  IN /\ Native
     /\ \/ t.at = "select" /\ t.resync = None /\ Becomes(w, [t EXCEPT !.resync = Asked])
        \/ t.resync = Asked /\ Becomes(w, [t EXCEPT !.resync = store[Question[t.starter]]])
        \/ t.resync \in Docs /\ Becomes(w, [t EXCEPT !.resync = None, !.slot = t.resync])
     /\ UNCHANGED <<outside, spent, pod, call, file, published, registry>>

----------------------------------------------------------------------------

Kubelet(v) == PodArrives(v) \/ PodLeaves(v) \/ DirectoryRemoved(v) \/ GivenUp(v)

PublishVolume(v) ==
  \/ PublishCalled(v) \/ PublishFetched(v) \/ PublishFails(v) \/ PublishRefused(v)
  \/ PublishWrites(v) \/ PublishClaims(v) \/ PublishLists(v)

UnpublishVolume(v) == UnpublishReleases(v) \/ UnpublishUnlists(v) \/ UnpublishEmpties(v)

WatchTask(w) ==
  \/ WatchStarts(w) \/ WatchOpens(w) \/ Delivers(w) \/ WatchPublishes(w)
  \/ WatchStops(w) \/ WatchReopens(w) \/ Pushes(w) \/ Drops(w) \/ Resyncs(w)
  \/ \E v \in Vols : FansOut(w, v)

Next ==
  \/ \E q \in Questions, d \in Docs : StorePut(q, d)
  \/ \E v \in Vols : Kubelet(v) \/ PublishVolume(v) \/ UnpublishVolume(v)
  \/ \E w \in Watches : WatchTask(w)
  \/ Restarted

Spec == Init /\ [][Next]_vars

(* The kubelet retries and removes, a handler past its awaits runs to its    *)
(* end, the arms of select! are polled in a random order.                   *)
LocalFairness ==
  /\ \A v \in Vols :
       /\ WF_vars(DirectoryRemoved(v)) /\ WF_vars(GivenUp(v)) /\ WF_vars(PublishCalled(v))
       /\ WF_vars(PublishRefused(v) \/ PublishWrites(v) \/ PublishClaims(v) \/ PublishLists(v))
       /\ WF_vars(UnpublishVolume(v))
  /\ \A w \in Watches :
       /\ WF_vars(WatchStarts(w)) /\ WF_vars(WatchOpens(w)) /\ WF_vars(WatchPublishes(w))
       /\ WF_vars(\E v \in Vols : FansOut(w, v))
       /\ SF_vars(Delivers(w)) /\ SF_vars(WatchStops(w)) /\ SF_vars(WatchReopens(w))

\* The stores answer what they are asked, and push what changes.
StoreFairness ==
  /\ \A v \in Vols : WF_vars(PublishFetched(v))
  /\ \A w \in Watches : WF_vars(Pushes(w)) /\ SF_vars(Resyncs(w))

LocalSpec == Spec /\ LocalFairness
FairSpec == LocalSpec /\ StoreFairness

----------------------------------------------------------------------------
(* Properties.                                                              *)

TypeOK ==
  /\ store \in [Questions -> Docs] /\ offered \in [Questions -> SUBSET Docs]
  /\ spent \in Nat
  /\ pod \in [Vols -> {"none", "wanted", "mounted", "leaving", "unmounted", "gone"}]
  /\ call \in [Vols -> Calls]
  /\ file \in [Vols -> Files]
  /\ published \subseteq Vols
  /\ readers \in [Keys -> SUBSET Vols] /\ owner \in [Keys -> Watches \cup {None}]
  /\ watch \in [Watches -> WatchStates]

\* The volumes of one key whose pods have come.
Came(k) == {u \in Vols : Key[u] = k /\ pod[u] # "none"}

\* A pod's containers start on a file that is there: a mounted volume holds a
\* rendering, by its own spec, of a document that was asked for by its key -
\* whoever fetched it, whichever watch wrote it and for whomever it was started.
\* Volumes of one key need not ask the same question (publish.rs:127): what one
\* of them never asked for it is given only when another, who did, has come.
MountedHasOwnFile ==
  \A v \in Vols : pod[v] = "mounted" =>
    \E u \in Came(Key[v]) : \E d \in offered[Question[u]] :
      file[v] = View[v][d] /\ file[v] # Bad

Live(w) == watch[w].at \notin {"free", "dead"} /\ ~watch[w].stop

\* However calls are retried and race, one document has at most one watch that
\* has not been told to stop, and it is the one its registry entry would stop.
OneWatch ==
  \A w \in Watches : Live(w) => owner[Key[watch[w].starter]] = w

\* The registry holds nobody who is not being published or unpublished or is
\* mounted: no target is left behind to be written to when its pod is gone.
NobodyLeftBehind ==
  \A v \in Vols :
    (pod[v] \in {"none", "unmounted", "gone"}) => v \notin readers[Key[v]] /\ v \notin published

\* Unpublishing waits for no store: a deleted pod's volume goes, whatever was
\* in flight for it, lost or restarted, and when the last pods are gone so is
\* every watch.
EverybodyLeaves ==
  /\ \A v \in Vols : (pod[v] = "leaving") ~> (pod[v] = "gone")
  /\ <>[](\A v \in Vols : pod[v] \in {"none", "gone"}) => <>[](\A w \in Watches : watch[w] = Free)

\* Nothing fails or restarts, nobody departs, and what watches k is s's.
Calm(s, k) ==
  /\ Chaos \cap {"write", "restart"} = {}
  /\ \A u \in Vols : pod[u] \in {"none", "wanted", "mounted"}
  /\ \A w \in Watches : Live(w) /\ Key[watch[w].starter] = k => watch[w].starter = s

\* No other answer to the starter's question rendered for the starter as d does.
News(s, d) == View[s][d] \notin {View[s][e] : e \in offered[Question[s]] \ {d}}

\* While no write fails, the plugin lives and nobody departs: the volume that
\* started the watch follows its store. The store settles, and the file is and
\* stays the settled document, whatever the stream missed. And what sharing is
\* for: a version that comes after a volume was mounted reaches that volume
\* through another's watch as well - if it is the answer to the starter's
\* question, renders for the starter, and renders for it differently than all
\* there was. Of a change that the starter's section does not show the other
\* readers hear nothing.
ReadersFollow ==
  \A s \in Vols :
    LET now == store[Question[s]] IN
    /\ ([]Calm(s, Key[s]) /\ <>[][UNCHANGED store]_store
        /\ <>[](pod[s] = "mounted" /\ View[s][now] # Bad))
         => <>[](file[s] = View[s][now])
    /\ \A v \in {u \in Vols \ {s} : Key[u] = Key[s]} :
         \A d \in {e \in Docs : Bad \notin {View[s][e], View[v][e]}} :
           (/\ []Calm(s, Key[s])
            /\ <>(/\ pod[v] = "mounted" /\ d \notin offered[Question[s]]
                  /\ <>[](now = d /\ News(s, d))))
             => <>[](file[v] = View[v][d])

=============================================================================
