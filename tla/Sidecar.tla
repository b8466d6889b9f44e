------------------------------ MODULE Sidecar ------------------------------
(***************************************************************************)
(* The agent's run loop: sidecar.rs `run_from` with the delivery slot of    *)
(* sources.rs and the container restarts around it, for a source that      *)
(* issues no lease (the renewal arm's guard, lease.is_some(), is false).    *)
(*                                                                         *)
(* The volume (`file`) is an emptyDir: it outlives the process, everything *)
(* else the loop knows does not.  Tokio runs the loop, the store's watch   *)
(* and the spawned resync tasks on several threads, so each await and each *)
(* rename is a step of its own.                                            *)
(***************************************************************************)
EXTENDS Integers

CONSTANTS
  Docs,           \* the documents the store may hold
  Valid,          \* those that resolve, satisfy the schema and render
  N,              \* rendered files: 1 is --out, 2..N the `also` renderings
  Texts,          \* rendered texts, none of them blank
  Text,           \* Text[d][o]: the text of file o cut from document d
  NoDoc, None,    \* "the store answers Absent", "no value"
  Missing, Empty, Foreign, \* no file; a blank file; bytes the agent did not write
  StartupPolicy, OnDelete, OnDrift, \* the three policies of Spec
  Native,         \* source.capability() == WatchCapability::Native
  Canary,         \* spec.canary.is_some()
  TlsReload,      \* spec.tls_reload, with trust material on disk
  Tasks,          \* identities for resync tasks alive at once (a bound)
  Chaos,          \* the kinds of outside events that may happen
  Budget          \* how many of them may happen (a bound)

Outs == 1..N
Disk == Texts \cup {Missing, Empty, Foreign}
Sets == [Outs -> Disk]
Origins == {"first", "delivery", "canary", "repair"}
Jobs == [set : Sets, next : Outs, from : Origins]
TaskStates == [at : {"free", "asked", "told", "emptying", "done"},
               got : Docs \cup {NoDoc, None}, next : Outs, mine : BOOLEAN]

ASSUME NAssumption == N \in Nat \ {0}
ASSUME BudgetAssumption == Budget \in Nat
ASSUME ValidAssumption == Valid \subseteq Docs
ASSUME TextAssumption == Text \in [Docs -> [Outs -> Texts]]
ASSUME BlankAssumption ==
  /\ {Missing, Empty, Foreign} \cap Texts = {}
  /\ Missing # Empty /\ Missing # Foreign /\ Empty # Foreign
ASSUME NoneAssumption ==
  /\ None \notin Docs \cup {NoDoc} \cup Sets \cup Jobs
  /\ NoDoc \notin Docs
ASSUME PolicyAssumption ==
  /\ StartupPolicy \in {"allow-cached", "require-fresh", "best-effort"}
  /\ OnDelete \in {"retain", "remove", "fail"}
  /\ OnDrift \in {"warn", "repair", "fail"}
  /\ {Native, Canary, TlsReload} \subseteq BOOLEAN

VARIABLES
  store,     \* what the store holds now: a document or NoDoc
  offered,   \* history: every document the store has held
  admitted,  \* the mounted percentage admits this pod's bucket
  spent,     \* outside events so far
  happened,  \* history: which kinds in Telling they were of
  file,      \* the volume: what each output file contains
  pc,        \* where the process and its loop are
  job,       \* the publish in progress
  rendered,  \* the set the loop believes it published last
  withheld,  \* the set held back by the canary
  up, seen,  \* the watch: running, and the store value it last saw
  slot,      \* the one-document delivery slot, None when it is empty
  tasks,     \* the resync tasks
  gone,      \* the `gone` channel of this run
  absent,    \* the `absent` gauge
  last       \* history: the document the loop took last

world == <<store, offered, admitted, spent, happened>>
memory == <<rendered, withheld>>
stream == <<up, seen>>
vars == <<store, offered, admitted, spent, happened, file, pc, job, rendered, withheld,
          up, seen, slot, tasks, gone, absent, last>>

Idle == [at |-> "free", got |-> None, next |-> 1, mine |-> FALSE]

Init ==
  /\ store \in Docs \cup {NoDoc}
  /\ offered = {store} \ {NoDoc}
  /\ admitted = FALSE
  /\ spent = 0 /\ happened = {}
  /\ file = [o \in Outs |-> Missing]
  /\ pc = "starting" /\ job = None
  /\ rendered = None /\ withheld = None
  /\ up = FALSE /\ seen = None /\ slot = None
  /\ tasks = [i \in Tasks |-> Idle]
  /\ gone = FALSE /\ absent = FALSE /\ last = None

----------------------------------------------------------------------------
(* What the outside does.  Each event is of a kind in Chaos and costs one  *)
(* unit of Budget; k = 0 is for a step that costs nothing.                 *)

\* The kinds the properties ask about afterwards.
Telling == {"tamper", "write", "narrow"}

Costs(k, kinds) ==
  /\ spent + k <= Budget /\ spent' = spent + k
  /\ happened' = happened \cup (kinds \cap Telling)

Happens(kind) == kind \in Chaos /\ Costs(1, {kind})

StorePut(d) ==
  /\ Happens("put") /\ d # store
  /\ store' = d /\ offered' = offered \cup {d}
  /\ UNCHANGED <<admitted, file, pc, job, memory, stream, slot, tasks, gone, absent, last>>

StoreDelete ==
  /\ Happens("delete") /\ store # NoDoc
  /\ store' = NoDoc
  /\ UNCHANGED <<offered, admitted, file, pc, job, memory, stream, slot, tasks, gone, absent, last>>

\* Somebody edits the percentage, and the kubelet rewrites the mounted file.
Widen ==
  /\ Canary /\ Happens("widen") /\ ~admitted
  /\ admitted' = TRUE
  /\ UNCHANGED <<store, offered, file, pc, job, memory, stream, slot, tasks, gone, absent, last>>

Narrow ==
  /\ Canary /\ Happens("narrow") /\ admitted
  /\ admitted' = FALSE
  /\ UNCHANGED <<store, offered, file, pc, job, memory, stream, slot, tasks, gone, absent, last>>

\* Something else in the pod writes to a rendered file.
Tamper(o) ==
  /\ Happens("tamper") /\ file[o] # Foreign
  /\ file' = [file EXCEPT ![o] = Foreign]
  /\ UNCHANGED <<store, offered, admitted, pc, job, memory, stream, slot, tasks, gone, absent, last>>

----------------------------------------------------------------------------
(* The process ending and coming back.                                     *)

\* Everything but the volume goes with the process.
Exit(to) ==
  /\ pc' = to /\ job' = None
  /\ rendered' = None /\ withheld' = None
  /\ up' = FALSE /\ seen' = None /\ slot' = None
  /\ tasks' = [i \in Tasks |-> Idle]
  /\ gone' = FALSE /\ absent' = FALSE /\ last' = None

\* An Err out of main: the container ends, and the kubelet restarts it.
Die == Exit("down")

Crash ==
  /\ pc \notin {"down", "stopped"} /\ Happens("crash")
  /\ Die
  /\ UNCHANGED <<store, offered, admitted, file>>

\* The kubelet restarts the container.
Restart ==
  /\ pc = "down"
  /\ pc' = "starting"
  /\ UNCHANGED <<world, file, job, memory, stream, slot, tasks, gone, absent, last>>

----------------------------------------------------------------------------
(* Coming up: the initial fetch, what a failure of it means, the watch.    *)

\* Mutant of Renders: an invalid document is rendered all the same.
RendersAnything(d) == d \in Docs

\* render_all answers Ok: under the ceiling, resolved, valid and rendered.
Renders(d) == d \in Valid

\* The watch starts from the value the store holds when it opens.
OpenWatch == pc' = "select" /\ up' = TRUE /\ seen' = store

\* publish is entered with a set to write, one rename at a time.
Publish(set, from) ==
  /\ pc' = "writing"
  /\ job' = [set |-> set, next |-> 1, from |-> from]

StartFetched ==
  /\ pc = "starting" /\ Renders(store)
  /\ Publish(Text[store], "first")
  /\ last' = store
  /\ UNCHANGED <<world, file, memory, stream, slot, tasks, gone, absent>>

\* render_all refuses the first document: `?` ends the agent.
StartRefused ==
  /\ pc = "starting" /\ store \in Docs /\ ~Renders(store)
  /\ Die
  /\ UNCHANGED <<world, file>>

FetchFails(k, kinds) ==
  \/ store = NoDoc /\ Costs(k, kinds)
  \/ "fetch" \in Chaos /\ Costs(k + 1, kinds)

\* Mutant of OnDisk: a file that cannot be read stays unread.
OnDiskUnread(files) == [o \in Outs |-> IF files[o] = Missing THEN None ELSE files[o]]

\* Mutant of OnDisk: only the main file is read back.
OnDiskMainOnly(files) == [o \in Outs |-> IF o = 1 THEN files[o] ELSE Empty]

\* on_disk: a file that cannot be read counts as an empty one.
OnDisk(files) == [o \in Outs |-> IF files[o] = Missing THEN Empty ELSE files[o]]

CachedMain == file[1] \notin {Missing, Empty}

StartAllowCached ==
  /\ pc = "starting" /\ StartupPolicy = "allow-cached" /\ CachedMain
  /\ FetchFails(0, {})
  /\ OpenWatch
  /\ rendered' = OnDisk(file)
  /\ UNCHANGED <<store, offered, admitted, file, job, withheld, slot, tasks, gone, absent, last>>

StartBestEffort ==
  /\ pc = "starting" /\ StartupPolicy = "best-effort"
  /\ FetchFails(0, {})
  /\ OpenWatch
  /\ file' = OnDisk(file)
  /\ rendered' = OnDisk(file)
  /\ UNCHANGED <<store, offered, admitted, job, withheld, slot, tasks, gone, absent, last>>

\* The nth empty file cannot be written: `?`, with the earlier ones there.
StartBestEffortFails ==
  /\ pc = "starting" /\ StartupPolicy = "best-effort"
  /\ "write" \in Chaos /\ FetchFails(1, {"write"})
  /\ \E n \in Outs :
       /\ file[n] \in {Missing, Empty}
       /\ file' = [o \in Outs |-> IF o < n THEN OnDisk(file)[o] ELSE file[o]]
  /\ Die
  /\ UNCHANGED <<store, offered, admitted>>

StartFails ==
  /\ pc = "starting"
  /\ \/ StartupPolicy = "require-fresh"
     \/ StartupPolicy = "allow-cached" /\ ~CachedMain
  /\ FetchFails(0, {})
  /\ Die
  /\ UNCHANGED <<store, offered, admitted, file>>

----------------------------------------------------------------------------
(* publish: write_atomically for each file in turn.                        *)

WriteFile ==
  /\ pc = "writing"
  /\ file' = [file EXCEPT ![job.next] = job.set[job.next]]
  /\ IF job.next < N
       THEN /\ job' = [job EXCEPT !.next = @ + 1]
            /\ UNCHANGED <<pc, rendered, stream, absent>>
       ELSE /\ job' = None
            /\ rendered' = job.set
            /\ absent' = FALSE
            /\ IF job.from = "first" THEN OpenWatch
               ELSE pc' = "select" /\ UNCHANGED stream
  /\ UNCHANGED <<world, withheld, slot, tasks, gone, last>>

\* An error before the rename: what was renamed before it stays, and the
\* loop goes on believing in the set it published before.
WriteFails ==
  /\ pc = "writing" /\ job.from # "first" /\ Happens("write")
  /\ pc' = "select" /\ job' = None
  /\ UNCHANGED <<store, offered, admitted, file, memory, stream, slot, tasks, gone, absent, last>>

FirstWriteFails ==
  /\ pc = "writing" /\ job.from = "first" /\ Happens("write")
  /\ Die
  /\ UNCHANGED <<store, offered, admitted, file>>

----------------------------------------------------------------------------
(* The arms of the loop's select!.                                         *)

\* Mutant of Admits: the cohort is not asked.
AdmitsAlways == TRUE

\* canary::admitted for this pod's bucket; no canary admits everybody.
Admits == Canary => admitted

\* `unchanged`: against what the loop published, not against the disk.
Unchanged(fresh) == rendered = fresh

Stop ==
  /\ pc = "select" /\ Happens("stop")
  /\ Exit("stopped")
  /\ UNCHANGED <<store, offered, admitted, file>>

\* The slot's document, through render_all, `unchanged`, the canary and publish.
Deliver ==
  /\ pc = "select" /\ slot # None
  /\ slot' = None /\ last' = slot
  /\ LET fresh == Text[slot]
         moved == Renders(slot) /\ ~Unchanged(fresh)
     IN \/ moved /\ Admits /\ Publish(fresh, "delivery") /\ UNCHANGED withheld
        \/ moved /\ ~Admits /\ withheld' = fresh /\ UNCHANGED <<pc, job>>
        \/ ~moved /\ UNCHANGED <<pc, job, withheld>>
  /\ UNCHANGED <<world, file, rendered, stream, tasks, gone, absent>>

\* canarying.tick, when the cohort now includes this pod.
CanaryTick ==
  /\ pc = "select" /\ withheld # None /\ Admits
  /\ withheld' = None
  /\ Publish(withheld, "canary")
  /\ UNCHANGED <<world, file, rendered, stream, slot, tasks, gone, absent, last>>

Drifted == \E o \in Outs : file[o] # rendered[o]

\* drifting.tick under Repair; Warn changes nothing but a gauge.
DriftRepair ==
  /\ pc = "select" /\ Drifted /\ OnDrift = "repair"
  /\ Publish(rendered, "repair")
  /\ UNCHANGED <<world, file, memory, stream, slot, tasks, gone, absent, last>>

DriftFail ==
  /\ pc = "select" /\ Drifted /\ OnDrift = "fail"
  /\ Die
  /\ UNCHANGED <<world, file>>

\* is_gone.changed(): OnDelete::Fail ends the agent.
GoneEnds ==
  /\ pc = "select" /\ gone
  /\ Die
  /\ UNCHANGED <<world, file>>

\* trusting.tick saw settled new material: main builds a new source and runs
\* again.  The JoinHandle of a resync in flight is dropped, which detaches it.
Rebuild ==
  /\ pc = "select" /\ TlsReload /\ Happens("rotate")
  /\ pc' = "starting"
  /\ rendered' = None /\ withheld' = None
  /\ up' = FALSE /\ seen' = None /\ slot' = None /\ gone' = FALSE /\ last' = None
  /\ tasks' = [i \in Tasks |-> IF tasks[i].at = "done" THEN Idle
                              ELSE [tasks[i] EXCEPT !.mine = FALSE]]
  /\ UNCHANGED <<store, offered, admitted, file, job, absent>>

\* The source cannot be built from the new material: fatal.
RebuildFails ==
  /\ pc = "select" /\ TlsReload /\ Happens("rotate")
  /\ Die
  /\ UNCHANGED <<store, offered, admitted, file>>

\* resync.tick: one at a time, and only for a store that pushes.
ResyncStart(i) ==
  /\ pc = "select" /\ Native
  /\ \A j \in Tasks : ~tasks[j].mine
  /\ tasks[i] = Idle
  /\ tasks' = [tasks EXCEPT ![i] = [Idle EXCEPT !.at = "asked", !.mine = TRUE]]
  /\ UNCHANGED <<world, file, pc, job, memory, stream, slot, gone, absent, last>>

ResyncReap(i) ==
  /\ pc = "select" /\ tasks[i].mine /\ tasks[i].at = "done"
  /\ tasks' = [tasks EXCEPT ![i] = Idle]
  /\ UNCHANGED <<world, file, pc, job, memory, stream, slot, gone, absent, last>>

\* The watch ended; the wait before it is reopened is awaited inside the arm,
\* so no other arm runs until Reopen.
WatchEnded ==
  /\ pc = "select" /\ ~up
  /\ pc' = "reopening"
  /\ UNCHANGED <<world, file, job, memory, stream, slot, tasks, gone, absent, last>>

Reopen ==
  /\ pc = "reopening"
  /\ OpenWatch
  /\ UNCHANGED <<world, file, job, memory, slot, tasks, gone, absent, last>>

----------------------------------------------------------------------------
(* The watch task: a change is pushed into the slot, over whatever is       *)
(* there; a deletion is not a document.                                     *)

WatchPush ==
  /\ up /\ seen # store
  /\ seen' = store
  /\ slot' = IF store \in Docs THEN store ELSE slot
  /\ UNCHANGED <<world, file, pc, job, memory, up, tasks, gone, absent, last>>

WatchDrops ==
  /\ up /\ Happens("watch")
  /\ up' = FALSE
  /\ UNCHANGED <<store, offered, admitted, file, pc, job, memory, seen, slot, tasks, gone, absent, last>>

----------------------------------------------------------------------------
(* A resync task, the current run's or one a rebuild left behind.  A        *)
(* detached task's channels have no receiver, and its files are the same.  *)

\* Mutant of Finished: the loop never learns that its task ended.
FinishedUnreaped(t) == [Idle EXCEPT !.mine = t.mine]

Finished(t) == IF t.mine THEN [Idle EXCEPT !.at = "done", !.mine = TRUE] ELSE Idle

ResyncAnswered(i) ==
  /\ tasks[i].at = "asked"
  /\ tasks' = [tasks EXCEPT ![i].at = "told", ![i].got = store]
  /\ UNCHANGED <<world, file, pc, job, memory, stream, slot, gone, absent, last>>

ResyncFails(i) ==
  /\ tasks[i].at = "asked" /\ Happens("fetch")
  /\ tasks' = [tasks EXCEPT ![i] = Finished(@)]
  /\ UNCHANGED <<store, offered, admitted, file, pc, job, memory, stream, slot, gone, absent, last>>

ResyncDelivers(i) ==
  /\ tasks[i].at = "told" /\ tasks[i].got \in Docs
  /\ slot' = IF tasks[i].mine THEN tasks[i].got ELSE slot
  /\ tasks' = [tasks EXCEPT ![i] = Finished(@)]
  /\ UNCHANGED <<world, file, pc, job, memory, stream, gone, absent, last>>

\* Mutant of SignalsGone: the loop is not told.
SignalsNobody(t) == FALSE

SignalsGone(t) == OnDelete = "fail" /\ t.mine

ResyncAbsent(i) ==
  /\ tasks[i].at = "told" /\ tasks[i].got = NoDoc
  /\ absent' = TRUE
  /\ gone' = (gone \/ SignalsGone(tasks[i]))
  /\ tasks' = [tasks EXCEPT ![i] =
                 IF OnDelete = "remove" THEN [@ EXCEPT !.at = "emptying"]
                 ELSE Finished(@)]
  /\ UNCHANGED <<world, file, pc, job, memory, stream, slot, last>>

\* Mutant of Emptied: only the main file is emptied.
EmptiedMainOnly(t) == Finished(t)

\* The next output, or the end of the loop over them.
Emptied(t) == IF t.next < N THEN [t EXCEPT !.next = @ + 1] ELSE Finished(t)

\* OnDelete::Remove empties each output in turn; `rendered` is not told.
ResyncEmpties(i) ==
  /\ tasks[i].at = "emptying"
  /\ \/ file' = [file EXCEPT ![tasks[i].next] = Empty] /\ Costs(0, {})
     \/ file' = file /\ Happens("write")
  /\ tasks' = [tasks EXCEPT ![i] = Emptied(@)]
  /\ UNCHANGED <<store, offered, admitted, pc, job, memory, stream, slot, gone, absent, last>>

----------------------------------------------------------------------------

Environment ==
  \/ \E d \in Docs : StorePut(d)
  \/ StoreDelete \/ Widen \/ Narrow \/ Crash \/ Restart
  \/ \E o \in Outs : Tamper(o)

Starting ==
  \/ StartFetched \/ StartRefused \/ StartAllowCached \/ StartBestEffort
  \/ StartBestEffortFails \/ StartFails

Publishing == WriteFile \/ WriteFails \/ FirstWriteFails

Selecting ==
  \/ Stop \/ Deliver \/ CanaryTick \/ DriftRepair \/ DriftFail \/ GoneEnds
  \/ Rebuild \/ RebuildFails \/ WatchEnded \/ Reopen
  \/ \E i \in Tasks : ResyncStart(i) \/ ResyncReap(i)

Background ==
  \/ WatchPush \/ WatchDrops
  \/ \E i \in Tasks : \/ ResyncAnswered(i) \/ ResyncFails(i) \/ ResyncDelivers(i)
                      \/ ResyncAbsent(i) \/ ResyncEmpties(i)

Next == Environment \/ Starting \/ Publishing \/ Selecting \/ Background

Spec == Init /\ [][Next]_vars

(* What is relied on: the kubelet restarts the container, an await and a    *)
(* write end, the store answers what it is asked.  The arms get strong      *)
(* fairness: select! polls them in a random order, and an interval that is *)
(* due stays due, so an arm ready on infinitely many passes is taken.       *)
Fairness ==
  /\ WF_vars(Restart) /\ WF_vars(Starting) /\ WF_vars(WriteFile)
  /\ WF_vars(Reopen) /\ WF_vars(WatchPush)
  /\ SF_vars(Deliver) /\ SF_vars(CanaryTick) /\ SF_vars(DriftRepair)
  /\ SF_vars(DriftFail) /\ SF_vars(GoneEnds) /\ SF_vars(WatchEnded)
  /\ SF_vars(\E i \in Tasks : ResyncStart(i))
  /\ \A i \in Tasks :
       /\ SF_vars(ResyncReap(i)) /\ WF_vars(ResyncAnswered(i))
       /\ WF_vars(ResyncDelivers(i)) /\ WF_vars(ResyncAbsent(i))
       /\ WF_vars(ResyncEmpties(i))

FairSpec == Spec /\ Fairness

----------------------------------------------------------------------------
(* Properties.                                                              *)

\* Every variable has its type; a publish is in progress exactly when the
\* loop is writing, and a loop that waits in select! has a rendered set.
TypeOK ==
  /\ store \in Docs \cup {NoDoc} /\ offered \subseteq Docs
  /\ admitted \in BOOLEAN /\ spent \in Nat /\ happened \subseteq Telling
  /\ file \in Sets
  /\ pc \in {"down", "starting", "writing", "select", "reopening", "stopped"}
  /\ job \in Jobs \cup {None} /\ (pc = "writing" <=> job # None)
  /\ rendered \in Sets \cup {None} /\ withheld \in Sets \cup {None}
  /\ pc \in {"select", "reopening"} => rendered # None
  /\ (pc = "writing" /\ job.from # "first") => rendered # None
  /\ up \in BOOLEAN /\ seen \in Docs \cup {NoDoc, None}
  /\ slot \in Docs \cup {None} /\ last \in Docs \cup {None}
  /\ tasks \in [Tasks -> TaskStates]
  /\ gone \in BOOLEAN /\ absent \in BOOLEAN

\* Where what is written comes from: a set is whole when one document the
\* store has held was rendered to it, and a text is known in a file when such
\* a document has it there, or it was found in the file at startup.
Whole(docs, set) == \E d \in docs \cap Valid : set = Text[d]

Known(docs, o, text) ==
  \/ text = Empty
  \/ text = Foreign /\ "tamper" \in Chaos
  \/ \E d \in docs \cap Valid : text = Text[d][o]

FileKnown(docs, f) == \A o \in Outs : f[o] = Missing \/ Known(docs, o, f[o])
RenderedKnown(docs, set) == set # None => \A o \in Outs : Known(docs, o, set[o])
WithheldWhole(docs, set) == set # None => Whole(docs, set)
JobSound(docs, j) ==
  j # None => IF j.from = "repair"
                THEN OnDrift = "repair" /\ \A o \in Outs : Known(docs, o, j.set[o])
                ELSE Whole(docs, j.set)
TasksSound(docs, ts) ==
  \A i \in Tasks : /\ ts[i].got \in docs \cup {NoDoc, None}
                   /\ (ts[i].at = "emptying" => OnDelete = "remove")

\* Wherever a document or a set is kept between two awaits - the slot, a task,
\* the canary's hands, a publish, the loop's memory, the volume - it is one
\* the store has held and render_all accepted; and only OnDelete::Remove has a
\* task emptying files.
Provenance ==
  /\ store \in offered \cup {NoDoc} /\ slot \in offered \cup {None}
  /\ FileKnown(offered, file)
  /\ RenderedKnown(offered, rendered)
  /\ WithheldWhole(offered, withheld)
  /\ JobSound(offered, job)
  /\ TasksSound(offered, tasks)

Promise == INSTANCE Served WITH
  MayBlank <- OnDelete = "remove" \/ OnDrift = "repair",
  MayTamper <- "tamper" \in Chaos

\* Through crashes, failed fetches, half-done publishes, held documents, trust
\* rebuilds and stale resyncs, the files only ever do what Served allows:
\* nothing unrendered or never held by the store is published, and under
\* retain a failure of anything never blanks a file that has a document.
ImplementsServed == Promise!Spec

\* Between publishes the disk is what the loop believes it published (an
\* unreadable file counting as a blank one), so that `unchanged` may compare
\* with memory.  Only a foreign write, a failed rename and OnDelete::Remove
\* can part the two.
DiskIsBelief ==
  (pc \in {"select", "reopening"} /\ happened \subseteq {"narrow"} /\ OnDelete # "remove")
    => \A o \in Outs : file[o] = rendered[o] \/ (file[o] = Missing /\ rendered[o] = Empty)

\* While the cohort excludes this pod and the number was only ever raised, a
\* running loop changes its files to nothing but the set it already serves:
\* not by a push, a resync, or what it withholds.
HeldPodKeepsItsFiles ==
  [][(Canary /\ ~admitted /\ rendered # None /\ "narrow" \notin happened)
       => /\ rendered' \in {rendered, None}
          /\ \A o \in Outs : file'[o] \in {file[o], rendered[o], Empty, Foreign}]_vars

Alive == <>[](pc # "stopped")

\* A store that pushes and settles on a document that renders, in a pod the
\* cohort admits, ends with that document in every file: whatever the watch
\* missed, the races left behind and the failures undid, the resync heals.
\* (Not under OnDelete::Remove: sidecar.rs says `unchanged` asks whether a
\* fresh set is the one already on disk, and it asks memory, so a document
\* that returns as it was after its file was emptied is never written again.)
Converges ==
  \A d \in Valid :
    (Alive /\ <>[](store = d /\ Admits)) => <>[](file = Text[d])

\* A deletion that stands is noticed by a running agent, again after anything
\* that clears the gauge, and under OnDelete::Remove ends with no document left
\* in any file: a delivery in the slot or a held set may be published after the
\* files were emptied, but not for good. (For a store that pushes; for one that
\* is polled no code path tells the agent, whatever
\* book/src/troubleshooting.md says of `Conditional` stores.)
DeletionHolds ==
  (Alive /\ <>[](store = NoDoc)) =>
    /\ []<>(absent \/ pc \in {"down", "starting"})
    /\ <>[](\A o \in Outs : file[o] \notin Texts)

\* Under OnDelete::Fail and require-fresh a deletion that stands ends the agent,
\* and no restart brings it back to serving until the document returns.
FailStaysDown ==
  (Alive /\ <>[](store = NoDoc)) => <>[](pc \in {"down", "starting"})

=============================================================================
