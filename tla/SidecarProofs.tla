--------------------------- MODULE SidecarProofs ---------------------------
(***************************************************************************)
(* What is proved of Sidecar for every set of documents, number of files,   *)
(* policy, number of resync tasks and budget of outside events: its types,  *)
(* that it implements Served, what the loop may assume of the disk between  *)
(* two publishes, and what a pod outside the cohort keeps serving.          *)
(*                                                                         *)
(* The invariant of the refinement is TypeOK with Provenance: what a step   *)
(* writes to a file has been read from the store many steps before, and     *)
(* passed through the slot, a resync task, the canary's hands or the memory *)
(* of the loop, so the promise about the files needs one about each.        *)
(***************************************************************************)
EXTENDS Sidecar, TLAPS

USE NAssumption, BudgetAssumption DEF Outs

(* The assumptions in the form the proofs use them. *)
LEMMA FirstOut == 1 \in Outs
  BY DEF Outs

\* Both blank values, and what a document is rendered to, can be in a file.
LEMMA TextInSets == \A d \in Docs : Text[d] \in Sets
  BY TextAssumption DEF Sets, Disk

LEMMA OnDiskInSets == \A files \in Sets : OnDisk(files) \in Sets
  BY DEF OnDisk, Sets, Disk

LEMMA NoneIsNothing ==
  None \notin Docs /\ None # NoDoc /\ None \notin Sets /\ None \notin Jobs
  BY NoneAssumption

LEMMA IdleIsTask == Idle \in TaskStates
  BY FirstOut DEF Idle, TaskStates

LEMMA FinishedIsTask == \A t \in TaskStates : Finished(t) \in TaskStates
  BY FirstOut DEF Finished, Idle, TaskStates

----------------------------------------------------------------------------
(* Type correctness, by kind of step.                                       *)

LEMMA InitType == Init => TypeOK
  <1> SUFFICES ASSUME Init PROVE TypeOK
    OBVIOUS
  <1> QED BY IdleIsTask, NoneIsNothing DEF Init, TypeOK, Sets, Disk

\* What the process forgets when it ends is typed whatever it was.
LEMMA ExitType ==
  ASSUME TypeOK, NEW to \in {"down", "stopped"}, Exit(to),
         store' = store, offered' = offered, admitted' = admitted,
         spent' \in Nat, happened' \subseteq Telling, file' \in Sets
  PROVE  TypeOK'
  BY IdleIsTask, NoneIsNothing DEF TypeOK, Exit

LEMMA EnvironmentType == TypeOK /\ Environment => TypeOK'
  <1> SUFFICES ASSUME TypeOK, Environment PROVE TypeOK'
    OBVIOUS
  <1> USE DEF Happens, Costs, memory, stream, world
  <1>1. ASSUME NEW d \in Docs, StorePut(d) PROVE TypeOK'
    BY <1>1 DEF TypeOK, StorePut
  <1>2. CASE StoreDelete
    BY <1>2 DEF TypeOK, StoreDelete
  <1>3. CASE Widen
    BY <1>3 DEF TypeOK, Widen
  <1>4. CASE Narrow
    <2>1. spent' \in Nat /\ happened' \subseteq Telling
      BY <1>4 DEF TypeOK, Narrow
    <2>2. admitted' \in BOOLEAN
      BY <1>4 DEF Narrow
    <2>3. UNCHANGED <<store, offered, file, pc, job, rendered, withheld, up, seen,
                      slot, tasks, gone, absent, last>>
      BY <1>4 DEF Narrow
    <2> QED BY <2>1, <2>2, <2>3 DEF TypeOK
  <1>5. CASE Crash
    BY <1>5, ExitType DEF TypeOK, Crash, Die
  <1>6. CASE Restart
    BY <1>6 DEF TypeOK, Restart
  <1>7. ASSUME NEW o \in Outs, Tamper(o) PROVE TypeOK'
    BY <1>7 DEF TypeOK, Tamper, Sets, Disk
  <1> QED BY <1>1, <1>2, <1>3, <1>4, <1>5, <1>6, <1>7 DEF Environment

LEMMA PublishJob ==
  ASSUME NEW set \in Sets, NEW from \in Origins, Publish(set, from)
  PROVE  pc' = "writing" /\ job' \in Jobs /\ job' # None /\ job'.from = from
  BY FirstOut, NoneIsNothing DEF Publish, Jobs

LEMMA StartingType == TypeOK /\ Starting => TypeOK'
  <1> SUFFICES ASSUME TypeOK, Starting PROVE TypeOK'
    OBVIOUS
  <1> USE DEF Costs, FetchFails, memory, stream, world
  <1>1. CASE StartFetched
    <2>1. Text[store] \in Sets /\ store \in Docs
      BY <1>1, TextInSets, ValidAssumption DEF StartFetched, Renders
    <2> QED BY <1>1, <2>1, PublishJob DEF TypeOK, StartFetched, Origins
  <1>2. CASE StartRefused
    BY <1>2, ExitType DEF TypeOK, StartRefused, Die
  <1>3. CASE StartAllowCached
    BY <1>3, OnDiskInSets, NoneIsNothing DEF TypeOK, StartAllowCached, OpenWatch
  <1>4. CASE StartBestEffort
    BY <1>4, OnDiskInSets, NoneIsNothing DEF TypeOK, StartBestEffort, OpenWatch
  <1>5. CASE StartBestEffortFails
    <2>1. PICK n \in Outs :
            file' = [o \in Outs |-> IF o < n THEN OnDisk(file)[o] ELSE file[o]]
      BY <1>5 DEF StartBestEffortFails
    <2>2. file \in Sets /\ OnDisk(file) \in Sets
      BY OnDiskInSets DEF TypeOK
    <2>3. file' \in Sets
      BY <2>1, <2>2 DEF Sets
    <2> QED BY <1>5, <2>3, ExitType DEF TypeOK, StartBestEffortFails, Die
  <1>6. CASE StartFails
    BY <1>6, ExitType DEF TypeOK, StartFails, Die
  <1> QED BY <1>1, <1>2, <1>3, <1>4, <1>5, <1>6 DEF Starting

LEMMA PublishingType == TypeOK /\ Publishing => TypeOK'
  <1> SUFFICES ASSUME TypeOK, Publishing PROVE TypeOK'
    OBVIOUS
  <1> USE DEF Happens, Costs, memory, stream, world
  <1>1. CASE WriteFile
    <2>1. job \in Jobs
      BY <1>1 DEF WriteFile, TypeOK
    <2>2. job.set \in Sets /\ job.next \in Outs
      BY <2>1 DEF Jobs
    <2>3. file' \in Sets
      BY <1>1, <2>2 DEF WriteFile, TypeOK, Sets
    <2>4. CASE job.next < N
      <3>1. job' \in Jobs /\ job'.from = job.from
        BY <1>1, <2>1, <2>2, <2>4 DEF WriteFile, Jobs
      <3> QED BY <1>1, <2>3, <2>4, <3>1, NoneIsNothing DEF WriteFile, TypeOK
    <2>5. CASE ~(job.next < N)
      <3>1. /\ job' = None /\ rendered' = job.set /\ absent' = FALSE /\ pc' = "select"
            /\ up' \in BOOLEAN /\ seen' \in Docs \cup {NoDoc, None}
        BY <1>1, <2>5 DEF WriteFile, TypeOK, OpenWatch
      <3>2. UNCHANGED <<world, withheld, slot, tasks, gone, last>>
        BY <1>1 DEF WriteFile
      <3> QED BY <2>2, <2>3, <3>1, <3>2, NoneIsNothing DEF TypeOK
    <2> QED BY <2>4, <2>5
  <1>2. CASE WriteFails
    BY <1>2 DEF TypeOK, WriteFails
  <1>3. CASE FirstWriteFails
    BY <1>3, ExitType DEF TypeOK, FirstWriteFails, Die
  <1> QED BY <1>1, <1>2, <1>3 DEF Publishing

LEMMA SelectingType == TypeOK /\ Selecting => TypeOK'
  <1> SUFFICES ASSUME TypeOK, Selecting PROVE TypeOK'
    OBVIOUS
  <1> USE DEF Happens, Costs, memory, stream, world
  <1>1. CASE Stop
    BY <1>1, ExitType DEF TypeOK, Stop
  <1>2. CASE Deliver
    <2>1. slot \in Docs /\ Text[slot] \in Sets
      BY <1>2, TextInSets DEF Deliver, TypeOK
    <2>2. /\ slot' = None /\ last' = slot
          /\ UNCHANGED <<world, file, rendered, stream, tasks, gone, absent>>
      BY <1>2 DEF Deliver
    <2>3. CASE Publish(Text[slot], "delivery") /\ UNCHANGED withheld
      <3>1. pc' = "writing" /\ job' \in Jobs /\ job' # None
        BY <2>1, <2>3, PublishJob DEF Origins
      <3>2. rendered # None
        BY <1>2 DEF Deliver, TypeOK
      <3> QED BY <2>1, <2>2, <2>3, <3>1, <3>2, NoneIsNothing DEF TypeOK
    <2>4. CASE withheld' = Text[slot] /\ UNCHANGED <<pc, job>>
      BY <2>1, <2>2, <2>4 DEF TypeOK
    <2>5. CASE UNCHANGED <<pc, job, withheld>>
      BY <2>1, <2>2, <2>5 DEF TypeOK
    <2> QED BY <1>2, <2>3, <2>4, <2>5 DEF Deliver
  <1>3. CASE CanaryTick
    <2>1. withheld \in Sets
      BY <1>3 DEF CanaryTick, TypeOK
    <2> QED BY <1>3, <2>1, PublishJob DEF TypeOK, CanaryTick, Origins
  <1>4. CASE DriftRepair
    <2>1. rendered \in Sets
      BY <1>4 DEF DriftRepair, TypeOK
    <2> QED BY <1>4, <2>1, PublishJob DEF TypeOK, DriftRepair, Origins
  <1>5. CASE DriftFail
    BY <1>5, ExitType DEF TypeOK, DriftFail, Die
  <1>6. CASE GoneEnds
    BY <1>6, ExitType DEF TypeOK, GoneEnds, Die
  <1>7. CASE Rebuild
    <2>1. tasks' \in [Tasks -> TaskStates]
      <3>1. \A t \in TaskStates : [t EXCEPT !.mine = FALSE] \in TaskStates
        BY DEF TaskStates
      <3> QED BY <1>7, <3>1, IdleIsTask DEF Rebuild, TypeOK
    <2>2. spent' \in Nat /\ happened' \subseteq Telling
      BY <1>7 DEF TypeOK, Rebuild
    <2>3. /\ pc' = "starting" /\ job' = None /\ rendered' = None /\ withheld' = None
          /\ up' = FALSE /\ seen' = None /\ slot' = None /\ gone' = FALSE /\ last' = None
          /\ UNCHANGED <<store, offered, admitted, file, absent>>
      BY <1>7 DEF Rebuild, TypeOK
    <2> QED BY <2>1, <2>2, <2>3 DEF TypeOK
  <1>8. CASE RebuildFails
    BY <1>8, ExitType DEF TypeOK, RebuildFails, Die
  <1>9. CASE WatchEnded
    BY <1>9 DEF TypeOK, WatchEnded
  <1>10. CASE Reopen
    BY <1>10 DEF TypeOK, Reopen, OpenWatch
  <1>11. ASSUME NEW i \in Tasks, ResyncStart(i) PROVE TypeOK'
    <2>1. [Idle EXCEPT !.at = "asked", !.mine = TRUE] \in TaskStates
      BY IdleIsTask DEF TaskStates
    <2>2. tasks' \in [Tasks -> TaskStates]
      BY <1>11, <2>1 DEF ResyncStart, TypeOK
    <2> QED BY <1>11, <2>2 DEF TypeOK, ResyncStart
  <1>12. ASSUME NEW i \in Tasks, ResyncReap(i) PROVE TypeOK'
    <2>1. tasks' \in [Tasks -> TaskStates]
      BY <1>12, IdleIsTask DEF ResyncReap, TypeOK
    <2> QED BY <1>12, <2>1 DEF TypeOK, ResyncReap
  <1> QED
    BY <1>1, <1>2, <1>3, <1>4, <1>5, <1>6, <1>7, <1>8, <1>9, <1>10, <1>11, <1>12
    DEF Selecting

LEMMA BackgroundType == TypeOK /\ Background => TypeOK'
  <1> SUFFICES ASSUME TypeOK, Background PROVE TypeOK'
    OBVIOUS
  <1> USE DEF Happens, Costs, memory, stream, world
  <1>1. CASE WatchPush
    BY <1>1 DEF TypeOK, WatchPush
  <1>2. CASE WatchDrops
    <2>1. spent' \in Nat /\ happened' \subseteq Telling
      BY <1>2 DEF TypeOK, WatchDrops
    <2>2. up' \in BOOLEAN
      BY <1>2 DEF WatchDrops
    <2>3. UNCHANGED <<store, offered, admitted, file, pc, job, rendered, withheld, seen,
                      slot, tasks, gone, absent, last>>
      BY <1>2 DEF WatchDrops
    <2> QED BY <2>1, <2>2, <2>3 DEF TypeOK
  <1>3. ASSUME NEW i \in Tasks, ResyncAnswered(i) PROVE TypeOK'
    <2>1. [tasks[i] EXCEPT !.at = "told", !.got = store] \in TaskStates
      BY DEF TypeOK, TaskStates
    <2>2. tasks' \in [Tasks -> TaskStates]
      BY <1>3, <2>1 DEF ResyncAnswered, TypeOK
    <2> QED BY <1>3, <2>2 DEF TypeOK, ResyncAnswered
  <1>4. ASSUME NEW i \in Tasks, ResyncFails(i) PROVE TypeOK'
    <2>1. tasks' \in [Tasks -> TaskStates]
      BY <1>4, FinishedIsTask DEF ResyncFails, TypeOK
    <2> QED BY <1>4, <2>1 DEF TypeOK, ResyncFails
  <1>5. ASSUME NEW i \in Tasks, ResyncDelivers(i) PROVE TypeOK'
    <2>1. tasks' \in [Tasks -> TaskStates]
      BY <1>5, FinishedIsTask DEF ResyncDelivers, TypeOK
    <2> QED BY <1>5, <2>1 DEF TypeOK, ResyncDelivers
  <1>6. ASSUME NEW i \in Tasks, ResyncAbsent(i) PROVE TypeOK'
    <2>1. [tasks[i] EXCEPT !.at = "emptying"] \in TaskStates
      BY DEF TypeOK, TaskStates
    <2>2. tasks' \in [Tasks -> TaskStates]
      BY <1>6, <2>1, FinishedIsTask DEF ResyncAbsent, TypeOK
    <2>3. gone' \in BOOLEAN /\ absent' \in BOOLEAN
      BY <1>6 DEF ResyncAbsent
    <2> QED BY <1>6, <2>2, <2>3 DEF TypeOK, ResyncAbsent
  <1>7. ASSUME NEW i \in Tasks, ResyncEmpties(i) PROVE TypeOK'
    <2>1. tasks[i] \in TaskStates /\ tasks[i].next \in Outs
      BY DEF TypeOK, TaskStates
    <2>2. Emptied(tasks[i]) \in TaskStates
      <3>1. tasks[i].next < N => [tasks[i] EXCEPT !.next = @ + 1] \in TaskStates
        BY <2>1 DEF TaskStates
      <3> QED BY <2>1, <3>1, FinishedIsTask DEF Emptied
    <2>3. tasks' \in [Tasks -> TaskStates]
      BY <1>7, <2>2 DEF ResyncEmpties, TypeOK
    <2>4. file' \in Sets /\ spent' \in Nat /\ happened' \subseteq Telling
      BY <1>7, <2>1 DEF ResyncEmpties, TypeOK, Sets, Disk
    <2> QED BY <1>7, <2>3, <2>4 DEF TypeOK, ResyncEmpties
  <1> QED BY <1>1, <1>2, <1>3, <1>4, <1>5, <1>6, <1>7 DEF Background

LEMMA StutterType == TypeOK /\ UNCHANGED vars => TypeOK'
  BY DEF TypeOK, vars

\* Every reachable state is typed: in particular a publish is in progress
\* exactly while the loop is writing, and a loop waiting in select! always has
\* a set it believes it published, so `drifting` and `unchanged` compare with
\* something.
THEOREM TypeCorrect == Spec => []TypeOK
  <1>1. TypeOK /\ [Next]_vars => TypeOK'
    BY EnvironmentType, StartingType, PublishingType, SelectingType, BackgroundType,
       StutterType DEF Next
  <1> QED BY InitType, <1>1, PTL DEF Spec

HIDE NAssumption DEF Outs

----------------------------------------------------------------------------
(* The parts of Provenance.                                                 *)

\* The set of documents the store has held only grows, and so does what is known.
LEMMA MoreIsKnown ==
  ASSUME NEW a, NEW b, a \subseteq b
  PROVE  /\ \A o, t : Known(a, o, t) => Known(b, o, t)
         /\ \A set : Whole(a, set) => Whole(b, set)
  BY DEF Known, Whole

\* A whole set is known file by file.
LEMMA WholeIsKnown ==
  ASSUME NEW docs, NEW set, Whole(docs, set)
  PROVE  \A o \in Outs : Known(docs, o, set[o])
  BY DEF Whole, Known

LEMMA OfferKeeps ==
  ASSUME NEW a, NEW b, a \subseteq b
  PROVE  /\ \A f : FileKnown(a, f) => FileKnown(b, f)
         /\ \A set : RenderedKnown(a, set) => RenderedKnown(b, set)
         /\ \A set : WithheldWhole(a, set) => WithheldWhole(b, set)
         /\ \A j : JobSound(a, j) => JobSound(b, j)
         /\ \A ts : TasksSound(a, ts) => TasksSound(b, ts)
  <1>1. /\ \A o, t : Known(a, o, t) => Known(b, o, t)
        /\ \A set : Whole(a, set) => Whole(b, set)
    BY MoreIsKnown
  <1>2. \A f : FileKnown(a, f) => FileKnown(b, f)
    BY <1>1 DEF FileKnown
  <1>3. \A set : RenderedKnown(a, set) => RenderedKnown(b, set)
    BY <1>1 DEF RenderedKnown
  <1>4. \A set : WithheldWhole(a, set) => WithheldWhole(b, set)
    BY <1>1 DEF WithheldWhole
  <1>5. \A j : JobSound(a, j) => JobSound(b, j)
    BY <1>1 DEF JobSound
  <1>6. ASSUME NEW ts, TasksSound(a, ts) PROVE TasksSound(b, ts)
    <2>1. \A i \in Tasks : ts[i].got \in b \cup {NoDoc, None}
      BY <1>6 DEF TasksSound
    <2> QED BY <1>6, <2>1 DEF TasksSound
  <1> QED BY <1>2, <1>3, <1>4, <1>5, <1>6

\* Nothing held is soundly held.
LEMMA NothingSound ==
  ASSUME NEW docs
  PROVE  RenderedKnown(docs, None) /\ WithheldWhole(docs, None) /\ JobSound(docs, None)
  BY DEF RenderedKnown, WithheldWhole, JobSound

LEMMA IdleSound ==
  ASSUME NEW docs
  PROVE  TasksSound(docs, [i \in Tasks |-> Idle])
  BY DEF TasksSound, Idle

LEMMA OnDiskKnown ==
  ASSUME FileKnown(offered, file)
  PROVE  \A o \in Outs : Known(offered, o, OnDisk(file)[o])
  BY DEF FileKnown, OnDisk, Known

----------------------------------------------------------------------------
(* Provenance is inductive, by kind of step.                                *)

LEMMA InitProvenance == Init => Provenance
  <1> SUFFICES ASSUME Init PROVE Provenance
    OBVIOUS
  <1>1. FileKnown(offered, file)
    BY DEF Init, FileKnown
  <1> QED BY <1>1, NothingSound, IdleSound DEF Init, Provenance

LEMMA ExitProvenance ==
  ASSUME Provenance, NEW to, Exit(to), store' = store, offered' = offered,
         FileKnown(offered, file')
  PROVE  Provenance'
  BY NothingSound, IdleSound DEF Provenance, Exit

LEMMA EnvironmentProvenance == TypeOK /\ Provenance /\ Environment => Provenance'
  <1> SUFFICES ASSUME TypeOK, Provenance, Environment PROVE Provenance'
    OBVIOUS
  <1> USE DEF memory, stream, world
  <1>1. ASSUME NEW d \in Docs, StorePut(d) PROVE Provenance'
    <2>1. offered \subseteq offered' /\ store' \in offered'
      BY <1>1 DEF StorePut
    <2>2. slot' \in offered' \cup {None}
      BY <1>1, <2>1 DEF StorePut, Provenance
    <2>3. UNCHANGED <<file, rendered, withheld, job, tasks>>
      BY <1>1 DEF StorePut
    <2> QED BY <2>1, <2>2, <2>3, OfferKeeps DEF Provenance
  <1>2. CASE StoreDelete
    BY <1>2 DEF Provenance, StoreDelete
  <1>3. CASE Widen
    BY <1>3 DEF Provenance, Widen
  <1>4. CASE Narrow
    BY <1>4 DEF Provenance, Narrow
  <1>5. CASE Crash
    BY <1>5, ExitProvenance DEF Provenance, Crash, Die
  <1>6. CASE Restart
    BY <1>6 DEF Provenance, Restart
  <1>7. ASSUME NEW o \in Outs, Tamper(o) PROVE Provenance'
    <2>1. FileKnown(offered, file')
      BY <1>7 DEF Provenance, Tamper, Happens, FileKnown, Known, TypeOK, Sets
    <2> QED BY <1>7, <2>1 DEF Provenance, Tamper
  <1> QED BY <1>1, <1>2, <1>3, <1>4, <1>5, <1>6, <1>7 DEF Environment

\* Publishing what a valid document the store has held renders to is sound.
LEMMA PublishWhole ==
  ASSUME NEW d \in offered \cap Valid, NEW from \in Origins \ {"repair"},
         Publish(Text[d], from)
  PROVE  JobSound(offered, job')
  BY DEF Publish, JobSound, Whole

LEMMA StartingProvenance == TypeOK /\ Provenance /\ Starting => Provenance'
  <1> SUFFICES ASSUME TypeOK, Provenance, Starting PROVE Provenance'
    OBVIOUS
  <1> USE DEF memory, stream, world
  <1>1. CASE StartFetched
    <2>1. store \in offered \cap Valid
      BY <1>1, ValidAssumption, NoneAssumption DEF StartFetched, Renders, Provenance
    <2>2. JobSound(offered, job')
      BY <1>1, <2>1, PublishWhole DEF StartFetched, Origins
    <2> QED BY <1>1, <2>2 DEF Provenance, StartFetched
  <1>2. CASE StartRefused
    BY <1>2, ExitProvenance DEF Provenance, StartRefused, Die
  <1>3. CASE StartAllowCached
    <2>1. RenderedKnown(offered, rendered')
      BY <1>3, OnDiskKnown DEF StartAllowCached, RenderedKnown, Provenance
    <2> QED BY <1>3, <2>1 DEF Provenance, StartAllowCached, OpenWatch
  <1>4. CASE StartBestEffort
    <2>1. RenderedKnown(offered, rendered') /\ FileKnown(offered, file')
      BY <1>4, OnDiskKnown DEF StartBestEffort, RenderedKnown, FileKnown, Provenance
    <2> QED BY <1>4, <2>1 DEF Provenance, StartBestEffort, OpenWatch
  <1>5. CASE StartBestEffortFails
    <2>1. PICK n \in Outs :
            file' = [o \in Outs |-> IF o < n THEN OnDisk(file)[o] ELSE file[o]]
      BY <1>5 DEF StartBestEffortFails
    <2>2. FileKnown(offered, file')
      BY <2>1, OnDiskKnown DEF FileKnown, Provenance
    <2> QED BY <1>5, <2>2, ExitProvenance DEF Provenance, StartBestEffortFails, Die
  <1>6. CASE StartFails
    BY <1>6, ExitProvenance DEF Provenance, StartFails, Die
  <1> QED BY <1>1, <1>2, <1>3, <1>4, <1>5, <1>6 DEF Starting

\* Whatever its origin, each text of a sound publish is known.
LEMMA JobKnown ==
  ASSUME JobSound(offered, job), job # None
  PROVE  \A o \in Outs : Known(offered, o, job.set[o])
  BY WholeIsKnown DEF JobSound

LEMMA PublishingProvenance == TypeOK /\ Provenance /\ Publishing => Provenance'
  <1> SUFFICES ASSUME TypeOK, Provenance, Publishing PROVE Provenance'
    OBVIOUS
  <1> USE DEF memory, stream, world
  <1>1. CASE WriteFile
    <2>1. job \in Jobs /\ job # None
      BY <1>1 DEF WriteFile, TypeOK
    <2>2. \A o \in Outs : Known(offered, o, job.set[o])
      BY <2>1, JobKnown DEF Provenance
    <2>3. FileKnown(offered, file')
      BY <1>1, <2>1, <2>2 DEF WriteFile, FileKnown, Provenance, TypeOK, Sets, Jobs
    <2>4. CASE job.next < N
      <3>1. job'.set = job.set /\ job'.from = job.from
        BY <1>1, <2>1, <2>4 DEF WriteFile, Jobs
      <3>2. JobSound(offered, job')
        BY <2>1, <3>1 DEF JobSound, Provenance
      <3> QED BY <1>1, <2>3, <2>4, <3>2 DEF WriteFile, Provenance
    <2>5. CASE ~(job.next < N)
      <3>1. RenderedKnown(offered, rendered') /\ JobSound(offered, job')
        BY <1>1, <2>2, <2>5, NothingSound DEF WriteFile, RenderedKnown
      <3> QED BY <1>1, <2>3, <3>1 DEF WriteFile, Provenance
    <2> QED BY <2>4, <2>5
  <1>2. CASE WriteFails
    BY <1>2, NothingSound DEF Provenance, WriteFails
  <1>3. CASE FirstWriteFails
    BY <1>3, ExitProvenance DEF Provenance, FirstWriteFails, Die
  <1> QED BY <1>1, <1>2, <1>3 DEF Publishing

LEMMA SelectingProvenance == TypeOK /\ Provenance /\ Selecting => Provenance'
  <1> SUFFICES ASSUME TypeOK, Provenance, Selecting PROVE Provenance'
    OBVIOUS
  <1> USE DEF memory, stream, world
  <1>1. CASE Stop
    BY <1>1, ExitProvenance DEF Provenance, Stop
  <1>2. CASE Deliver
    <2>1. /\ slot' = None /\ slot \in offered
          /\ UNCHANGED <<world, file, rendered, tasks>>
      BY <1>2 DEF Deliver, Provenance
    <2>2. CASE Renders(slot) /\ Publish(Text[slot], "delivery") /\ UNCHANGED withheld
      <3>1. JobSound(offered, job')
        BY <2>1, <2>2, PublishWhole DEF Renders, Origins
      <3> QED BY <2>1, <2>2, <3>1 DEF Provenance
    <2>3. CASE Renders(slot) /\ withheld' = Text[slot] /\ UNCHANGED <<pc, job>>
      <3>1. WithheldWhole(offered, withheld')
        BY <2>1, <2>3 DEF Renders, WithheldWhole, Whole
      <3> QED BY <2>1, <2>3, <3>1 DEF Provenance
    <2>4. CASE UNCHANGED <<pc, job, withheld>>
      BY <2>1, <2>4 DEF Provenance
    <2> QED BY <1>2, <2>2, <2>3, <2>4 DEF Deliver
  <1>3. CASE CanaryTick
    <2>1. JobSound(offered, job') /\ WithheldWhole(offered, withheld')
      BY <1>3, NothingSound
      DEF CanaryTick, Publish, JobSound, WithheldWhole, Provenance
    <2> QED BY <1>3, <2>1 DEF Provenance, CanaryTick
  <1>4. CASE DriftRepair
    <2>1. rendered # None
      BY <1>4 DEF DriftRepair, TypeOK
    <2>2. JobSound(offered, job')
      BY <1>4, <2>1 DEF DriftRepair, Publish, JobSound, RenderedKnown, Provenance
    <2> QED BY <1>4, <2>2 DEF Provenance, DriftRepair
  <1>5. CASE DriftFail
    BY <1>5, ExitProvenance DEF Provenance, DriftFail, Die
  <1>6. CASE GoneEnds
    BY <1>6, ExitProvenance DEF Provenance, GoneEnds, Die
  <1>7. CASE Rebuild
    <2>1. TasksSound(offered, tasks')
      <3>1. \A t \in TaskStates :
              /\ [t EXCEPT !.mine = FALSE].got = t.got
              /\ [t EXCEPT !.mine = FALSE].at = t.at
        BY DEF TaskStates
      <3> QED BY <1>7, <3>1 DEF Rebuild, TasksSound, Provenance, TypeOK, Idle
    <2> QED BY <1>7, <2>1, NothingSound DEF Provenance, Rebuild
  <1>8. CASE RebuildFails
    BY <1>8, ExitProvenance DEF Provenance, RebuildFails, Die
  <1>9. CASE WatchEnded
    BY <1>9 DEF Provenance, WatchEnded
  <1>10. CASE Reopen
    BY <1>10 DEF Provenance, Reopen, OpenWatch
  <1>11. ASSUME NEW i \in Tasks, ResyncStart(i) PROVE Provenance'
    <2>1. TasksSound(offered, tasks')
      BY <1>11 DEF ResyncStart, TasksSound, Provenance, TypeOK, Idle
    <2> QED BY <1>11, <2>1 DEF Provenance, ResyncStart
  <1>12. ASSUME NEW i \in Tasks, ResyncReap(i) PROVE Provenance'
    <2>1. TasksSound(offered, tasks')
      BY <1>12 DEF ResyncReap, TasksSound, Provenance, TypeOK, Idle
    <2> QED BY <1>12, <2>1 DEF Provenance, ResyncReap
  <1> QED
    BY <1>1, <1>2, <1>3, <1>4, <1>5, <1>6, <1>7, <1>8, <1>9, <1>10, <1>11, <1>12
    DEF Selecting

\* A task that is done holds no document and empties nothing.
LEMMA FinishedSound ==
  ASSUME TypeOK, TasksSound(offered, tasks), NEW i \in Tasks,
         tasks' = [tasks EXCEPT ![i] = Finished(@)]
  PROVE  TasksSound(offered, tasks')
  <1>1. \A t : Finished(t).got = None /\ Finished(t).at # "emptying"
    BY DEF Finished, Idle
  <1> QED BY <1>1 DEF TasksSound, TypeOK

LEMMA BackgroundProvenance == TypeOK /\ Provenance /\ Background => Provenance'
  <1> SUFFICES ASSUME TypeOK, Provenance, Background PROVE Provenance'
    OBVIOUS
  <1> USE DEF memory, stream, world
  <1>1. CASE WatchPush
    <2>1. slot' \in offered \cup {None}
      BY <1>1, NoneAssumption DEF WatchPush, Provenance
    <2> QED BY <1>1, <2>1 DEF Provenance, WatchPush
  <1>2. CASE WatchDrops
    BY <1>2 DEF Provenance, WatchDrops
  <1>3. ASSUME NEW i \in Tasks, ResyncAnswered(i) PROVE Provenance'
    <2>1. TasksSound(offered, tasks')
      BY <1>3 DEF ResyncAnswered, TasksSound, Provenance, TypeOK, TaskStates
    <2> QED BY <1>3, <2>1 DEF Provenance, ResyncAnswered
  <1>4. ASSUME NEW i \in Tasks, ResyncFails(i) PROVE Provenance'
    <2>1. TasksSound(offered, tasks')
      BY <1>4, FinishedSound DEF ResyncFails, Provenance
    <2> QED BY <1>4, <2>1 DEF Provenance, ResyncFails
  <1>5. ASSUME NEW i \in Tasks, ResyncDelivers(i) PROVE Provenance'
    <2>1. TasksSound(offered, tasks')
      BY <1>5, FinishedSound DEF ResyncDelivers, Provenance
    <2>2. slot' \in offered \cup {None}
      BY <1>5, NoneAssumption DEF ResyncDelivers, Provenance, TasksSound
    <2> QED BY <1>5, <2>1, <2>2 DEF Provenance, ResyncDelivers
  <1>6. ASSUME NEW i \in Tasks, ResyncAbsent(i) PROVE Provenance'
    <2>1. CASE OnDelete = "remove"
      <3>1. tasks' = [tasks EXCEPT ![i] = [@ EXCEPT !.at = "emptying"]]
        BY <1>6, <2>1 DEF ResyncAbsent
      <3>2. TasksSound(offered, tasks')
        BY <2>1, <3>1 DEF TasksSound, Provenance, TypeOK, TaskStates
      <3> QED BY <1>6, <3>2 DEF Provenance, ResyncAbsent
    <2>2. CASE OnDelete # "remove"
      <3>1. TasksSound(offered, tasks')
        BY <1>6, <2>2, FinishedSound DEF ResyncAbsent, Provenance
      <3> QED BY <1>6, <3>1 DEF Provenance, ResyncAbsent
    <2> QED BY <2>1, <2>2
  <1>7. ASSUME NEW i \in Tasks, ResyncEmpties(i) PROVE Provenance'
    <2>1. FileKnown(offered, file')
      BY <1>7 DEF ResyncEmpties, FileKnown, Known, Provenance, TypeOK, Sets
    <2>2. OnDelete = "remove" /\ tasks[i] \in TaskStates
      BY <1>7 DEF ResyncEmpties, Provenance, TasksSound, TypeOK
    <2>3. Emptied(tasks[i]).got \in {tasks[i].got, None}
      BY <2>2 DEF Emptied, Finished, Idle, TaskStates
    <2>4. TasksSound(offered, tasks')
      BY <1>7, <2>2, <2>3 DEF ResyncEmpties, TasksSound, Provenance, TypeOK
    <2> QED BY <1>7, <2>1, <2>4 DEF Provenance, ResyncEmpties
  <1> QED BY <1>1, <1>2, <1>3, <1>4, <1>5, <1>6, <1>7 DEF Background

LEMMA ProvenanceStep == TypeOK /\ Provenance /\ [Next]_vars => Provenance'
  <1>1. TypeOK /\ Provenance /\ UNCHANGED vars => Provenance'
    BY DEF Provenance, vars
  <1> QED
    BY <1>1, EnvironmentProvenance, StartingProvenance, PublishingProvenance,
       SelectingProvenance, BackgroundProvenance DEF Next

\* Every document and set kept between two awaits, in the slot, a resync task,
\* the canary's hands, a publish, the loop's memory and the files, is one the
\* store has held and render_all accepted, or was in the file at startup.
THEOREM ProvenanceHolds == Spec => []Provenance
  <1>1. Init => Provenance
    BY InitProvenance
  <1>2. TypeOK /\ Provenance /\ [Next]_vars => Provenance'
    BY ProvenanceStep
  <1> QED BY <1>1, <1>2, TypeCorrect, PTL DEF Spec

----------------------------------------------------------------------------
(* Every step is one of Served, or leaves its variables alone.              *)

\* Files that held no document may be blank afterwards, whatever the policy.
LEMMA BlankStep ==
  ASSUME NEW blanked \in SUBSET Outs,
         \/ OnDelete = "remove" \/ OnDrift = "repair"
         \/ \A o \in blanked : file[o] \in {Missing, Empty},
         file' = [o \in Outs |-> IF o \in blanked THEN Empty ELSE file[o]],
         offered' = offered
  PROVE  Promise!Next
  BY DEF Promise!Next, Promise!Blank

\* Writing one file with a known text, where a policy lets it be blanked.
LEMMA WriteStep ==
  ASSUME TypeOK, NEW o \in Outs, NEW text, Known(offered, o, text),
         text = Empty => OnDelete = "remove" \/ OnDrift = "repair",
         file' = [file EXCEPT ![o] = text], offered' = offered
  PROVE  Promise!Next
  <1>1. CASE text = Empty
    <2>1. file' = [u \in Outs |-> IF u \in {o} THEN Empty ELSE file[u]]
      BY <1>1 DEF TypeOK, Sets
    <2> QED BY <1>1, <2>1, BlankStep
  <1>2. CASE text = Foreign /\ "tamper" \in Chaos
    BY <1>2 DEF Promise!Next, Promise!Overwrite
  <1>3. CASE \E d \in offered \cap Valid : text = Text[d][o]
    BY <1>3 DEF Promise!Next, Promise!Serve
  <1> QED BY <1>1, <1>2, <1>3 DEF Known

LEMMA EnvironmentServes ==
  TypeOK /\ Environment => Promise!Next \/ UNCHANGED <<offered, file>>
  <1> SUFFICES ASSUME TypeOK, Environment PROVE Promise!Next \/ UNCHANGED <<offered, file>>
    OBVIOUS
  <1>1. ASSUME NEW d \in Docs, StorePut(d) PROVE Promise!Next
    BY <1>1 DEF StorePut, Promise!Next, Promise!Offer
  <1>2. ASSUME NEW o \in Outs, Tamper(o) PROVE Promise!Next
    BY <1>2 DEF Tamper, Happens, Promise!Next, Promise!Overwrite
  <1>3. CASE StoreDelete \/ Widen \/ Narrow \/ Crash \/ Restart
    BY <1>3 DEF StoreDelete, Widen, Narrow, Crash, Restart, world
  <1> QED BY <1>1, <1>2, <1>3 DEF Environment

LEMMA StartingServes ==
  TypeOK /\ Starting => Promise!Next \/ UNCHANGED <<offered, file>>
  <1> SUFFICES ASSUME TypeOK, Starting PROVE Promise!Next \/ UNCHANGED <<offered, file>>
    OBVIOUS
  <1>1. CASE StartBestEffort
    <2> DEFINE blanked == {o \in Outs : file[o] = Missing}
    <2>1. /\ file' = [o \in Outs |-> IF o \in blanked THEN Empty ELSE file[o]]
          /\ offered' = offered
      BY <1>1 DEF StartBestEffort, OnDisk
    <2> QED BY <2>1, BlankStep
  <1>2. CASE StartBestEffortFails
    <2>1. PICK n \in Outs :
            file' = [o \in Outs |-> IF o < n THEN OnDisk(file)[o] ELSE file[o]]
      BY <1>2 DEF StartBestEffortFails
    <2> DEFINE blanked == {o \in Outs : o < n /\ file[o] = Missing}
    <2>2. /\ file' = [o \in Outs |-> IF o \in blanked THEN Empty ELSE file[o]]
          /\ offered' = offered
      BY <1>2, <2>1 DEF StartBestEffortFails, OnDisk
    <2> QED BY <2>2, BlankStep
  <1>3. CASE StartFetched \/ StartRefused \/ StartAllowCached \/ StartFails
    BY <1>3 DEF StartFetched, StartRefused, StartAllowCached, StartFails, world
  <1> QED BY <1>1, <1>2, <1>3 DEF Starting

\* A text to be written is blank only in a repair: what renders is not blank.
LEMMA JobBlank ==
  ASSUME TypeOK, Provenance, job # None, NEW o \in Outs, job.set[o] = Empty
  PROVE  OnDrift = "repair"
  <1>1. ASSUME NEW d \in offered \cap Valid, job.set = Text[d] PROVE FALSE
    <2>1. Text[d][o] \in Texts
      BY TextAssumption, ValidAssumption
    <2> QED BY <1>1, <2>1, BlankAssumption
  <1> QED BY <1>1 DEF Provenance, JobSound, Whole

LEMMA PublishingServes ==
  TypeOK /\ Provenance /\ Publishing => Promise!Next \/ UNCHANGED <<offered, file>>
  <1> SUFFICES ASSUME TypeOK, Provenance, Publishing
               PROVE  Promise!Next \/ UNCHANGED <<offered, file>>
    OBVIOUS
  <1>1. CASE WriteFile
    <2>1. job \in Jobs /\ job # None
      BY <1>1 DEF WriteFile, TypeOK
    <2>2. job.next \in Outs /\ Known(offered, job.next, job.set[job.next])
      BY <2>1, JobKnown DEF Provenance, Jobs
    <2>3. job.set[job.next] = Empty => OnDrift = "repair"
      BY <2>1, <2>2, JobBlank
    <2>4. file' = [file EXCEPT ![job.next] = job.set[job.next]] /\ offered' = offered
      BY <1>1 DEF WriteFile, world
    <2> QED BY <2>2, <2>3, <2>4, WriteStep
  <1>2. CASE WriteFails \/ FirstWriteFails
    BY <1>2 DEF WriteFails, FirstWriteFails
  <1> QED BY <1>1, <1>2 DEF Publishing

LEMMA SelectingServes == Selecting => UNCHANGED <<offered, file>>
  BY DEF Selecting, Stop, Deliver, CanaryTick, DriftRepair, DriftFail, GoneEnds,
         Rebuild, RebuildFails, WatchEnded, Reopen, ResyncStart, ResyncReap, world

LEMMA BackgroundServes ==
  TypeOK /\ Provenance /\ Background => Promise!Next \/ UNCHANGED <<offered, file>>
  <1> SUFFICES ASSUME TypeOK, Provenance, Background
               PROVE  Promise!Next \/ UNCHANGED <<offered, file>>
    OBVIOUS
  <1>1. ASSUME NEW i \in Tasks, ResyncEmpties(i)
        PROVE  Promise!Next \/ UNCHANGED <<offered, file>>
    <2>1. OnDelete = "remove" /\ tasks[i].next \in Outs
      BY <1>1 DEF ResyncEmpties, Provenance, TasksSound, TypeOK, TaskStates
    <2>2. CASE file' = [file EXCEPT ![tasks[i].next] = Empty]
      <3>1. offered' = offered
        BY <1>1 DEF ResyncEmpties
      <3>2. Known(offered, tasks[i].next, Empty)
        BY DEF Known
      <3> QED BY <2>1, <2>2, <3>1, <3>2, WriteStep
    <2>3. CASE file' = file
      BY <1>1, <2>3 DEF ResyncEmpties
    <2> QED BY <1>1, <2>2, <2>3 DEF ResyncEmpties
  <1>2. CASE WatchPush \/ WatchDrops
    BY <1>2 DEF WatchPush, WatchDrops, world
  <1>3. ASSUME NEW i \in Tasks,
               ResyncAnswered(i) \/ ResyncFails(i) \/ ResyncDelivers(i) \/ ResyncAbsent(i)
        PROVE  UNCHANGED <<offered, file>>
    BY <1>3 DEF ResyncAnswered, ResyncFails, ResyncDelivers, ResyncAbsent, world
  <1> QED BY <1>1, <1>2, <1>3 DEF Background

\* The agent keeps the promise to the application: whatever interleaving of
\* watch, resyncs, canary, drift, crashes and rebuilds, the files change one
\* at a time and only as Served allows.
THEOREM Refinement == Spec => ImplementsServed
  <1>1. Init => Promise!Init
    BY DEF Init, Promise!Init
  <1>2. TypeOK /\ Provenance /\ [Next]_vars => [Promise!Next]_<<offered, file>>
    <2>1. UNCHANGED vars => UNCHANGED <<offered, file>>
      BY DEF vars
    <2> QED
      BY <2>1, EnvironmentServes, StartingServes, PublishingServes, SelectingServes,
         BackgroundServes DEF Next
  <1> QED
    BY <1>1, <1>2, TypeCorrect, ProvenanceHolds, PTL
    DEF Spec, ImplementsServed, Promise!Spec, Promise!vars

----------------------------------------------------------------------------
(* DiskIsBelief, from what a publish has written so far.                    *)

USE NAssumption DEF Outs

Quiet == happened \subseteq {"narrow"} /\ OnDelete # "remove"

Agrees(f, set) ==
  \A o \in Outs : f[o] = set[o] \/ (f[o] = Missing /\ set[o] = Empty)

\* The files written so far hold what the publish in progress puts there, and
\* those of a loop at rest hold what was published last.
Progress ==
  /\ pc = "writing" => \A o \in Outs : o < job.next => file[o] = job.set[o]
  /\ pc \in {"select", "reopening"} => Agrees(file, rendered)

LEMMA OnDiskAgrees == Agrees(file, OnDisk(file)) /\ Agrees(OnDisk(file), OnDisk(file))
  BY DEF Agrees, OnDisk

\* What has happened has happened.
LEMMA HappenedGrows == [Next]_vars => happened \subseteq happened'
  <1> SUFFICES ASSUME [Next]_vars PROVE happened \subseteq happened'
    OBVIOUS
  <1> USE DEF Happens, Costs, FetchFails, memory, stream, world
  <1>1. Environment => happened \subseteq happened'
    BY DEF Environment, StorePut, StoreDelete, Widen, Narrow, Crash, Restart, Tamper
  <1>2. Starting => happened \subseteq happened'
    BY DEF Starting, StartFetched, StartRefused, StartAllowCached, StartBestEffort,
           StartBestEffortFails, StartFails
  <1>3. Publishing => happened \subseteq happened'
    BY DEF Publishing, WriteFile, WriteFails, FirstWriteFails
  <1>4. Selecting => happened \subseteq happened'
    BY DEF Selecting, Stop, Deliver, CanaryTick, DriftRepair, DriftFail, GoneEnds,
           Rebuild, RebuildFails, WatchEnded, Reopen, ResyncStart, ResyncReap
  <1>5. Background => happened \subseteq happened'
    BY DEF Background, WatchPush, WatchDrops, ResyncAnswered, ResyncFails, ResyncDelivers,
           ResyncAbsent, ResyncEmpties
  <1>6. UNCHANGED vars => happened \subseteq happened'
    BY DEF vars
  <1> QED BY <1>1, <1>2, <1>3, <1>4, <1>5, <1>6 DEF Next

\* An event of a telling kind is remembered.
LEMMA Remembered ==
  ASSUME NEW kind \in Telling, Happens(kind)
  PROVE  kind \in happened'
  BY DEF Happens, Costs

\* A publish that starts has written nothing yet.
LEMMA PublishProgress ==
  ASSUME NEW set, NEW from, Publish(set, from)
  PROVE  Progress'
  <1>1. pc' = "writing" /\ job'.next = 1
    BY DEF Publish
  <1>2. \A o \in Outs : ~(o < 1)
    OBVIOUS
  <1> QED BY <1>1, <1>2 DEF Progress

LEMMA ProgressStep ==
  TypeOK /\ Provenance /\ (Quiet => Progress) /\ [Next]_vars => (Quiet => Progress)'
  <1> SUFFICES ASSUME TypeOK, Provenance, Quiet => Progress, [Next]_vars, Quiet'
               PROVE  Progress'
    OBVIOUS
  <1>0. Progress
    BY HappenedGrows DEF Quiet
  <1> USE <1>0
  <1> USE DEF memory, stream, world
  <1>1. CASE Environment
    <2>1. ASSUME NEW o \in Outs, Tamper(o) PROVE FALSE
      BY <2>1, Remembered DEF Tamper, Telling, Quiet
    <2>2. CASE Crash \/ Restart
      BY <2>2 DEF Crash, Restart, Die, Exit, Progress
    <2>3. UNCHANGED <<file, pc, job, rendered>> => Progress'
      BY DEF Progress
    <2>4. (\E d \in Docs : StorePut(d)) \/ StoreDelete \/ Widen \/ Narrow
          => UNCHANGED <<file, pc, job, rendered>>
      BY DEF StorePut, StoreDelete, Widen, Narrow
    <2> QED BY <1>1, <2>1, <2>2, <2>3, <2>4 DEF Environment
  <1>2. CASE Starting
    <2>1. CASE StartFetched
      BY <2>1, PublishProgress DEF StartFetched
    <2>2. CASE StartAllowCached \/ StartBestEffort
      <3>1. pc' = "select" /\ Agrees(file', rendered')
        BY <2>2, OnDiskAgrees DEF StartAllowCached, StartBestEffort, OpenWatch
      <3> QED BY <3>1 DEF Progress
    <2>3. CASE StartRefused \/ StartBestEffortFails \/ StartFails
      BY <2>3 DEF StartRefused, StartBestEffortFails, StartFails, Die, Exit, Progress
    <2> QED BY <1>2, <2>1, <2>2, <2>3 DEF Starting
  <1>3. CASE Publishing
    <2>1. CASE WriteFile
      <3>1. job \in Jobs /\ file \in Sets /\ job.next \in Outs
        BY <2>1 DEF WriteFile, TypeOK, Jobs
      <3>2. \A o \in Outs : o < job.next \/ o = job.next => file'[o] = job.set[o]
        BY <2>1, <3>1 DEF WriteFile, Progress, Sets
      <3>3. CASE job.next < N
        <4>1. pc' = "writing" /\ job'.set = job.set /\ job'.next = job.next + 1
          BY <2>1, <3>1, <3>3 DEF WriteFile, Jobs
        <4> QED BY <3>1, <3>2, <4>1 DEF Progress
      <3>4. CASE ~(job.next < N)
        <4>1. pc' = "select" /\ rendered' = job.set
          BY <2>1, <3>4 DEF WriteFile, OpenWatch
        <4>2. \A o \in Outs : o < job.next \/ o = job.next
          BY <3>1, <3>4
        <4>3. \A o \in Outs : file'[o] = job.set[o]
          BY <3>2, <4>2
        <4> QED BY <4>1, <4>3 DEF Progress, Agrees
      <3> QED BY <3>3, <3>4
    <2>2. ~(WriteFails \/ FirstWriteFails)
      <3>1. WriteFails \/ FirstWriteFails => "write" \in happened'
        BY Remembered DEF WriteFails, FirstWriteFails, Telling
      <3> QED BY <3>1 DEF Quiet
    <2> QED BY <1>3, <2>1, <2>2 DEF Publishing
  <1>4. CASE Selecting
    <2>1. CASE Deliver
      <3>1. CASE Publish(Text[slot], "delivery")
        BY <3>1, PublishProgress
      <3>2. CASE UNCHANGED <<pc, job>>
        BY <2>1, <3>2 DEF Deliver, Progress
      <3> QED BY <2>1, <3>1, <3>2 DEF Deliver
    <2>2. CASE CanaryTick \/ DriftRepair
      BY <2>2, PublishProgress DEF CanaryTick, DriftRepair
    <2>3. CASE Stop \/ DriftFail \/ GoneEnds \/ RebuildFails \/ Rebuild
      BY <2>3 DEF Stop, DriftFail, GoneEnds, RebuildFails, Rebuild, Die, Exit, Progress
    <2>4. CASE WatchEnded \/ Reopen
      BY <2>4 DEF WatchEnded, Reopen, OpenWatch, Progress
    <2>5. ASSUME NEW i \in Tasks, ResyncStart(i) \/ ResyncReap(i) PROVE Progress'
      BY <2>5 DEF ResyncStart, ResyncReap, Progress
    <2> QED BY <1>4, <2>1, <2>2, <2>3, <2>4, <2>5 DEF Selecting
  <1>5. CASE Background
    <2>1. ASSUME NEW i \in Tasks, ResyncEmpties(i) PROVE FALSE
      BY <2>1 DEF ResyncEmpties, Provenance, TasksSound, Quiet
    <2>2. WatchPush \/ WatchDrops => UNCHANGED <<file, pc, job, rendered>>
      BY DEF WatchPush, WatchDrops
    <2>3. ASSUME NEW i \in Tasks,
                 ResyncAnswered(i) \/ ResyncFails(i) \/ ResyncDelivers(i) \/ ResyncAbsent(i)
          PROVE  UNCHANGED <<file, pc, job, rendered>>
      BY <2>3 DEF ResyncAnswered, ResyncFails, ResyncDelivers, ResyncAbsent
    <2>4. UNCHANGED <<file, pc, job, rendered>> => Progress'
      BY DEF Progress
    <2> QED BY <1>5, <2>1, <2>2, <2>3, <2>4 DEF Background
  <1>6. CASE UNCHANGED vars
    BY <1>6 DEF vars, Progress
  <1> QED BY <1>1, <1>2, <1>3, <1>4, <1>5, <1>6 DEF Next

\* With no foreign write, no failed rename and no OnDelete::Remove, the disk
\* between two publishes is what the loop believes it published last, after
\* every crash, recovery, rebuild and half-done publish: `unchanged` may then
\* compare with memory and `drifted` never accuses anybody of the agent's own
\* writes.
THEOREM BeliefHolds == Spec => []DiskIsBelief
  <1>1. Init => (Quiet => Progress)
    BY DEF Init, Progress
  <1>2. TypeOK /\ Provenance /\ (Quiet => Progress) /\ [Next]_vars => (Quiet => Progress)'
    BY ProgressStep
  <1>3. (Quiet => Progress) => DiskIsBelief
    BY DEF Quiet, Progress, Agrees, DiskIsBelief
  <1> QED BY <1>1, <1>2, <1>3, TypeCorrect, ProvenanceHolds, PTL DEF Spec

----------------------------------------------------------------------------
(* HeldPodKeepsItsFiles, from what a publish past the first one may be.     *)

\* A process that is down or starting has no set; the first publish is the one
\* without a set before it; a repair publishes that set again; and a publish
\* of anything else was let through by the cohort.
Admitted ==
  /\ pc \in {"down", "starting", "stopped"} => rendered = None
  /\ (pc = "writing" /\ job.from = "first") => rendered = None
  /\ (pc = "writing" /\ job.from = "repair") => job.set = rendered
  /\ (pc = "writing" /\ Canary /\ ~admitted /\ "narrow" \notin happened)
       => job.from \in {"first", "repair"}

LEMMA ExitAdmitted ==
  ASSUME NEW to \in {"down", "stopped"}, Exit(to)
  PROVE  Admitted'
  BY DEF Exit, Admitted

LEMMA AdmittedStep == TypeOK /\ Admitted /\ [Next]_vars => Admitted'
  <1> SUFFICES ASSUME TypeOK, Admitted, [Next]_vars PROVE Admitted'
    OBVIOUS
  <1> USE DEF memory, stream, world
  <1> DEFINE Kept == UNCHANGED <<pc, job, rendered, admitted>>
  <1>g. happened \subseteq happened'
    BY HappenedGrows
  <1> USE <1>g
  <1>0. Kept => Admitted'
    BY DEF Admitted
  <1>1. CASE Environment
    <2>1. CASE Widen
      BY <2>1 DEF Widen, Admitted
    <2>2. CASE Narrow
      <3>1. "narrow" \in happened' /\ UNCHANGED <<pc, job, rendered>>
        BY <2>2, Remembered DEF Narrow, Telling
      <3> QED BY <3>1 DEF Admitted
    <2>3. CASE Crash
      BY <2>3, ExitAdmitted DEF Crash, Die
    <2>4. CASE Restart
      BY <2>4 DEF Restart, Admitted
    <2>5. StoreDelete \/ (\E d \in Docs : StorePut(d)) \/ (\E o \in Outs : Tamper(o)) => Kept
      BY DEF StoreDelete, StorePut, Tamper
    <2> QED BY <1>0, <1>1, <2>1, <2>2, <2>3, <2>4, <2>5 DEF Environment
  <1>2. CASE Starting
    <2>1. CASE StartFetched
      BY <2>1 DEF StartFetched, Publish, Admitted
    <2>2. CASE StartAllowCached \/ StartBestEffort
      BY <2>2 DEF StartAllowCached, StartBestEffort, OpenWatch, Admitted
    <2>3. CASE StartRefused \/ StartBestEffortFails \/ StartFails
      BY <2>3, ExitAdmitted DEF StartRefused, StartBestEffortFails, StartFails, Die
    <2> QED BY <1>2, <2>1, <2>2, <2>3 DEF Starting
  <1>3. CASE Publishing
    <2>1. CASE WriteFile
      <3>1. job \in Jobs
        BY <2>1 DEF WriteFile, TypeOK
      <3>2. CASE job.next < N
        <4>1. job'.set = job.set /\ job'.from = job.from
          BY <2>1, <3>1, <3>2 DEF WriteFile, Jobs
        <4>2. UNCHANGED <<pc, rendered, admitted>>
          BY <2>1, <3>2 DEF WriteFile
        <4> QED BY <4>1, <4>2 DEF Admitted
      <3>3. CASE ~(job.next < N)
        BY <2>1, <3>3 DEF WriteFile, OpenWatch, Admitted
      <3> QED BY <3>2, <3>3
    <2>2. CASE WriteFails
      BY <2>2 DEF WriteFails, Admitted
    <2>3. CASE FirstWriteFails
      BY <2>3, ExitAdmitted DEF FirstWriteFails, Die
    <2> QED BY <1>3, <2>1, <2>2, <2>3 DEF Publishing
  <1>4. CASE Selecting
    <2>1. CASE Deliver
      <3>1. CASE Admits /\ Publish(Text[slot], "delivery")
        BY <2>1, <3>1 DEF Deliver, Publish, Admits, Admitted
      <3>2. CASE UNCHANGED <<pc, job>>
        BY <1>0, <2>1, <3>2 DEF Deliver
      <3> QED BY <2>1, <3>1, <3>2 DEF Deliver
    <2>2. CASE CanaryTick
      BY <2>2 DEF CanaryTick, Publish, Admits, Admitted
    <2>3. CASE DriftRepair
      BY <2>3 DEF DriftRepair, Publish, Admitted
    <2>4. CASE Stop \/ DriftFail \/ GoneEnds \/ RebuildFails
      BY <2>4, ExitAdmitted DEF Stop, DriftFail, GoneEnds, RebuildFails, Die
    <2>5. CASE Rebuild
      BY <2>5 DEF Rebuild, Admitted
    <2>6. CASE WatchEnded \/ Reopen
      BY <2>6 DEF WatchEnded, Reopen, OpenWatch, Admitted
    <2>7. ASSUME NEW i \in Tasks, ResyncStart(i) \/ ResyncReap(i) PROVE Kept
      BY <2>7 DEF ResyncStart, ResyncReap
    <2> QED BY <1>0, <1>4, <2>1, <2>2, <2>3, <2>4, <2>5, <2>6, <2>7 DEF Selecting
  <1>5. CASE Background
    <2>1. WatchPush \/ WatchDrops => Kept
      BY DEF WatchPush, WatchDrops
    <2>2. ASSUME NEW i \in Tasks, \/ ResyncAnswered(i) \/ ResyncFails(i) \/ ResyncDelivers(i)
                                 \/ ResyncAbsent(i) \/ ResyncEmpties(i)
          PROVE  Kept
      BY <2>2 DEF ResyncAnswered, ResyncFails, ResyncDelivers, ResyncAbsent, ResyncEmpties
    <2> QED BY <1>0, <1>5, <2>1, <2>2 DEF Background
  <1>6. CASE UNCHANGED vars
    BY <1>0, <1>6 DEF vars
  <1> QED BY <1>1, <1>2, <1>3, <1>4, <1>5, <1>6 DEF Next

\* What HeldPodKeepsItsFiles says of one step.
Keeps ==
  (Canary /\ ~admitted /\ rendered # None /\ "narrow" \notin happened)
    => /\ rendered' \in {rendered, None}
       /\ \A o \in Outs : file'[o] \in {file[o], rendered[o], Empty, Foreign}

LEMMA KeepsStep == TypeOK /\ Admitted /\ [Next]_vars => Keeps
  <1> SUFFICES ASSUME TypeOK, Admitted, [Next]_vars, Canary, ~admitted, rendered # None,
                      "narrow" \notin happened
               PROVE  /\ rendered' \in {rendered, None}
                      /\ \A o \in Outs : file'[o] \in {file[o], rendered[o], Empty, Foreign}
    BY DEF Keeps
  <1> USE DEF memory, stream, world
  <1> DEFINE Kept == file' = file /\ rendered' \in {rendered, None}
  <1>1. CASE Environment
    <2>1. ASSUME NEW o \in Outs, Tamper(o)
          PROVE  rendered' = rendered /\ \A u \in Outs : file'[u] \in {file[u], Foreign}
      BY <2>1 DEF Tamper, TypeOK, Sets
    <2>2. StoreDelete \/ Widen \/ Narrow \/ Crash \/ Restart \/ (\E d \in Docs : StorePut(d)) => Kept
      BY DEF StoreDelete, Widen, Narrow, Crash, Restart, StorePut, Die, Exit
    <2> QED BY <1>1, <2>1, <2>2 DEF Environment
  <1>2. CASE Starting
    <2>1. pc # "starting"
      BY DEF Admitted
    <2> QED BY <1>2, <2>1 DEF Starting, StartFetched, StartRefused, StartAllowCached,
                              StartBestEffort, StartBestEffortFails, StartFails
  <1>3. CASE Publishing
    <2>1. CASE WriteFile
      <3>1. pc = "writing" /\ job.set = rendered
        BY <2>1 DEF WriteFile, Admitted
      <3>2. file' = [file EXCEPT ![job.next] = rendered[job.next]]
        BY <2>1, <3>1 DEF WriteFile
      <3>3. rendered' = rendered
        BY <2>1, <3>1 DEF WriteFile
      <3> QED BY <3>2, <3>3 DEF TypeOK, Sets
    <2>2. WriteFails \/ FirstWriteFails => Kept
      BY DEF WriteFails, FirstWriteFails, Die, Exit
    <2> QED BY <1>3, <2>1, <2>2 DEF Publishing
  <1>4. CASE Selecting
    <2>1. Selecting => Kept
      BY DEF Selecting, Stop, Deliver, CanaryTick, DriftRepair, DriftFail, GoneEnds, Rebuild,
             RebuildFails, WatchEnded, Reopen, ResyncStart, ResyncReap, Die, Exit
    <2> QED BY <1>4, <2>1
  <1>5. CASE Background
    <2>1. ASSUME NEW i \in Tasks, ResyncEmpties(i)
          PROVE  rendered' = rendered /\ \A u \in Outs : file'[u] \in {file[u], Empty}
      BY <2>1 DEF ResyncEmpties, TypeOK, Sets
    <2>2. WatchPush \/ WatchDrops => Kept
      BY DEF WatchPush, WatchDrops
    <2>3. ASSUME NEW i \in Tasks,
                 ResyncAnswered(i) \/ ResyncFails(i) \/ ResyncDelivers(i) \/ ResyncAbsent(i)
          PROVE  Kept
      BY <2>3 DEF ResyncAnswered, ResyncFails, ResyncDelivers, ResyncAbsent
    <2> QED BY <1>5, <2>1, <2>2, <2>3 DEF Background
  <1>6. CASE UNCHANGED vars
    BY <1>6 DEF vars
  <1> QED BY <1>1, <1>2, <1>3, <1>4, <1>5, <1>6 DEF Next

\* A pod outside a cohort that only widens keeps its files: no push, resync,
\* held set or repair replaces what a running loop serves, for any number of
\* files, documents and resync tasks.
THEOREM HeldPodKeeps == Spec => HeldPodKeepsItsFiles
  <1>1. Init => Admitted
    BY DEF Init, Admitted
  <1>2. TypeOK /\ Admitted /\ [Next]_vars => Admitted'
    BY AdmittedStep
  <1>3. TypeOK /\ Admitted /\ [Next]_vars => Keeps
    BY KeepsStep
  <1> QED
    BY <1>1, <1>2, <1>3, TypeCorrect, PTL DEF Spec, HeldPodKeepsItsFiles, Keeps

=============================================================================
