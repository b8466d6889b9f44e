----------------------------- MODULE Reconcile ------------------------------
(***************************************************************************)
(* One DynamicConfigRender and the operator's controller: crds.rs.          *)
(*                                                                         *)
(* The controller holds a copy of the Render that its watch brings, a queue *)
(* in which what happens at once is one item, and a timer that is the       *)
(* requeue of the last attempt.  An attempt reads the class, the store and  *)
(* the target one after the other, writes the target, and then the Render's *)
(* status - which is a change of the Render, and comes back by the watch.   *)
(*                                                                         *)
(* A value that may be absent is a set of at most one element.              *)
(***************************************************************************)
EXTENDS Naturals, FiniteSets, TLC

CONSTANTS
  Specs,     \* of the Render: kind of class, target, shape, file, retain
  ClassSpecs,\* store, and whether it is a vault and allows the namespace
  Stores, Docs,
  View,      \* what a document is in a shape: a data map, or nothing
  Uids,      \* of the Renders made one after the other under the name
  Chaos, Budget

Kinds == {"own", "cluster"}
Targets == {"configMap", "secret"}
Shapes == {"file", "entries"}

ASSUME BudgetAssumption == Budget \in Nat
ASSUME UidsAssumption == Uids \subseteq Nat \ {0}
ASSUME SpecsAssumption ==
  /\ Specs \subseteq [kind : Kinds, target : Targets \cup {"both", "neither"}, shape : Shapes,
                     file : BOOLEAN, retain : BOOLEAN]
  /\ ClassSpecs \subseteq [store : Stores, vault : BOOLEAN, allows : BOOLEAN]

Reasons == {"ClassNotFound", "ClassNotAllowed", "RenderFailed"}

VARIABLES
  render,    \* the Render in the API server: uid, generation, spec, status
  classes, store,
  target,    \* the target objects: data, whose keys are the operator's, owner
  used,      \* the uids used so far
  copy,      \* the reflector's Render
  news,      \* what has happened to the Render that the copy has not
  heard,     \* of which kind of class there is a change to hear of
  queue, timer,
  failures,  \* BACKOFF's count
  pc, job,   \* reconcile() and attempt()
  basis,     \* what the last attempt resolved, if it could read the class
  budget

outside == <<render, classes, store, target, used, budget>>
vars == <<render, classes, store, target, used, copy, news, heard, queue, timer, failures, pc,
          job, basis, budget>>

Only(option) == CHOOSE value \in option : TRUE

NoStatus == [rendered |-> FALSE, observed |-> 0, error |-> "none"]
NoJob == [copy |-> {}, class |-> {}, data |-> {}, changed |-> FALSE, error |-> "none"]
Made(uid, spec) == [uid |-> uid, generation |-> 1, spec |-> spec, status |-> NoStatus]

Init ==
  /\ \E s \in Specs, uid \in Uids :
       (\A u \in Uids : uid <= u) /\ render = {Made(uid, s)} /\ used = {uid}
  /\ \E class \in ClassSpecs : classes = [k \in Kinds |-> {class}]
  /\ store \in [Stores -> Docs]
  /\ target = [t \in Targets |-> {}]
  /\ copy = {} /\ news = {"spec"} /\ heard = Kinds
  /\ queue = {} /\ timer = FALSE /\ failures = 0
  /\ pc = "idle" /\ job = NoJob /\ basis = {}
  /\ budget = Budget

-----------------------------------------------------------------------------
(* The cluster.                                                             *)

Spend(event) == event \in Chaos /\ budget > 0 /\ budget' = budget - 1

controller == <<copy, queue, timer, failures, pc, job, basis>>

RenderMade(uid, s) ==
  /\ render = {} /\ uid \notin used /\ Spend("make")
  /\ render' = {Made(uid, s)} /\ used' = used \cup {uid}
  /\ news' = news \cup {"spec"}
  /\ UNCHANGED <<classes, store, target, heard>> /\ UNCHANGED controller

Edited(r, s) == [uid |-> r.uid, generation |-> r.generation + 1, spec |-> s, status |-> r.status]

RenderEdited(s) ==
  /\ Spend("spec")
  /\ \E r \in render : s # r.spec /\ render' = {Edited(r, s)}
  /\ news' = news \cup {"spec"}
  /\ UNCHANGED <<classes, store, target, used, heard>> /\ UNCHANGED controller

RenderDeleted ==
  /\ render # {} /\ Spend("delete")
  /\ render' = {} /\ news' = news \cup {"spec"}
  /\ UNCHANGED <<classes, store, target, used, heard>> /\ UNCHANGED controller

ClassEdited(kind, class) ==
  /\ class # classes[kind] /\ Spend("class")
  /\ classes' = [classes EXCEPT ![kind] = class]
  /\ heard' = heard \cup {kind}
  /\ UNCHANGED <<render, store, target, used, news>> /\ UNCHANGED controller

StorePut(s, doc) ==
  /\ doc # store[s] /\ Spend("put")
  /\ store' = [store EXCEPT ![s] = doc]
  /\ UNCHANGED <<render, classes, target, used, news, heard>> /\ UNCHANGED controller

(* Somebody else adds a key to a target, sets one, or deletes it.           *)
TargetTouched(t) ==
  /\ target[t] # {} /\ Spend("touch")
  /\ \/ target' = [target EXCEPT ![t] = {}]
     \/ \E key \in {"foreign"} \cup DOMAIN Only(target[t]).data :
          target' = [target EXCEPT ![t] = {[o EXCEPT !.data = (key :> "foreign") @@ @] : o \in @}]
  /\ UNCHANGED <<render, classes, store, used, news, heard>> /\ UNCHANGED controller

(* Kubernetes' garbage collector: an owner that is not there.               *)
Collected(t) ==
  /\ \E o \in target[t] : o.owner # 0 /\ o.owner \notin {r.uid : r \in render}
  /\ target' = [target EXCEPT ![t] = {}]
  /\ UNCHANGED <<render, classes, store, used, news, heard, budget>> /\ UNCHANGED controller

-----------------------------------------------------------------------------
(* What starts an attempt.                                                  *)

(* The watch brings the Render as it is now.                                *)
Observes ==
  /\ news # {}
  /\ copy' = render /\ news' = {} /\ queue' = queue \cup news
  /\ UNCHANGED <<heard, timer, failures, pc, job, basis>> /\ UNCHANGED outside

(* Mutant of Concerns: the other kind's test.                               *)
ConcernsOwn(kind) == \E r \in copy : kind = "own" \/ r.spec.kind = "own"

(* The mappers look the class up in the copy: the name alone for a class of *)
(* the namespace, the kind as well for one of the cluster.                  *)
Concerns(kind) == \E r \in copy : kind = "own" \/ r.spec.kind = "cluster"

ClassHeard(kind) ==
  /\ kind \in heard
  /\ heard' = heard \ {kind}
  /\ queue' = IF Concerns(kind) THEN queue \cup {"class"} ELSE queue
  /\ UNCHANGED <<copy, news, timer, failures, pc, job, basis>> /\ UNCHANGED outside

TimerFires ==
  /\ timer
  /\ timer' = FALSE /\ queue' = queue \cup {"timer"}
  /\ UNCHANGED <<copy, news, heard, failures, pc, job, basis>> /\ UNCHANGED outside

(* Mutant of Begins: whether the copy still has the Render or not.          *)
BeginsAnyway ==
  /\ pc = "idle" /\ queue # {}
  /\ queue' = {} /\ timer' = FALSE
  /\ pc' = "resolving" /\ job' = [NoJob EXCEPT !.copy = copy]
  /\ UNCHANGED <<copy, news, heard, failures, basis>> /\ UNCHANGED outside

(* An item whose Render is gone from the copy is dropped; the item that is  *)
(* due first is the only one.                                               *)
Begins ==
  /\ pc = "idle" /\ queue # {}
  /\ queue' = {} /\ timer' = FALSE
  /\ IF copy = {} THEN UNCHANGED <<pc, job>>
     ELSE pc' = "resolving" /\ job' = [NoJob EXCEPT !.copy = copy]
  /\ UNCHANGED <<copy, news, heard, failures, basis>> /\ UNCHANGED outside

-----------------------------------------------------------------------------
(* The attempt.                                                             *)

spec == Only(job.copy).spec

Refusal(s, class) ==
  CASE class = {} -> "ClassNotFound"
    [] s.kind = "cluster" /\ ~Only(class).allows -> "ClassNotAllowed"
    [] \/ s.target \notin Targets
       \/ s.shape = "file" /\ ~s.file
       \/ Only(class).vault /\ s.target # "secret" -> "RenderFailed"
    [] OTHER -> "none"

Fails(reason) == pc' = "reporting" /\ job' = [job EXCEPT !.error = reason]

trigger == <<copy, news, heard, queue, timer, failures>>

Resolves ==
  /\ pc = "resolving"
  /\ LET class == classes[spec.kind] IN
     /\ basis' = {[spec |-> spec, class |-> class]}
     /\ IF Refusal(spec, class) # "none" THEN Fails(Refusal(spec, class))
        ELSE pc' = "fetching" /\ job' = [job EXCEPT !.class = class]
  /\ UNCHANGED trigger /\ UNCHANGED outside

(* The token's secret and the store.                                        *)
Fetches ==
  /\ pc = "fetching"
  /\ LET data == View[spec.shape][store[Only(job.class).store]] IN
     IF data = {} THEN Fails("RenderFailed")
     ELSE pc' = "comparing" /\ job' = [job EXCEPT !.data = data]
  /\ UNCHANGED basis /\ UNCHANGED trigger /\ UNCHANGED outside

Same(o, data) == {x.data : x \in o} = data

Compares ==
  /\ pc = "comparing"
  /\ pc' = IF Same(target[spec.target], job.data) THEN "reporting" ELSE "applying"
  /\ UNCHANGED <<job, basis>> /\ UNCHANGED trigger /\ UNCHANGED outside

CallFails ==
  /\ pc \in {"resolving", "fetching", "comparing", "applying"} /\ Spend("call")
  /\ Fails("RenderFailed")
  /\ basis' = IF pc = "resolving" THEN {} ELSE basis
  /\ UNCHANGED <<render, classes, store, target, used>> /\ UNCHANGED trigger

(* Mutant of Owner: under neither policy.                                   *)
OwnerNever(r) == 0
Owner(r) == IF r.spec.retain THEN 0 ELSE r.uid

(* A server-side apply by one field manager: what it applied before and     *)
(* does not now goes, but for what it wrote through stringData.             *)
Applied(o, r, data) ==
  LET gone == IF r.spec.target = "configMap" THEN UNION {x.ours : x \in o} ELSE {}
      old == UNION {{x.data} : x \in o}
      kept == [key \in UNION {DOMAIN d \ gone : d \in old} |-> Only(old)[key]]
  IN [data |-> data @@ kept, ours |-> DOMAIN data, owner |-> Owner(r), under |-> r.spec.retain]

Applies ==
  /\ pc = "applying"
  /\ target' = [target EXCEPT ![spec.target] = {Applied(@, Only(job.copy), Only(job.data))}]
  /\ \/ pc' = "reporting" /\ job' = [job EXCEPT !.changed = TRUE] /\ UNCHANGED budget
     \/ Spend("call") /\ Fails("RenderFailed")
  /\ UNCHANGED <<render, classes, store, used, basis>> /\ UNCHANGED trigger

-----------------------------------------------------------------------------
(* The status, by what the copy said when the attempt began.                *)

(* Mutants of Due: after an error that is over, the status is left; or it   *)
(* is written each time.                                                    *)
DueIfMoved(r) == job.changed \/ ~r.status.rendered
DueAlways(r) == TRUE
Due(r) == job.changed \/ r.status.error # "none" \/ ~r.status.rendered

Says(r) ==
  [rendered |-> job.error = "none" \/ r.status.rendered, observed |-> r.generation,
   error |-> job.error]

Written ==
  /\ render' = {[r EXCEPT !.status = Says(Only(job.copy))] : r \in render}
  /\ news' = news \cup {"own"}

(* Mutant of Ends: after a failure, a change is waited for.                 *)
EndsForGood(failed) ==
  /\ pc' = "idle" /\ job' = NoJob /\ timer' = ~failed
  /\ failures' = IF failed THEN IF failures < Budget + 1 THEN failures + 1 ELSE failures ELSE 0
  /\ UNCHANGED <<classes, store, target, used, copy, heard, queue, basis>>

Ends(failed) ==
  /\ pc' = "idle" /\ job' = NoJob /\ timer' = TRUE
  /\ failures' = IF failed THEN IF failures < Budget + 1 THEN failures + 1 ELSE failures ELSE 0
  /\ UNCHANGED <<classes, store, target, used, copy, heard, queue, basis>>

NeedsStatus == job.error # "none" \/ Due(Only(job.copy))

ReportsNothing ==
  /\ pc = "reporting" /\ ~NeedsStatus
  /\ Ends(FALSE) /\ UNCHANGED <<render, news, budget>>

Reports ==
  /\ pc = "reporting" /\ NeedsStatus /\ render # {}
  /\ Written
  /\ \/ Ends(job.error # "none") /\ UNCHANGED budget
     \/ Spend("call") /\ Ends(TRUE)

(* The Render is gone, or the API server does not take it.                  *)
ReportFails ==
  /\ pc = "reporting" /\ NeedsStatus
  /\ IF render = {} THEN UNCHANGED budget ELSE Spend("call")
  /\ Ends(TRUE) /\ UNCHANGED <<render, news>>

(* The controller starts again: its watches list what there is.             *)
Crashes ==
  /\ Spend("crash")
  /\ copy' = {} /\ news' = {"spec"} /\ heard' = Kinds
  /\ queue' = {} /\ timer' = FALSE /\ failures' = 0 /\ pc' = "idle" /\ job' = NoJob
  /\ UNCHANGED <<render, classes, store, target, used, basis>>

Attempt ==
  Resolves \/ Fetches \/ Compares \/ CallFails \/ Applies \/ ReportsNothing \/ Reports \/ ReportFails

Next ==
  \/ \E uid \in Uids, s \in Specs : RenderMade(uid, s)
  \/ \E s \in Specs : RenderEdited(s)
  \/ RenderDeleted
  \/ \E k \in Kinds, class \in {{}} \cup {{c} : c \in ClassSpecs} : ClassEdited(k, class)
  \/ \E s \in Stores, doc \in Docs : StorePut(s, doc)
  \/ \E t \in Targets : TargetTouched(t) \/ Collected(t)
  \/ Observes \/ (\E k \in Kinds : ClassHeard(k)) \/ TimerFires \/ Begins
  \/ Attempt \/ Crashes

Spec == Init /\ [][Next]_vars

(* The watches bring what there is, the timers of tokio fire, the API       *)
(* server answers in the end, and its garbage collector works.              *)
FairSpec ==
  /\ Spec
  /\ WF_vars(Observes) /\ WF_vars(TimerFires) /\ WF_vars(Begins) /\ WF_vars(Attempt)
  /\ \A k \in Kinds : WF_vars(ClassHeard(k))
  /\ \A t \in Targets : WF_vars(Collected(t))

-----------------------------------------------------------------------------
(* Properties.                                                              *)

Statuses == [rendered : BOOLEAN, observed : Nat, error : Reasons \cup {"none"}]
RenderStates == [uid : Uids, generation : Nat, spec : Specs, status : Statuses]
AtMostOne(option) == \A one, other \in option : one = other
Data == {View[shape][doc] : shape \in Shapes, doc \in Docs} \cup {{}}
JobStates ==
  [copy : SUBSET RenderStates, class : SUBSET ClassSpecs, data : Data, changed : BOOLEAN,
   error : Reasons \cup {"none"}]

(* Every variable has its type, and an attempt is under way exactly with a  *)
(* Render in hand.                                                          *)
TypeOK ==
  /\ render \subseteq RenderStates /\ AtMostOne(render)
  /\ copy \subseteq RenderStates /\ AtMostOne(copy)
  /\ classes \in [Kinds -> SUBSET ClassSpecs] /\ \A k \in Kinds : AtMostOne(classes[k])
  /\ store \in [Stores -> Docs] /\ DOMAIN target = Targets /\ used \subseteq Uids
  /\ news \subseteq {"spec", "own"} /\ heard \subseteq Kinds
  /\ queue \subseteq {"spec", "own", "class", "timer"} /\ timer \in BOOLEAN
  /\ failures \in Nat /\ budget \in Nat
  /\ pc \in {"idle", "resolving", "fetching", "comparing", "applying", "reporting"}
  /\ job \in JobStates /\ AtMostOne(job.copy) /\ (job.copy # {} <=> pc # "idle")
  /\ AtMostOne(job.class) /\ (pc \in {"fetching", "comparing", "applying"} => job.class # {})

AtRest == pc = "idle" /\ queue = {} /\ news = {} /\ heard = {}

(* No edit is missed: when nothing is on its way the last attempt was made  *)
(* with the Render and the class that there are now, however the watches'   *)
(* events, the copy and the attempts overlapped - or it could not read the  *)
(* class, and is counted as failed.                                         *)
NothingMissed ==
  AtRest => \A r \in render :
    \/ basis = {[spec |-> r.spec, class |-> classes[r.spec.kind]]}
    \/ basis = {} /\ failures > 0 /\ timer

(* A Render that the operator holds for healthy reads so: though the status *)
(* is written only when something moved, and by a copy that may be old.     *)
HealthyReadsReady ==
  AtRest /\ failures = 0 => \A r \in render : r.status.rendered /\ r.status.error = "none"

Verdict(r) ==
  LET class == classes[r.spec.kind]  refusal == Refusal(r.spec, class) IN
  IF refusal # "none" THEN refusal
  ELSE IF View[r.spec.shape][store[Only(class).store]] = {} THEN "RenderFailed" ELSE "none"

Document(r) == View[r.spec.shape][store[Only(classes[r.spec.kind]).store]]

Carries(r) ==
  \E o \in target[r.spec.target], d \in Document(r) :
    \A key \in DOMAIN d : key \in DOMAIN o.data /\ o.data[key] = d[key]

(* In the end the target carries the store's document, or the status has    *)
(* the reason why not, whatever failed, crashed or was touched before.      *)
Converges ==
  <>[](\A r \in render : r.status.error = Verdict(r) /\ (Verdict(r) = "none" => Carries(r)))

Exact(r) == Verdict(r) = "none" /\ {o.data : o \in target[r.spec.target]} = Document(r)

(* A status feeds no storm: once the target is what the document says, no   *)
(* attempt comes of the operator's own write.                               *)
Quiet == <>[](\A r \in render : Exact(r) => "own" \notin queue)

(* A target goes with its Render, whatever attempt was under way when the   *)
(* Render was deleted, unless it was last written under Retain.             *)
NothingLeftBehind ==
  <>[](render = {}) => <>[](\A t \in Targets : \A o \in target[t] : o.under)

(* After a failure the next attempt waits, or has a reason of its own.      *)
BackoffHeld ==
  [][pc = "idle" /\ pc' = "resolving" /\ failures > 0 => queue # {"own"}]_vars

=============================================================================
