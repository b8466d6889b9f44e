-------------------------- MODULE ReconcileProofs ---------------------------
(***************************************************************************)
(* Theorems about Reconcile: its types, that no edit of a Render or of its  *)
(* class is missed, and that a Render that the operator holds for healthy   *)
(* reads so - for any documents, classes, Renders and number of faults.     *)
(*                                                                         *)
(* Both safety properties rest on what the queue knows (Caught): with no    *)
(* news on its way the copy is the Render, and while nothing is queued the  *)
(* attempt under way was begun with that copy.                              *)
(***************************************************************************)
EXTENDS Reconcile, TLAPS

(* An option that is not empty holds what Only takes of it.                 *)
LEMMA OnlyIn == ASSUME NEW S, S # {} PROVE Only(S) \in S
  BY DEF Only

-----------------------------------------------------------------------------
(* Types.                                                                   *)

TypeOutside ==
  /\ render \subseteq RenderStates /\ AtMostOne(render)
  /\ classes \in [Kinds -> SUBSET ClassSpecs] /\ \A k \in Kinds : AtMostOne(classes[k])
  /\ store \in [Stores -> Docs] /\ DOMAIN target = Targets /\ used \subseteq Uids
  /\ budget \in Nat

TypeTrigger ==
  /\ copy \subseteq RenderStates /\ AtMostOne(copy)
  /\ news \subseteq {"spec", "own"} /\ heard \subseteq Kinds
  /\ queue \subseteq {"spec", "own", "class", "timer"} /\ timer \in BOOLEAN
  /\ failures \in Nat

TypeJob ==
  /\ pc \in {"idle", "resolving", "fetching", "comparing", "applying", "reporting"}
  /\ job \in JobStates /\ AtMostOne(job.copy) /\ (job.copy # {} <=> pc # "idle")
  /\ AtMostOne(job.class) /\ (pc \in {"fetching", "comparing", "applying"} => job.class # {})

LEMMA TypeParts == TypeOK <=> TypeOutside /\ TypeTrigger /\ TypeJob
  BY DEF TypeOK, TypeOutside, TypeTrigger, TypeJob

(* What a Render is made of, and what it becomes.                           *)
LEMMA MadeTyped == ASSUME NEW uid \in Uids, NEW s \in Specs PROVE Made(uid, s) \in RenderStates
  BY DEF Made, RenderStates, Statuses, NoStatus, Reasons

LEMMA NoJobTyped == NoJob \in JobStates /\ AtMostOne(NoJob.copy) /\ NoJob.copy = {}
                    /\ AtMostOne(NoJob.class)
  BY DEF NoJob, JobStates, Data, AtMostOne, Reasons

LEMMA RefusalTyped == ASSUME NEW s, NEW class PROVE Refusal(s, class) \in Reasons \cup {"none"}
  BY DEF Refusal, Reasons

LEMMA InitTyped == Init => TypeOK
<1> SUFFICES ASSUME Init PROVE TypeOK
  OBVIOUS
<1>1. TypeOutside
  <2>1. PICK s \in Specs, uid \in Uids : render = {Made(uid, s)} /\ used = {uid}
    BY DEF Init
  <2>2. render \subseteq RenderStates /\ AtMostOne(render) /\ used \subseteq Uids
    BY <2>1, MadeTyped DEF AtMostOne
  <2>3. PICK class \in ClassSpecs : classes = [k \in Kinds |-> {class}]
    BY DEF Init
  <2>4. classes \in [Kinds -> SUBSET ClassSpecs] /\ \A k \in Kinds : AtMostOne(classes[k])
    BY <2>3 DEF AtMostOne
  <2>5. store \in [Stores -> Docs] /\ DOMAIN target = Targets /\ budget \in Nat
    BY BudgetAssumption DEF Init
  <2> QED
    BY <2>2, <2>4, <2>5 DEF TypeOutside
<1>2. TypeTrigger
  BY DEF Init, TypeTrigger, AtMostOne
<1>3. TypeJob
  BY NoJobTyped DEF Init, TypeJob
<1> QED
  BY <1>1, <1>2, <1>3, TypeParts

(* The cluster's steps.                                                     *)
Environment ==
  \/ \E uid \in Uids, s \in Specs : RenderMade(uid, s)
  \/ \E s \in Specs : RenderEdited(s)
  \/ RenderDeleted
  \/ \E k \in Kinds, class \in {{}} \cup {{c} : c \in ClassSpecs} : ClassEdited(k, class)
  \/ \E s \in Stores, doc \in Docs : StorePut(s, doc)
  \/ \E t \in Targets : TargetTouched(t) \/ Collected(t)

(* Whatever happens in the cluster, the controller is where it was, but for *)
(* what it has yet to hear.                                                 *)
LEMMA EnvironmentKeeps ==
  ASSUME Environment PROVE UNCHANGED controller
  BY DEF Environment, RenderMade, RenderEdited, RenderDeleted, ClassEdited, StorePut,
         TargetTouched, Collected, controller

LEMMA SpendTyped == ASSUME TypeOutside, NEW e, Spend(e) PROVE budget' \in Nat
  BY DEF TypeOutside, Spend

LEMMA EnvironmentTyped == ASSUME TypeOK, Environment PROVE TypeOK'
<1> USE DEF TypeOutside
<1>0. TypeOutside /\ TypeTrigger /\ TypeJob
  BY TypeParts
<1>1. ASSUME NEW uid \in Uids, NEW s \in Specs, RenderMade(uid, s)
      PROVE TypeOutside' /\ news' \subseteq {"spec", "own"} /\ heard' = heard
  BY <1>0, <1>1, MadeTyped, SpendTyped DEF RenderMade, AtMostOne, TypeTrigger
<1>2. ASSUME NEW s \in Specs, RenderEdited(s)
      PROVE TypeOutside' /\ news' \subseteq {"spec", "own"} /\ heard' = heard
  <2>1. PICK r \in render : render' = {Edited(r, s)}
    BY <1>2 DEF RenderEdited
  <2>2. Edited(r, s) \in RenderStates
    <3>1. r \in [uid : Uids, generation : Nat, spec : Specs, status : Statuses]
      BY <1>0 DEF RenderStates
    <3>2. r.generation + 1 \in Nat
      BY <3>1
    <3> QED
      BY <3>1, <3>2 DEF Edited, RenderStates
  <2> QED
    BY <1>0, <1>2, <2>1, <2>2, SpendTyped DEF RenderEdited, AtMostOne, TypeTrigger
<1>3. ASSUME RenderDeleted
      PROVE TypeOutside' /\ news' \subseteq {"spec", "own"} /\ heard' = heard
  BY <1>0, <1>3, SpendTyped DEF RenderDeleted, AtMostOne, TypeTrigger
<1>4. ASSUME NEW k \in Kinds, NEW class \in {{}} \cup {{c} : c \in ClassSpecs}, ClassEdited(k, class)
      PROVE TypeOutside' /\ news' = news /\ heard' \subseteq Kinds
  BY <1>0, <1>4, SpendTyped DEF ClassEdited, AtMostOne, TypeTrigger
<1>5. ASSUME NEW s \in Stores, NEW doc \in Docs, StorePut(s, doc)
      PROVE TypeOutside' /\ news' = news /\ heard' = heard
  BY <1>0, <1>5, SpendTyped DEF StorePut, AtMostOne, TypeTrigger
<1>6. ASSUME NEW t \in Targets, TargetTouched(t) \/ Collected(t)
      PROVE TypeOutside' /\ news' = news /\ heard' = heard
  <2>1. CASE TargetTouched(t)
    <3>1. DOMAIN target' = DOMAIN target
      BY <2>1 DEF TargetTouched
    <3> QED
      BY <1>0, <2>1, <3>1, SpendTyped DEF TargetTouched, AtMostOne
  <2>2. CASE Collected(t)
    BY <1>0, <2>2 DEF Collected, AtMostOne
  <2> QED
    BY <1>6, <2>1, <2>2
<1>7. TypeOutside' /\ news' \subseteq {"spec", "own"} /\ heard' \subseteq Kinds
  BY <1>0, <1>1, <1>2, <1>3, <1>4, <1>5, <1>6 DEF Environment, TypeTrigger
<1>8. TypeTrigger' /\ TypeJob'
  BY <1>0, <1>7, EnvironmentKeeps DEF controller, TypeTrigger, TypeJob
<1> QED
  BY <1>7, <1>8 DEF TypeOK, TypeOutside, TypeTrigger, TypeJob

(* What brings and begins an attempt leaves the cluster alone.              *)
LEMMA OutsideKept ==
  ASSUME TypeOutside, UNCHANGED outside PROVE TypeOutside'
  BY DEF TypeOutside, outside

LEMMA TriggerTyped ==
  ASSUME TypeOK, Observes \/ (\E k \in Kinds : ClassHeard(k)) \/ TimerFires \/ Begins
  PROVE  TypeOK'
<1>0. TypeOutside /\ TypeTrigger /\ TypeJob
  BY TypeParts
<1>1. TypeOutside'
  BY <1>0, OutsideKept DEF Observes, ClassHeard, TimerFires, Begins
<1>2. CASE Observes
  <2>1. TypeTrigger'
    BY <1>0, <1>2 DEF Observes, TypeTrigger, TypeOutside, AtMostOne
  <2>2. TypeJob'
    BY <1>0, <1>2 DEF Observes, TypeJob
  <2> QED
    BY <1>1, <2>1, <2>2 DEF TypeOK, TypeOutside, TypeTrigger, TypeJob
<1>3. CASE \E k \in Kinds : ClassHeard(k)
  <2>1. TypeTrigger'
    BY <1>0, <1>3 DEF ClassHeard, TypeTrigger
  <2>2. TypeJob'
    BY <1>0, <1>3 DEF ClassHeard, TypeJob
  <2> QED
    BY <1>1, <2>1, <2>2 DEF TypeOK, TypeOutside, TypeTrigger, TypeJob
<1>4. CASE TimerFires
  <2>1. TypeTrigger'
    BY <1>0, <1>4 DEF TimerFires, TypeTrigger
  <2>2. TypeJob'
    BY <1>0, <1>4 DEF TimerFires, TypeJob
  <2> QED
    BY <1>1, <2>1, <2>2 DEF TypeOK, TypeOutside, TypeTrigger, TypeJob
<1>5. CASE Begins
  <2>1. TypeTrigger'
    BY <1>0, <1>5 DEF Begins, TypeTrigger
  <2>2. TypeJob'
    <3>1. CASE copy = {}
      BY <1>0, <1>5, <3>1 DEF Begins, TypeJob
    <3>2. CASE copy # {}
      <4>1. pc' = "resolving" /\ job' = [NoJob EXCEPT !.copy = copy]
        BY <1>5, <3>2 DEF Begins
      <4>2. copy \subseteq RenderStates /\ AtMostOne(copy)
        BY <1>0 DEF TypeTrigger
      <4>3. job' \in JobStates /\ job'.copy = copy /\ job'.class = {}
        BY <4>1, <4>2, NoJobTyped DEF JobStates, NoJob
      <4> QED
        BY <3>2, <4>1, <4>2, <4>3 DEF TypeJob, AtMostOne
    <3> QED
      BY <3>1, <3>2
  <2> QED
    BY <1>1, <2>1, <2>2 DEF TypeOK, TypeOutside, TypeTrigger, TypeJob
<1> QED
  BY <1>2, <1>3, <1>4, <1>5

-----------------------------------------------------------------------------
(* The attempt's steps.                                                     *)

LEMMA TriggerKept == ASSUME TypeTrigger, UNCHANGED trigger PROVE TypeTrigger'
  BY DEF TypeTrigger, trigger

LEMMA FailsTyped ==
  ASSUME TypeJob, NEW reason \in Reasons, pc # "idle", Fails(reason) PROVE TypeJob'
<1>1. job' \in JobStates /\ job'.copy = job.copy /\ job'.class = job.class
  BY DEF Fails, TypeJob, JobStates
<1> QED
  BY <1>1 DEF Fails, TypeJob

(* The Render in hand, its class and its document.                          *)
LEMMA InHand ==
  ASSUME TypeJob, pc # "idle"
  PROVE  Only(job.copy) \in RenderStates /\ spec \in Specs /\ spec.kind \in Kinds /\ spec.shape \in Shapes
<1>1. Only(job.copy) \in job.copy /\ job.copy \subseteq RenderStates
  BY OnlyIn DEF TypeJob, JobStates
<1>2. spec \in Specs
  BY <1>1 DEF RenderStates, spec
<1> QED
  BY <1>1, <1>2, SpecsAssumption

LEMMA ResolvesTyped == ASSUME TypeOutside, TypeJob, Resolves PROVE TypeJob'
<1>1. spec.kind \in Kinds
  BY InHand DEF Resolves
<1>2. classes[spec.kind] \subseteq ClassSpecs /\ AtMostOne(classes[spec.kind])
  BY <1>1 DEF TypeOutside
<1>3. CASE Refusal(spec, classes[spec.kind]) # "none"
  <2>1. Refusal(spec, classes[spec.kind]) \in Reasons /\ Fails(Refusal(spec, classes[spec.kind]))
    BY <1>3, RefusalTyped DEF Resolves
  <2> QED
    BY <2>1, FailsTyped DEF Resolves
<1>4. CASE Refusal(spec, classes[spec.kind]) = "none"
  <2>1. pc' = "fetching" /\ job' = [job EXCEPT !.class = classes[spec.kind]]
    BY <1>4 DEF Resolves
  <2>2. job' \in JobStates /\ job'.copy = job.copy /\ job'.class = classes[spec.kind]
    BY <1>2, <2>1 DEF TypeJob, JobStates
  <2>3. classes[spec.kind] # {}
    BY <1>4 DEF Refusal
  <2> QED
    BY <1>2, <2>1, <2>2, <2>3 DEF TypeJob, Resolves
<1> QED
  BY <1>3, <1>4

LEMMA FetchesTyped == ASSUME TypeOutside, TypeJob, Fetches PROVE TypeJob'
<1> DEFINE data == View[spec.shape][store[Only(job.class).store]]
<1>1. data \in Data
  <2>1. Only(job.class) \in job.class /\ job.class \subseteq ClassSpecs
    BY OnlyIn DEF TypeJob, Fetches, JobStates
  <2>2. Only(job.class).store \in Stores
    BY <2>1, SpecsAssumption
  <2>3. spec.shape \in Shapes /\ store[Only(job.class).store] \in Docs
    BY <2>2, InHand DEF Fetches, TypeOutside
  <2> QED
    BY <2>3 DEF Data
<1>2. CASE data = {}
  BY <1>2, FailsTyped DEF Fetches, Reasons
<1>3. CASE data # {}
  <2>1. pc' = "comparing" /\ job' = [job EXCEPT !.data = data]
    BY <1>3 DEF Fetches
  <2>2. job' \in JobStates /\ job'.copy = job.copy /\ job'.class = job.class
    BY <1>1, <2>1 DEF TypeJob, JobStates
  <2> QED
    BY <2>1, <2>2 DEF TypeJob, Fetches
<1> QED
  BY <1>2, <1>3

LEMMA EndsTyped ==
  ASSUME TypeTrigger, NEW failed \in BOOLEAN, Ends(failed), news' \subseteq {"spec", "own"}
  PROVE  TypeTrigger' /\ TypeJob'
<1>1. failures' \in Nat
  BY BudgetAssumption DEF Ends, TypeTrigger
<1>2. TypeTrigger'
  BY <1>1 DEF Ends, TypeTrigger
<1>3. TypeJob'
  BY NoJobTyped DEF Ends, TypeJob
<1> QED
  BY <1>2, <1>3

(* What a status says is a status, of whatever Render it is written to.     *)
LEMMA WrittenTyped ==
  ASSUME TypeOutside, TypeTrigger, TypeJob, pc # "idle", Written
  PROVE  render' \subseteq RenderStates /\ AtMostOne(render') /\ news' \subseteq {"spec", "own"}
<1> DEFINE said == Says(Only(job.copy))
<1>1. said \in Statuses
  <2>1. Only(job.copy) \in RenderStates
    BY InHand
  <2>2. Only(job.copy).generation \in Nat /\ Only(job.copy).status.rendered \in BOOLEAN
    BY <2>1 DEF RenderStates, Statuses
  <2>3. job.error \in Reasons \cup {"none"}
    BY DEF TypeJob, JobStates
  <2>4. (job.error = "none" \/ Only(job.copy).status.rendered) \in BOOLEAN
    BY <2>2
  <2> QED
    BY <2>2, <2>3, <2>4 DEF Says, Statuses
<1>2. \A r \in render : [r EXCEPT !.status = said] \in RenderStates
  <2> TAKE r \in render
  <2>1. r \in [uid : Uids, generation : Nat, spec : Specs, status : Statuses]
    BY DEF TypeOutside, RenderStates
  <2> QED
    BY <1>1, <2>1 DEF RenderStates
<1>3. render' = {[r EXCEPT !.status = said] : r \in render}
  BY DEF Written
<1> QED
  BY <1>2, <1>3 DEF Written, TypeOutside, TypeTrigger, AtMostOne

LEMMA CallFailsTyped == ASSUME TypeOK, CallFails PROVE TypeOK'
<1>0. TypeOutside /\ TypeTrigger /\ TypeJob
  BY TypeParts
<1>1. TypeJob'
  BY <1>0, FailsTyped DEF CallFails, Reasons
<1>2. TypeTrigger'
  BY <1>0, TriggerKept DEF CallFails
<1>3. budget' \in Nat
  BY <1>0, SpendTyped DEF CallFails
<1>4. TypeOutside'
  BY <1>0, <1>3 DEF CallFails, TypeOutside
<1> QED
  BY <1>1, <1>2, <1>4 DEF TypeOK, TypeOutside, TypeTrigger, TypeJob

LEMMA AppliesTyped == ASSUME TypeOK, Applies PROVE TypeOK'
<1>0. TypeOutside /\ TypeTrigger /\ TypeJob
  BY TypeParts
<1>1. TypeTrigger'
  BY <1>0, TriggerKept DEF Applies
<1>2. DOMAIN target' = DOMAIN target
  BY DEF Applies
<1>3. budget' \in Nat
  BY <1>0, SpendTyped DEF Applies, TypeOutside
<1>4. TypeOutside'
  BY <1>0, <1>2, <1>3 DEF Applies, TypeOutside
<1>5. TypeJob'
  <2>1. CASE pc' = "reporting" /\ job' = [job EXCEPT !.changed = TRUE]
    <3>1. job' \in JobStates /\ job'.copy = job.copy /\ job'.class = job.class
      BY <1>0, <2>1 DEF TypeJob, JobStates
    <3> QED
      BY <1>0, <2>1, <3>1 DEF TypeJob, Applies
  <2>2. CASE Fails("RenderFailed")
    BY <1>0, <2>2, FailsTyped DEF Applies, Reasons
  <2> QED
    BY <2>1, <2>2 DEF Applies
<1> QED
  BY <1>1, <1>4, <1>5 DEF TypeOK, TypeOutside, TypeTrigger, TypeJob

LEMMA ReportTyped ==
  ASSUME TypeOK, ReportsNothing \/ Reports \/ ReportFails PROVE TypeOK'
<1>0. TypeOutside /\ TypeTrigger /\ TypeJob /\ pc # "idle"
  BY TypeParts DEF ReportsNothing, Reports, ReportFails
<1>1. render' \subseteq RenderStates /\ AtMostOne(render') /\ news' \subseteq {"spec", "own"}
  <2>1. CASE Reports
    BY <1>0, <2>1, WrittenTyped DEF Reports
  <2>2. CASE ReportsNothing \/ ReportFails
    BY <1>0, <2>2 DEF ReportsNothing, ReportFails, TypeOutside, TypeTrigger
  <2> QED
    BY <2>1, <2>2
<1>2. PICK failed \in BOOLEAN : Ends(failed)
  <2>1. (job.error # "none") \in BOOLEAN
    OBVIOUS
  <2> QED
    BY <2>1 DEF ReportsNothing, Reports, ReportFails
<1>3. TypeTrigger' /\ TypeJob'
  BY <1>0, <1>1, <1>2, EndsTyped
<1>4. budget' \in Nat
  BY <1>0, SpendTyped DEF ReportsNothing, Reports, ReportFails, TypeOutside
<1>5. TypeOutside'
  BY <1>0, <1>1, <1>2, <1>4 DEF Ends, TypeOutside
<1> QED
  BY <1>3, <1>5 DEF TypeOK, TypeOutside, TypeTrigger, TypeJob

LEMMA CrashTyped == ASSUME TypeOK, Crashes PROVE TypeOK'
<1>0. TypeOutside /\ TypeTrigger /\ TypeJob
  BY TypeParts
<1>1. budget' \in Nat
  BY <1>0, SpendTyped DEF Crashes
<1>2. TypeOutside'
  BY <1>0, <1>1 DEF Crashes, TypeOutside
<1>3. TypeTrigger'
  BY DEF Crashes, TypeTrigger, AtMostOne
<1>4. TypeJob'
  BY NoJobTyped DEF Crashes, TypeJob
<1> QED
  BY <1>2, <1>3, <1>4 DEF TypeOK, TypeOutside, TypeTrigger, TypeJob

LEMMA NextTyped == TypeOK /\ [Next]_vars => TypeOK'
<1> SUFFICES ASSUME TypeOK, [Next]_vars PROVE TypeOK'
  OBVIOUS
<1>0. TypeOutside /\ TypeTrigger /\ TypeJob
  BY TypeParts
<1>1. CASE Environment
  BY <1>1, EnvironmentTyped
<1>2. CASE Observes \/ (\E k \in Kinds : ClassHeard(k)) \/ TimerFires \/ Begins
  BY <1>2, TriggerTyped
<1>3. CASE Resolves \/ Fetches \/ Compares
  <2>1. TypeOutside' /\ TypeTrigger'
    BY <1>0, <1>3, OutsideKept, TriggerKept DEF Resolves, Fetches, Compares
  <2>2. TypeJob'
    BY <1>0, <1>3, ResolvesTyped, FetchesTyped DEF Compares, TypeJob
  <2> QED
    BY <2>1, <2>2 DEF TypeOK, TypeOutside, TypeTrigger, TypeJob
<1>4. CASE CallFails
  BY <1>4, CallFailsTyped
<1>5. CASE Applies
  BY <1>5, AppliesTyped
<1>6. CASE ReportsNothing \/ Reports \/ ReportFails
  BY <1>6, ReportTyped
<1>7. CASE Crashes
  BY <1>7, CrashTyped
<1>8. CASE UNCHANGED vars
  <2>1. TypeOutside' /\ TypeTrigger'
    BY <1>0, <1>8, OutsideKept, TriggerKept DEF vars, outside, trigger
  <2>2. TypeJob'
    BY <1>0, <1>8 DEF vars, TypeJob
  <2> QED
    BY <2>1, <2>2 DEF TypeOK, TypeOutside, TypeTrigger, TypeJob
<1> QED
  BY <1>1, <1>2, <1>3, <1>4, <1>5, <1>6, <1>7, <1>8 DEF Next, Environment, Attempt

(* Reconcile's variables have their types, and the controller is at an      *)
(* attempt exactly while it has a Render in hand.                           *)
THEOREM Typed == Spec => []TypeOK
<1>1. Init => TypeOK
  BY InitTyped
<1>2. TypeOK /\ [Next]_vars => TypeOK'
  BY NextTyped
<1> QED
  BY <1>1, <1>2, PTL DEF Spec

-----------------------------------------------------------------------------
(* What the queue knows, and what the last attempt was made with.           *)

(* Without news the copy is the Render; with an empty queue the attempt     *)
(* under way has the copy in hand.                                          *)
Caught ==
  /\ news = {} => copy = render
  /\ pc # "idle" /\ queue = {} => job.copy = copy

Current(r) == basis = {[spec |-> r.spec, class |-> classes[r.spec.kind]]}

(* The class could not be read: the attempt fails, or has failed and waits. *)
Unread ==
  /\ basis = {}
  /\ \/ pc = "reporting" /\ job.error # "none"
     \/ pc = "idle" /\ failures > 0 /\ timer

Reached ==
  queue = {} /\ news = {} =>
    \A r \in render :
      pc = "resolving" \/ r.spec.kind \in heard \/ Current(r) \/ Unread

Well(r) == r.status.rendered /\ r.status.error = "none"

Healthy ==
  queue = {} /\ news = {} /\ pc = "idle" /\ failures = 0 => \A r \in render : Well(r)

IInv == TypeOK /\ Caught /\ Reached /\ Healthy

LEMMA InitKnows == Init => Caught /\ Reached /\ Healthy
  BY DEF Init, Caught, Reached, Healthy

(* In the cluster only a Render's edit, its deletion and its making are     *)
(* news, and only a class's edit has to be heard of.                        *)
LEMMA EnvironmentChanges ==
  ASSUME Environment
  PROVE  /\ news' # {} \/ (render' = render /\ news' = news)
         /\ heard \subseteq heard'
         /\ \A k \in Kinds : k \in heard' \/ classes'[k] = classes[k]
<1>1. ASSUME NEW k \in Kinds, NEW class, ClassEdited(k, class)
      PROVE  /\ render' = render /\ news' = news /\ heard \subseteq heard'
             /\ \A other \in Kinds : other \in heard' \/ classes'[other] = classes[other]
  BY <1>1 DEF ClassEdited
<1>2. CASE \E k \in Kinds, class \in {{}} \cup {{c} : c \in ClassSpecs} : ClassEdited(k, class)
  BY <1>1, <1>2
<1>3. CASE \/ \E uid \in Uids, s \in Specs : RenderMade(uid, s)
           \/ \E s \in Specs : RenderEdited(s)
           \/ RenderDeleted
  BY <1>3 DEF RenderMade, RenderEdited, RenderDeleted
<1>4. CASE \/ \E s \in Stores, doc \in Docs : StorePut(s, doc)
           \/ \E t \in Targets : TargetTouched(t) \/ Collected(t)
  BY <1>4 DEF StorePut, TargetTouched, Collected
<1> QED
  BY <1>2, <1>3, <1>4 DEF Environment

LEMMA EnvironmentKnows ==
  ASSUME TypeOK, Caught, Reached, Healthy, Environment PROVE Caught' /\ Reached' /\ Healthy'
<1>1. /\ news' # {} \/ (render' = render /\ news' = news)
      /\ heard \subseteq heard'
      /\ \A k \in Kinds : k \in heard' \/ classes'[k] = classes[k]
  BY EnvironmentChanges
<1>2. UNCHANGED <<copy, queue, timer, failures, pc, job, basis>>
  BY EnvironmentKeeps DEF controller
<1>3. Caught'
  BY <1>1, <1>2 DEF Caught
<1>4. Healthy'
  BY <1>1, <1>2 DEF Healthy, Well
<1>5. Reached'
  <2> SUFFICES ASSUME queue' = {}, news' = {}, NEW r \in render',
                      pc' # "resolving", r.spec.kind \notin heard'
               PROVE  Current(r)' \/ Unread'
    BY DEF Reached
  <2>1. r \in render /\ news = {} /\ queue = {} /\ pc # "resolving"
    BY <1>1, <1>2
  <2>2. r.spec.kind \in Kinds
    BY <2>1, SpecsAssumption DEF TypeOK, RenderStates
  <2>3. classes'[r.spec.kind] = classes[r.spec.kind] /\ r.spec.kind \notin heard
    BY <1>1, <2>2
  <2>4. CASE Unread
    BY <1>2, <2>4 DEF Unread
  <2>5. CASE Current(r)
    BY <1>2, <2>3, <2>5 DEF Current
  <2> QED
    BY <2>1, <2>3, <2>4, <2>5 DEF Reached
<1> QED
  BY <1>3, <1>4, <1>5

LEMMA TriggerKnows ==
  ASSUME TypeOK, Caught, Reached, Healthy,
         Observes \/ (\E k \in Kinds : ClassHeard(k)) \/ TimerFires \/ Begins
  PROVE  Caught' /\ Reached' /\ Healthy'
<1>1. CASE Observes
  <2>1. queue' # {} /\ copy' = render' /\ pc' = pc
    BY <1>1 DEF Observes, outside
  <2> QED
    BY <2>1 DEF Caught, Reached, Healthy
<1>2. CASE TimerFires
  <2>1. queue' # {} /\ copy' = copy /\ news' = news /\ render' = render
    BY <1>2 DEF TimerFires, outside
  <2> QED
    BY <2>1 DEF Caught, Reached, Healthy
<1>3. ASSUME NEW k \in Kinds, ClassHeard(k) PROVE Caught' /\ Reached' /\ Healthy'
  <2>1. UNCHANGED <<copy, news, timer, failures, pc, job, basis, render, classes>>
    BY <1>3 DEF ClassHeard, outside
  <2>2. queue \subseteq queue' /\ heard' = heard \ {k} /\ (Concerns(k) => queue' # {})
    BY <1>3 DEF ClassHeard
  <2>3. Caught'
    BY <2>1, <2>2 DEF Caught
  <2>4. Healthy'
    BY <2>1, <2>2 DEF Healthy, Well
  <2>5. Reached'
    <3> SUFFICES ASSUME queue' = {}, news' = {}, NEW r \in render',
                        pc' # "resolving", r.spec.kind \notin heard'
                 PROVE  Current(r)' \/ Unread'
      BY DEF Reached
    <3>1. r \in render /\ r \in copy /\ news = {} /\ queue = {} /\ pc # "resolving"
      BY <2>1, <2>2 DEF Caught
    <3>2. r.spec.kind # k
      BY <2>2, <3>1 DEF Concerns, Kinds
    <3>3. r.spec.kind \notin heard
      BY <2>2, <3>2
    <3>4. Current(r) \/ Unread
      BY <3>1, <3>3 DEF Reached
    <3> QED
      BY <2>1, <3>4 DEF Current, Unread
  <2> QED
    BY <2>3, <2>4, <2>5
<1>4. CASE Begins
  <2>1. UNCHANGED <<copy, news, render>> /\ queue' = {}
    BY <1>4 DEF Begins, outside
  <2>2. CASE copy = {}
    <3>1. pc' = "idle"
      BY <1>4, <2>2 DEF Begins
    <3> QED
      BY <2>1, <2>2, <3>1 DEF Caught, Reached, Healthy
  <2>3. CASE copy # {}
    <3>1. pc' = "resolving" /\ job' = [NoJob EXCEPT !.copy = copy]
      BY <1>4, <2>3 DEF Begins
    <3>2. job'.copy = copy
      BY <3>1 DEF NoJob
    <3> QED
      BY <2>1, <3>1, <3>2 DEF Caught, Reached, Healthy
  <2> QED
    BY <2>2, <2>3
<1> QED
  BY <1>1, <1>2, <1>3, <1>4

(* With nothing queued and no news the attempt has the Render in hand.      *)
LEMMA InHandIsNow ==
  ASSUME TypeOK, Caught, pc # "idle", queue = {}, news = {}, NEW r \in render
  PROVE  Only(job.copy) = r /\ spec = r.spec
<1>1. job.copy = render
  BY DEF Caught
<1>2. Only(render) \in render
  BY OnlyIn
<1>3. Only(render) = r
  BY <1>2 DEF TypeOK, AtMostOne
<1> QED
  BY <1>1, <1>3 DEF spec

LEMMA ResolvesKnows ==
  ASSUME TypeOK, Caught, Reached, Healthy, Resolves PROVE Caught' /\ Reached' /\ Healthy'
<1>1. UNCHANGED <<copy, news, heard, queue, timer, failures, render, classes>>
  BY DEF Resolves, trigger, outside
<1>2. job'.copy = job.copy /\ pc' # "idle" /\ pc = "resolving"
  BY DEF Resolves, Fails, TypeOK, JobStates
<1>3. Caught' /\ Healthy'
  BY <1>1, <1>2 DEF Caught, Healthy
<1>4. Reached'
  <2> SUFFICES ASSUME queue' = {}, news' = {}, NEW r \in render' PROVE Current(r)'
    BY DEF Reached
  <2>1. spec = r.spec
    BY <1>1, <1>2, InHandIsNow
  <2>2. basis' = {[spec |-> spec, class |-> classes[spec.kind]]}
    BY DEF Resolves
  <2> QED
    BY <1>1, <2>1, <2>2 DEF Current
<1> QED
  BY <1>3, <1>4

(* The other steps of an attempt keep the Render in hand and, unless the    *)
(* class could not be read, what it was resolved with.                      *)
LEMMA AttemptKnows ==
  ASSUME TypeOK, Caught, Reached, Healthy, Fetches \/ Compares \/ CallFails \/ Applies
  PROVE  Caught' /\ Reached' /\ Healthy'
<1>1. UNCHANGED <<copy, news, heard, queue, timer, failures, render, classes>>
  BY DEF Fetches, Compares, CallFails, Applies, trigger, outside
<1>2. job'.copy = job.copy /\ pc' # "idle" /\ pc # "idle" /\ pc # "reporting"
  BY DEF Fetches, Compares, CallFails, Applies, Fails, TypeOK, JobStates
<1>3. Caught' /\ Healthy'
  BY <1>1, <1>2 DEF Caught, Healthy
<1>4. Reached'
  <2> SUFFICES ASSUME queue' = {}, news' = {}, NEW r \in render',
                      r.spec.kind \notin heard'
               PROVE  Current(r)' \/ Unread'
    BY DEF Reached
  <2>1. pc = "resolving" \/ Current(r)
    BY <1>1, <1>2 DEF Reached, Unread
  <2>2. CASE CallFails /\ pc = "resolving"
    <3>1. basis' = {} /\ pc' = "reporting" /\ job'.error = "RenderFailed"
      BY <2>2 DEF CallFails, Fails, TypeOK, JobStates
    <3> QED
      BY <3>1 DEF Unread
  <2>3. CASE ~(CallFails /\ pc = "resolving")
    <3>1. basis' = basis /\ pc # "resolving"
      BY <2>3 DEF Fetches, Compares, CallFails, Applies
    <3> QED
      BY <1>1, <2>1, <3>1 DEF Current
  <2> QED
    BY <2>2, <2>3
<1> QED
  BY <1>3, <1>4

LEMMA CountedFailed == ASSUME TypeOK, Ends(TRUE) PROVE failures' > 0 /\ failures' \in Nat
  BY BudgetAssumption DEF Ends, TypeOK

LEMMA ReportKnows ==
  ASSUME TypeOK, Caught, Reached, Healthy, ReportsNothing \/ Reports \/ ReportFails
  PROVE  Caught' /\ Reached' /\ Healthy'
<1>1. CASE Reports
  <2>1. news' # {} /\ pc' = "idle"
    BY <1>1 DEF Reports, Written, Ends
  <2> QED
    BY <2>1 DEF Caught, Reached, Healthy
<1>2. CASE ReportsNothing \/ ReportFails
  <2>1. UNCHANGED <<copy, news, heard, queue, render, classes, basis>> /\ pc' = "idle" /\ timer'
    BY <1>2 DEF ReportsNothing, ReportFails, Ends
  <2>2. Caught'
    BY <2>1 DEF Caught
  <2>3. Healthy'
    <3> SUFFICES ASSUME queue' = {}, news' = {}, failures' = 0, NEW r \in render' PROVE Well(r)'
      BY DEF Healthy
    <3>1. ReportsNothing
      <4> SUFFICES ASSUME ReportFails PROVE FALSE
        BY <1>2
      <4>1. Ends(TRUE)
        BY DEF ReportFails
      <4>2. failures' > 0
        BY <4>1, CountedFailed
      <4> QED
        BY <4>2
    <3>2. Only(job.copy) = r
      BY <2>1, <3>1, InHandIsNow DEF ReportsNothing
    <3>3. ~NeedsStatus
      BY <3>1 DEF ReportsNothing
    <3> QED
      BY <3>2, <3>3 DEF NeedsStatus, Due, Well
  <2>4. Reached'
    <3> SUFFICES ASSUME queue' = {}, news' = {}, NEW r \in render', r.spec.kind \notin heard'
                 PROVE  Current(r)' \/ Unread'
      BY DEF Reached
    <3>1. Current(r) \/ Unread
      BY <1>2, <2>1 DEF Reached, ReportsNothing, ReportFails
    <3>2. CASE Current(r)
      BY <2>1, <3>2 DEF Current
    <3>3. CASE Unread
      <4>1. job.error # "none" /\ basis = {}
        BY <1>2, <3>3 DEF Unread, ReportsNothing, ReportFails
      <4>2. Ends(TRUE)
        BY <1>2, <4>1 DEF ReportsNothing, ReportFails, NeedsStatus
      <4> QED
        BY <2>1, <4>1, <4>2, CountedFailed DEF Unread
    <3> QED
      BY <3>1, <3>2, <3>3
  <2> QED
    BY <2>2, <2>3, <2>4
<1> QED
  BY <1>1, <1>2

LEMMA NextKnows == IInv /\ [Next]_vars => IInv'
<1> SUFFICES ASSUME TypeOK, Caught, Reached, Healthy, [Next]_vars PROVE IInv'
  BY DEF IInv
<1>0. TypeOK'
  BY NextTyped
<1>1. CASE Environment
  BY <1>0, <1>1, EnvironmentKnows DEF IInv
<1>2. CASE Observes \/ (\E k \in Kinds : ClassHeard(k)) \/ TimerFires \/ Begins
  BY <1>0, <1>2, TriggerKnows DEF IInv
<1>3. CASE Resolves
  BY <1>0, <1>3, ResolvesKnows DEF IInv
<1>4. CASE Fetches \/ Compares \/ CallFails \/ Applies
  BY <1>0, <1>4, AttemptKnows DEF IInv
<1>5. CASE ReportsNothing \/ Reports \/ ReportFails
  BY <1>0, <1>5, ReportKnows DEF IInv
<1>6. CASE Crashes
  <2>1. news' # {} /\ pc' = "idle"
    BY <1>6 DEF Crashes
  <2> QED
    BY <1>0, <2>1 DEF Caught, Reached, Healthy, IInv
<1>7. CASE UNCHANGED vars
  <2>1. Caught' /\ Reached' /\ Healthy'
    BY <1>7 DEF vars, Caught, Reached, Healthy, Current, Unread, Well
  <2> QED
    BY <1>0, <2>1 DEF IInv
<1> QED
  BY <1>1, <1>2, <1>3, <1>4, <1>5, <1>6, <1>7 DEF Next, Environment, Attempt

LEMMA Invariant == Spec => []IInv
<1>1. Init => IInv
  BY InitTyped, InitKnows DEF IInv
<1>2. IInv /\ [Next]_vars => IInv'
  BY NextKnows
<1> QED
  BY <1>1, <1>2, PTL DEF Spec

(* No edit of a Render or of its class is lost between the watches, the     *)
(* copy, the queue and the attempt under way.                               *)
THEOREM EditsCaught == Spec => []NothingMissed
<1>1. IInv => NothingMissed
  BY DEF IInv, NothingMissed, AtRest, Reached, Current, Unread
<1> QED
  BY <1>1, Invariant, PTL

(* The status may be left unwritten, and is decided by an old copy; still a *)
(* Render that is not counted as failed reads Ready once all is quiet.      *)
THEOREM HealthyIsReady == Spec => []HealthyReadsReady
<1>1. IInv => HealthyReadsReady
  BY DEF IInv, HealthyReadsReady, AtRest, Healthy, Well
<1> QED
  BY <1>1, Invariant, PTL
=============================================================================
