----------------------------- MODULE Admission ------------------------------
(***************************************************************************)
(* A pod on its way through the API server and the webhook's replicas.      *)
(*                                                                         *)
(* Each replica has the installation it was started with and its own copy   *)
(* of the classes, replaced by a poll of two lists.  The API server calls   *)
(* one of them, calls again when a later webhook changed the pod, and goes  *)
(* without them when none answers.  A pod that exists may be submitted      *)
(* again, or its manifest copied.                                           *)
(***************************************************************************)
EXTENDS AgentSpec

CONSTANTS
  Replicas,   \* of the webhook
  Namespaces,
  Asked,      \* the pods that are submitted
  Lively,     \* those of them that anything else happens to
  Installs,   \* what an installer may have written
  Rolled,     \* the installations that lively pods meet
  Classes,    \* what a class object may say
  Budget      \* how many edits, faults and resubmissions there are

ASSUME AskedAssumption == \A p \in Asked : Authored(p)
ASSUME InstallsAssumption == Rolled \subseteq Installs /\ \A i \in Installs : Option(i.source)
ASSUME BudgetAssumption == Budget \in Nat

VARIABLES
  objects,    \* the class of each namespace and of the cluster, as it is
  install,    \* the installation of each replica
  cache,      \* the classes each replica holds
  reading,    \* the first list of a poll under way
  held,       \* has the replica ever listed
  since,      \* what the objects have been since the last whole list began
  lately,     \* and since the poll under way began
  pod, stage,
  decided,    \* by which installation and of what pod the patch was made
  skipped,    \* a call that no replica answered
  budget

classVars == <<objects, cache, reading, held, since, lately>>
vars == <<objects, install, cache, reading, held, since, lately, pod, stage,
          decided, skipped, budget>>

Cluster == "cluster"
Scopes == Namespaces \cup {Cluster}
NoClasses == [s \in Scopes |-> {}]

(* Mutant of Read: a class of a namespace has a list of namespaces as well. *)
ReadAlike(scope, class) ==
  IF class.broken /\ scope = Cluster THEN {}
  ELSE {[source |-> class.source, endpoint |-> class.endpoint, token |-> class.token,
         admits |-> IF class.namespaces # {} THEN class.namespaces ELSE Namespaces,
         holds |-> IF scope = Cluster THEN class.holds ELSE {}]}

(* A cluster class without the whole of its credential's reference is no    *)
(* class; a namespaced one holds its credential beside itself.              *)
Read(scope, class) ==
  IF class.broken /\ scope = Cluster THEN {}
  ELSE {[source |-> class.source, endpoint |-> class.endpoint, token |-> class.token,
         admits |-> IF scope = Cluster /\ class.namespaces # {} THEN class.namespaces ELSE Namespaces,
         holds |-> IF scope = Cluster THEN class.holds ELSE {}]}

FromList(scope, listed) == UNION {Read(scope, class) : class \in listed[scope]}

Spend == budget > 0 /\ budget' = budget - 1

Init ==
  /\ objects \in [Scopes -> {{}} \cup {{c} : c \in Classes}]
  /\ pod \in Asked
  /\ \A s \in Scopes :
       s \in Namespaces \ {pod.ns} \/ <<Main, "class">> \notin DOMAIN pod.notes => objects[s] = {}
  /\ \E i \in IF pod \in Lively THEN Rolled ELSE Installs :
       Starts(i) /\ install = [r \in Replicas |-> i]
  /\ cache = [r \in Replicas |-> NoClasses]
  /\ reading = [r \in Replicas |-> {}]
  /\ held = [r \in Replicas |-> FALSE]
  /\ since = [r \in Replicas |-> {}] /\ lately = [r \in Replicas |-> {}]
  /\ stage = "asked" /\ decided = {} /\ skipped = FALSE
  /\ budget = IF pod \in Lively THEN Budget ELSE 0

-----------------------------------------------------------------------------
(* The classes.  Nobody reads the classes for a pod that names none, and    *)
(* those of a namespace it is not in come by edits.                         *)

NamesClass == <<Main, "class">> \in DOMAIN pod.notes

Edit(scope) ==
  /\ NamesClass /\ Spend
  /\ \E class \in {{}} \cup {{c} : c \in Classes} :
       class # objects[scope] /\ objects' = [objects EXCEPT ![scope] = class]
  /\ since' = [r \in Replicas |-> IF held[r] THEN since[r] \cup {objects'} ELSE {}]
  /\ lately' = [r \in Replicas |-> IF reading[r] # {} THEN lately[r] \cup {objects'} ELSE {}]
  /\ UNCHANGED <<install, cache, reading, held, pod, stage, decided, skipped>>

(* The cluster's classes are listed first.                                  *)
ListCluster(r) ==
  /\ NamesClass /\ reading[r] = {}
  /\ reading' = [reading EXCEPT ![r] = {FromList(Cluster, objects)}]
  /\ lately' = [lately EXCEPT ![r] = {objects}]
  /\ UNCHANGED <<objects, install, cache, held, since, pod, stage, decided, skipped, budget>>

(* Mutant of Replaced: what was listed is added to what was held.           *)
ReplacedByMore(old, listed) == [s \in Scopes |-> Else(listed[s], old[s])]

Replaced(old, listed) == listed

ListNamespaced(r) ==
  /\ reading[r] # {}
  /\ cache' = [cache EXCEPT ![r] = Replaced(@,
                 [s \in Scopes |-> IF s = Cluster THEN Only(reading[r]) ELSE FromList(s, objects)])]
  /\ reading' = [reading EXCEPT ![r] = {}]
  /\ held' = [held EXCEPT ![r] = TRUE]
  /\ since' = [since EXCEPT ![r] = lately[r]]
  /\ lately' = [lately EXCEPT ![r] = {}]
  /\ UNCHANGED <<objects, install, pod, stage, decided, skipped, budget>>

(* Mutant of Kept: a failed list leaves what it had read.                   *)
KeptHalf(r) ==
  [cache EXCEPT ![r] = [s \in Scopes |-> IF s = Cluster THEN Only(reading[r]) ELSE {}]]

(* A list that fails leaves the last set, and the next poll comes.          *)
Kept(r) == cache

ListFails(r) ==
  /\ reading[r] # {} /\ Spend
  /\ cache' = Kept(r)
  /\ reading' = [reading EXCEPT ![r] = {}]
  /\ lately' = [lately EXCEPT ![r] = {}]
  /\ UNCHANGED <<objects, install, held, since, pod, stage, decided, skipped>>

(* Its own namespace's class first, then the cluster's.                     *)
Resolve(r, name) == Else(cache[r][pod.ns], cache[r][Cluster])

-----------------------------------------------------------------------------
(* The call.                                                                *)

ClassOf(r) == IF pod.mark = Injected THEN {} ELSE
  UNION {Resolve(r, name) : name \in Note(pod, Main, "class")}

(* Mutant of ClassRefused: the class is looked up before the mark.          *)
ClassRefusedAnyway(r) ==
  /\ NamesClass
  /\ \A class \in UNION {Resolve(r, name) : name \in Note(pod, Main, "class")} :
       pod.ns \notin class.admits \/ ~(class.holds \subseteq {pod.ns})

ClassRefused(r) ==
  /\ pod.mark # Injected /\ NamesClass
  /\ \A class \in ClassOf(r) : pod.ns \notin class.admits \/ ~(class.holds \subseteq {pod.ns})

(* The class's values, in the annotations that the pod did not set.         *)
ClassNote(class, key) ==
  CASE key = "source" -> {class.source} [] key = "endpoint" -> {class.endpoint}
    [] key = "token-secret" -> class.token

FilledNotes(notes, class) ==
  LET filled == {key \in {"source", "endpoint", "token-secret"} : ClassNote(class, key) # {}}
  IN [k \in DOMAIN notes \cup {<<Main, key>> : key \in filled} |->
        IF k \in DOMAIN notes THEN notes[k] ELSE Only(ClassNote(class, k[2]))]

Filled(r) ==
  [pod EXCEPT !.notes = IF ClassOf(r) = {} THEN @ ELSE FilledNotes(@, Only(ClassOf(r)))]

(* Mutant of LetThrough: the mark is believed.                              *)
LetThroughByMark(p) ==
  IF p.mark = "" THEN Note(p, Main, "inject") \subseteq {"false"} ELSE p.mark = Injected

(* A pod that was patched before, or did not ask, is let through as it is.  *)
LetThrough(p) ==
  IF p.mark = "" THEN Note(p, Main, "inject") \subseteq {"false"}
  ELSE p.mark = Injected /\ AlreadyInjected(p)

(* Mutant of GatesKept: only the default render is looked at.               *)
GatesKeptForMain(p, i) ==
  \A source \in Store(p, i, Main) :
    ~SourceDenied(i, p.ns, source) /\ SourceAllowed(i, p.ns, source)

GatesKept(p, i) ==
  /\ \A r \in Renders(p) : \A source \in Store(p, i, r) :
       ~SourceDenied(i, p.ns, source) /\ SourceAllowed(i, p.ns, source)
  /\ \A name \in Note(p, Main, "agent-env") : Allows(i.envAllow, p.ns, name)

Patchable(p, i) == p.mark = "" /\ Accepted(p, i) /\ GatesKept(p, i) /\ ~Collides(p, i)

Allow(r) ==
  /\ stage = "asked" /\ ~ClassRefused(r) /\ LetThrough(Filled(r))
  /\ stage' = "mutated"
  /\ UNCHANGED <<pod, decided, skipped, budget, install>> /\ UNCHANGED classVars

Patch(r) ==
  /\ stage = "asked" /\ ~ClassRefused(r) /\ ~LetThrough(Filled(r))
  /\ Patchable(Filled(r), install[r])
  /\ pod' = [Patched(Filled(r), install[r]) EXCEPT !.notes = pod.notes]
  /\ stage' = "mutated"
  /\ decided' = {[pod |-> Filled(r), install |-> install[r], class |-> ClassOf(r)]}
  /\ UNCHANGED <<skipped, budget, install>> /\ UNCHANGED classVars

Refuse(r) ==
  /\ stage = "asked"
  /\ \/ ClassRefused(r)
     \/ ~LetThrough(Filled(r)) /\ ~Patchable(Filled(r), install[r])
  /\ stage' = "refused"
  /\ UNCHANGED <<pod, decided, skipped, budget, install>> /\ UNCHANGED classVars

-----------------------------------------------------------------------------
(* Everything else that happens to a pod.                                   *)

(* No replica answered, and failurePolicy is Ignore.                        *)
Skip ==
  /\ stage = "asked" /\ Spend
  /\ stage' = "mutated" /\ skipped' = TRUE
  /\ UNCHANGED <<pod, decided, install>> /\ UNCHANGED classVars

(* A later webhook adds a container, or takes out what it does not know;    *)
(* the first is called again.                                               *)
Mesh == App("mesh", "own", FALSE, {})
Others(s) ==
  LET others == {n \in DOMAIN s : s[n].agent = {}}
      place(n) == Cardinality({m \in others : m <= n})
  IN [k \in 1..Cardinality(others) |-> s[CHOOSE n \in others : place(n) = k]]

Stripped(p) == [p EXCEPT !.containers = Others(@), !.inits = Others(@)]

LaterWebhook ==
  /\ stage = "mutated" /\ Spend
  /\ pod' \in {[pod EXCEPT !.containers = Append(@, Mesh)], Stripped(pod)} \ {pod}
  /\ stage' = "asked"
  /\ UNCHANGED <<decided, skipped, install>> /\ UNCHANGED classVars

(* The API server's own word: a name is used once.                          *)
Names(p) == [n \in 1..(Len(p.containers) + Len(p.inits)) |-> (p.containers \o p.inits)[n].name]
Distinct(p) == IsInjective(Names(p))

Persist ==
  /\ stage = "mutated"
  /\ stage' = IF Distinct(pod) THEN "stored" ELSE "rejected"
  /\ UNCHANGED <<pod, decided, skipped, budget, install>> /\ UNCHANGED classVars

(* The stored object is submitted again, whole or without what the webhook  *)
(* added but with the annotations it had, here or in another namespace.     *)
Resubmit ==
  /\ stage = "stored" /\ Spend
  /\ \E ns \in Namespaces : pod' \in {[pod EXCEPT !.ns = ns], [Stripped(pod) EXCEPT !.ns = ns]}
  /\ stage' = "asked" /\ skipped' = FALSE
  /\ UNCHANGED <<decided, install>> /\ UNCHANGED classVars

(* A replica is replaced by one with another installation; it has not       *)
(* listed a class yet.                                                      *)
Rollout(r) ==
  /\ Spend /\ stage \in {"asked", "mutated"}
  /\ \E i \in Rolled : Starts(i) /\ install' = [install EXCEPT ![r] = i]
  /\ cache' = [cache EXCEPT ![r] = NoClasses]
  /\ reading' = [reading EXCEPT ![r] = {}]
  /\ held' = [held EXCEPT ![r] = FALSE]
  /\ since' = [since EXCEPT ![r] = {}] /\ lately' = [lately EXCEPT ![r] = {}]
  /\ UNCHANGED <<objects, pod, stage, decided, skipped>>

Next ==
  \/ \E s \in Scopes : Edit(s)
  \/ \E r \in Replicas : ListCluster(r) \/ ListNamespaced(r) \/ ListFails(r)
                         \/ Allow(r) \/ Patch(r) \/ Refuse(r) \/ Rollout(r)
  \/ Skip \/ LaterWebhook \/ Persist \/ Resubmit

Spec == Init /\ [][Next]_vars

(* Every replica polls, and a poll that began ends.                         *)
FairSpec ==
  /\ Spec
  /\ \A r \in Replicas : WF_vars(ListCluster(r)) /\ WF_vars(ListNamespaced(r))

-----------------------------------------------------------------------------
(* Properties.                                                              *)

(* Every variable has its type, no command is wrapped twice, and a class    *)
(* that a replica holds for a namespace is for all who can name it there.   *)
TypeOK ==
  /\ \A s \in Scopes : objects[s] \subseteq Classes /\ Cardinality(objects[s]) <= 1
  /\ \A r \in Replicas :
       /\ install[r] \in Installs /\ Starts(install[r])
       /\ \A s \in Scopes :
            /\ Cardinality(cache[r][s]) <= 1
            /\ s # Cluster => \A class \in cache[r][s] : class.admits = Namespaces
       /\ Cardinality(reading[r]) <= 1 /\ held[r] \in BOOLEAN
       /\ (reading[r] = {} <=> lately[r] = {}) /\ (held[r] <=> since[r] # {})
  /\ stage \in {"asked", "mutated", "refused", "stored", "rejected"}
  /\ Distinct(pod) => \A c \in Containers(pod) : c.command \in {"image", "own", "wrapped"}
  /\ skipped \in BOOLEAN /\ budget \in 0..Budget

Added == UNION {c.agent : c \in Containers(pod)}

(* What its agents make of a pod's mode.                                    *)
ModeOf(ways) == CASE ways = {TRUE} -> "sidecar" [] ways = {FALSE} -> "init" [] OTHER -> "both"

(* What an agent runs with for a key that an installation may pin.          *)
RunsWith(c, a, key) ==
  CASE key \in DOMAIN a.resources -> a.resources[key]
    [] key = "mode" -> {ModeOf({b.watch : b \in Added})}
    [] key = "native-sidecar" -> {IF c \in ToSet(pod.inits) THEN "true" ELSE "false"}
    [] key = "volume-medium" -> {m \in {"memory", "disk"} : Lies(m) \in pod.volumes}
    [] key = "agent-run-as-user" -> c.uid
    [] key = "agent-run-as-group" -> {a.group}
    [] key = "watch-seconds" -> Given(a.args, "watch")
    [] key = "metrics-port" -> Else(Given(a.args, "metrics"), {"0"})
    [] key \in {"token-secret", "password-secret", "endpoint-secret"} -> Variable(a.env, key)
    [] key = "aws-secret" -> UNION {Variable(a.env, name) : name \in Aws}
    [] key = "template" -> Given(a.args, "template-inline")
    [] key = "template-configmap" -> Given(a.args, "template")
    [] key = "ca-configmap" -> Given(a.args, "ca")
    [] key = "tls-secret" -> Given(a.args, "tls-cert")
    [] key = "ssh-secret" -> Given(a.args, "ssh-key")
    [] OTHER -> Given(a.args, key)

(* Of the whole pod: its default render's store answers for them, a named   *)
(* render's does not.  The credential of AWS is one of them: a render of s3 *)
(* beside a main source that is another store gets none.                    *)
PodsOwn == (FleetKnobs \ {"file-mode", "watch-seconds", "path"}) \cup {"aws-secret"}

(* What the installation of a decision supplies an agent with.              *)
Supplies(d, a, key) ==
  IF key = "source" THEN SuppliedSource(d.install)
  ELSE Supplied(d.install, Store(d.pod, d.install, IF key \in PodsOwn THEN Main ELSE a.render), key)

(* Which of them are the agent's: a named render names its store itself,    *)
(* and has its own path and no other port; an init container neither        *)
(* watches nor serves, and is none of the sidecars; a pod that takes its    *)
(* application's user takes it over a pin; and an installation that lets a  *)
(* pod set a secret's variable, or sets it for the fleet, has given it      *)
(* away.  No port is what "0" asks for.                                     *)
Held(a) ==
  ({"source"} \cup FleetKnobs \cup StoreStrings)
    \ ((IF a.render = Main THEN {} ELSE {"source"} \cup Own(a.render))
         \cup (IF a.watch THEN {} ELSE {"watch-seconds", "metrics-port", "native-sidecar"})
         \cup {e[1] : e \in {x \in a.env : x[2] \in {"pod", "fleet"}}}
         \cup (IF On(pod, "agent-run-as-same-user") THEN {"agent-run-as-user"} ELSE {}))

(* A value that the installation pinned is the value that every agent runs  *)
(* with: a pod cannot get round it by a differing annotation, by the other  *)
(* half of a pair, by a named render, by its class, or by naming another    *)
(* store than the installation's and so leaving that store's tier.          *)
PinsHold ==
  \A d \in decided : \A c \in Containers(pod) : \A a \in c.agent : \A key \in Held(a) :
    \A s \in Supplies(d, a, key) : s.pinned => RunsWith(c, a, key) = {s.value}

(* No agent of a patched pod reads a store that its namespace was denied or *)
(* not given, whichever render it belongs to.                               *)
GatesHold ==
  \A d \in decided : \A a \in Added :
    LET i == d.install  source == a.args["source"] IN
    /\ {<<"*", source>>, <<d.pod.ns, source>>} \cap i.sourceDeny = {}
    /\ i.sourceAllow # {} => {<<"*", source>>, <<d.pod.ns, source>>} \cap i.sourceAllow # {}

(* What an injected agent needs mounted for its arguments.                  *)
Files == {<<"ca", "ca">>, <<"ssh-key", "ssh">>, <<"tls-cert", "client-tls">>,
          <<"template", "template">>, <<"schema", "schema">>,
          <<"canary-configmap", "canary">>}

(* An agent of a stored pod starts: its mounts are volumes of the pod, its  *)
(* file arguments are mounted, it is not root, and of its arguments it      *)
(* complains at most of what the webhook leaves to it.                      *)
AgentStarts ==
  stage = "stored" =>
    \A c \in Containers(pod) : \A a \in c.agent :
      /\ a.mounts \subseteq pod.volumes
      /\ \A f \in Files : f[1] \in DOMAIN a.args => <<f[2], a.render>> \in a.mounts
      /\ c.uid # {"0"}
      /\ Complaints(a.args, a.env) \subseteq LeftToTheAgent

(* A pod that asks for its configuration, or says that it has it, does not  *)
(* come to exist without an agent, but for a call that nobody answered.     *)
NeverSilentlyWithout ==
  stage = "stored" /\ ~skipped /\ (On(pod, "inject") \/ pod.mark # "") => AlreadyInjected(pod)

(* What a replica holds of a class was true of it at some moment since its  *)
(* last whole list began: a failed list changes nothing and a deleted class *)
(* goes.                                                                    *)
CacheWasTrue ==
  \A r \in Replicas : \A s \in Scopes :
    held[r] => \E o \in since[r] : cache[r][s] = FromList(s, o)

(* A pod that carries the mark and the agent is let through as it is, by    *)
(* whichever replica, whatever has become of its class or its installation  *)
(* since.                                                                   *)
OnceOnly ==
  [][stage = "asked" /\ pod.mark = Injected /\ AlreadyInjected(pod) /\ stage' # stage
       => stage' = "mutated" /\ pod' = pod]_vars

(* After the last edit every replica comes to hold what the classes say.    *)
EditsReach ==
  NamesClass ~> [](\A r \in Replicas : cache[r] = [s \in Scopes |-> FromList(s, objects)])

=============================================================================
