----------------------------- MODULE Injection ------------------------------
(***************************************************************************)
(* What a pod asks for and what it gets: the checks of of_pod_with and      *)
(* extra_render, and the patch that patches_for makes of an accepted pod.   *)
(*                                                                         *)
(* A pod is a record of its namespace, its notes, the mark of an earlier    *)
(* injection, its containers and init containers, its volumes, the user it  *)
(* runs as and its grace period.  A container's name is a pair: of the      *)
(* application's <<"app", n>>, of the webhook's <<"agent", render>> and     *)
(* <<"init", render>>.                                                      *)
(***************************************************************************)
EXTENDS Contract, SequencesExt

Injected == "injected"

PodFields == {"ns", "notes", "mark", "containers", "inits", "volumes", "uid", "grace"}
ContainerFields == {"name", "command", "probe", "uid", "sees", "agent"}

App(name, command, probe, uid) ==
  [name |-> <<"app", name>>, command |-> command, probe |-> probe, uid |-> uid,
   sees |-> FALSE, agent |-> {}]

Containers(p) == ToSet(p.containers) \cup ToSet(p.inits)

(* What a manifest may hold.                                                *)
Formed(p) ==
  /\ DOMAIN p = PodFields /\ IsFiniteSet(DOMAIN p.notes) /\ Option(p.uid)
  /\ p.containers \in Seq(Containers(p)) /\ p.inits \in Seq(Containers(p))
  /\ \A c \in Containers(p) : DOMAIN c = ContainerFields /\ Option(c.uid)

(* The volume of the rendered files by its name, and by what it lies on.    *)
Rendered == <<"config", Main>>
Lies(medium) == <<"config", medium>>

(* And what an author writes in it: no agent, no command and no volume for  *)
(* rendered files of the webhook's.                                         *)
Authored(p) ==
  /\ Formed(p) /\ p.containers # <<>>
  /\ {Lies("memory"), Lies("disk")} \cap p.volumes = {}
  /\ \A c \in Containers(p) : c.agent = {} /\ c.command \in {"image", "own"}

(* Only the names of the default render's agent are looked for.             *)
AlreadyInjected(p) ==
  \E c \in Containers(p) : c.name \in {<<"agent", Main>>, <<"init", Main>>}

Application(p, name) == {c \in ToSet(p.containers) : c.name = <<"app", name>>}

-----------------------------------------------------------------------------
(* The checks that a render has to pass, the default one and each named.    *)

KnownKeys(p) ==
  \A k \in DOMAIN p.notes :
    k[2] \in PerRender \cup (IF k[1] = Main THEN PodWide ELSE Also)

(* A named render's timeout and tls-reload are known and never read.        *)
FormsKept(p) ==
  \A k \in DOMAIN p.notes :
    (k[1] = Main \/ k[2] \notin {"timeout", "tls-reload"})
      => WellFormed(k[2], p.notes[k])

(* Mutant of PinsKept: the halves of a pair each for itself.                *)
PinsKeptApart(p, i, r) ==
  \A key \in PerRender \cup PodWide :
    \A s \in Default(p, i, r, key) : s.pinned => Note(p, r, key) \subseteq {s.value}

PinsKept(p, i, r) ==
  /\ \A key \in PerRender \cup PodWide :
       \A s \in Default(p, i, r, key) : s.pinned => Note(p, r, key) \subseteq {s.value}
  /\ \A half \in Halves :
       (\E s \in Default(p, i, r, half[1]) : s.pinned) /\ Note(p, r, half[1]) = {}
         => Note(p, r, half[2]) = {}

SourceKept(p, i) ==
  \A s \in SuppliedSource(i) : s.pinned => Note(p, Main, "source") \subseteq {s.value}

Addressed(p, i, r) ==
  (Level(p, i, r, "endpoint") # {}) # (Level(p, i, r, "endpoint-secret") # {})

OneTemplate(p, i, r) ==
  {} \in {Level(p, i, r, "template"), Level(p, i, r, "template-configmap")}

SshIsTheAuth(p, i, r) ==
  Resolved(p, i, r, "ssh-secret") # {} => Resolved(p, i, r, "auth") \subseteq {"ssh-key"}

Verified(p, i, r) ==
  Note(p, r, "tls-skip-verify") = {"true"}
    => i.tlsSkip /\ Resolved(p, i, r, "ca-configmap") = {}

Complete(p, i, r) ==
  /\ Store(p, i, r) # {} /\ Store(p, i, r) \subseteq Sources
  /\ \A key \in {"key", "path"} : Resolved(p, i, r, key) # {}

Directory(p, i, r) == {Paths[file].dir : file \in Resolved(p, i, r, "path")}

RenderKept(p, i, r) ==
  /\ Complete(p, i, r) /\ PinsKept(p, i, r)
  /\ Addressed(p, i, r) /\ OneTemplate(p, i, r)
  /\ SshIsTheAuth(p, i, r) /\ Verified(p, i, r)
  /\ Directory(p, i, r) = Directory(p, i, Main)

(* Another rendering of the default document: a file beside it.             *)
RenderingsKept(p, i) ==
  \A r \in AlsoNamed(p) :
    /\ Note(p, r, "also") # {}
    /\ {Paths[file].dir : file \in Note(p, r, "also")} = Directory(p, i, Main)
    /\ Directory(p, i, Main) # {"relative"}

-----------------------------------------------------------------------------
(* The checks that the pod has to pass as a whole.                          *)

(* The application's own user: its first container's, then the pod's.       *)
InheritedUser(p) == Else(p.containers[1].uid, p.uid)

(* Mutant of IdentityKept: root's number is taken over too.                 *)
IdentityKeptByAnyone(p) ==
  On(p, "agent-run-as-same-user")
    => Note(p, Main, "agent-run-as-user") = {} /\ InheritedUser(p) # {}

IdentityKept(p) ==
  On(p, "agent-run-as-same-user")
    => /\ Note(p, Main, "agent-run-as-user") = {}
       /\ InheritedUser(p) # {} /\ InheritedUser(p) # {"0"}

EphemeralKept(p) ==
  \A request \in Note(p, Main, "agent-ephemeral-request"),
     limit \in Note(p, Main, "agent-ephemeral-limit") : Number[request] <= Number[limit]

EnvKept(p, i) ==
  /\ On(p, "env-restart") => Note(p, Main, "env-inject") # {} /\ Mode(p, i) = "both"
  /\ \A name \in Note(p, Main, "env-inject") :
       /\ Mode(p, i) # "sidecar"
       /\ Note(p, Main, "inject-containers") \subseteq {name}
       /\ \E c \in Application(p, name) :
            c.command # "image" /\ ~(On(p, "env-restart") /\ c.probe)

ContainersKept(p) ==
  \A name \in Note(p, Main, "inject-containers") : Application(p, name) # {}

LeaseKept(p) ==
  /\ Note(p, Main, "revoke-on-shutdown") = {"false"} => On(p, "dynamic")
  /\ \A grace \in Note(p, Main, "revoke-grace") :
       Number[grace] <= p.grace /\ On(p, "dynamic")

ModesKept(p, i) ==
  /\ On(p, "init-first") => Mode(p, i) # "sidecar"
  /\ Note(p, Main, "notify-http") # {} => Mode(p, i) # "init"
  /\ Note(p, Main, "canary-configmap") # {} => Mode(p, i) # "init"
  /\ Note(p, Main, "history") # {} => InMemory(p, i)

AckKept(p, i) ==
  On(p, "require-ack")
    => Note(p, Main, "readiness") # {"false"} /\ Mode(p, i) # "init"

(* What the installation has to offer before a pod may ask for it.          *)
OfferKept(p, i) ==
  /\ Note(p, Main, "agent-image") # {} => i.imageAllow
  /\ On(p, "events") => i.events

Aws == {"AWS_ACCESS_KEY_ID", "AWS_SECRET_ACCESS_KEY"}

AwsKept(p, i) ==
  Resolved(p, i, Main, "aws-secret") # {}
    => Store(p, i, Main) = {"s3"} /\ Note(p, Main, "agent-env") \cap Aws = {}

Accepted(p, i) ==
  /\ KnownKeys(p) /\ FormsKept(p) /\ SourceKept(p, i)
  /\ \A r \in Renders(p) : RenderKept(p, i, r)
  /\ RenderingsKept(p, i)
  /\ IdentityKept(p) /\ EphemeralKept(p) /\ EnvKept(p, i) /\ ContainersKept(p)
  /\ LeaseKept(p) /\ ModesKept(p, i) /\ AckKept(p, i) /\ OfferKept(p, i) /\ AwsKept(p, i)

-----------------------------------------------------------------------------
(* The names that an injection takes.  A named render is looked for by its  *)
(* place in the list, while its container carries the render's name.        *)

Kinds(p, i) ==
  (IF Mode(p, i) # "init" THEN {"agent"} ELSE {})
    \cup (IF Mode(p, i) # "sidecar" THEN {"init"} ELSE {})

Wanted(p, i) ==
  {<<kind, Main>> : kind \in Kinds(p, i)}
    \cup {<<kind, ToString(n)>> : kind \in Kinds(p, i), n \in 1..Cardinality(Named(p))}

Collides(p, i) == \E c \in Containers(p) : c.name \in Wanted(p, i)

-----------------------------------------------------------------------------
(* The agent's arguments: a function from the flag (named as its annotation *)
(* is) to its value.                                                        *)

PassedOn(r) ==
  {"section", "auth-mount", "auth-role", "auth-username",
   "auth-token-path", "namespace", "ref", "api-url", "tls-server-name",
   "tls-skip-verify", "file-mode", "key", "path"}
    \cup (IF r = Main
          THEN {"startup-policy", "on-delete", "max-document-bytes", "max-staleness"}
          ELSE {})

(* What only the agent that goes on watching is told.                       *)
WatchOnly ==
  {"meta", "notify-http", "on-drift", "tls-reload", "history", "require-ack",
   "events", "timeout", "canary-configmap", "revoke-on-shutdown", "revoke-grace"}

(* A switch that says what would be so anyway is no flag.                   *)
Usual == {<<"meta", "false">>, <<"require-ack", "false">>, <<"events", "false">>,
          <<"tls-reload", "true">>, <<"revoke-on-shutdown", "true">>,
          <<"tls-skip-verify", "false">>}

Unusual(flag, option) == {v \in option : <<flag, v>> \notin Usual}

(* What a flag is given, as an option: of the store's, ...                  *)
StoreArg(p, i, r, flag) ==
  CASE flag = "source" -> Store(p, i, r)
    [] flag = "endpoint" -> Level(p, i, r, "endpoint")
    [] flag = "template-inline" -> Level(p, i, r, "template")
    [] flag = "template" -> Level(p, i, r, "template-configmap")
    [] flag = "ca" -> Resolved(p, i, r, "ca-configmap")
    [] flag = "ssh-key" -> Resolved(p, i, r, "ssh-secret")
    [] flag = "auth" ->
         Else(Resolved(p, i, r, "auth"),
              IF Resolved(p, i, r, "ssh-secret") # {} THEN {"ssh-key"} ELSE {})
    [] flag \in {"tls-cert", "tls-key"} -> Resolved(p, i, r, "tls-secret")
    [] flag \in PassedOn(r) -> Unusual(flag, Resolved(p, i, r, flag))
    [] OTHER -> {}

(* An agent that does not revoke is not told for how long it may.           *)
Moot(p) == IF Note(p, Main, "revoke-on-shutdown") = {"false"} THEN {"revoke-grace"} ELSE {}

(* ... of those of an agent that goes on watching, ...                      *)
WatchArg(p, i, r, flag) ==
  CASE flag = "watch" -> {Watches(p, i, r)}
    [] flag = "metrics" -> Port(p, i, r)
    [] r = Main /\ flag \in WatchOnly \ Moot(p) -> Unusual(flag, Note(p, Main, flag))
    [] OTHER -> {}

(* ... and of the default render's own.                                     *)
MainArg(p, flag) ==
  CASE flag = "schema" -> Note(p, Main, "schema-configmap")
    [] flag = "dynamic" -> Note(p, Main, "dynamic") \cap {"true"}
    [] flag = "also" -> {n \in {{Only(Note(p, a, "also")) : a \in AlsoNamed(p)}} : n # {}}
    [] OTHER -> {}

Passed(p, i, r, watch, flag) ==
  StoreArg(p, i, r, flag)
    \cup (IF r = Main THEN MainArg(p, flag) ELSE {})
    \cup (IF watch THEN WatchArg(p, i, r, flag) ELSE {})

Flags ==
  PassedOn(Main) \cup WatchOnly
    \cup {"source", "endpoint", "template-inline", "template", "ca", "ssh-key", "auth", "tls-cert",
          "tls-key", "watch", "metrics", "schema", "dynamic", "also"}

Args(p, i, r, watch) ==
  [flag \in {f \in Flags : Passed(p, i, r, watch, f) # {}} |-> Only(Passed(p, i, r, watch, flag))]

(* Secrets reach the agent as environment: pairs of a variable and where    *)
(* its value comes from.                                                    *)
Aside(p, i) == IF Resolved(p, i, Main, "aws-secret") # {} THEN Aws ELSE {}

Env(p, i, r) ==
  {<<"token-secret", v>> : v \in Resolved(p, i, r, "token-secret")}
    \cup {<<"password-secret", v>> : v \in Resolved(p, i, r, "password-secret")}
    \cup {<<"endpoint-secret", v>> : v \in Level(p, i, r, "endpoint-secret")}
    \cup {<<name, v>> : name \in Aws, v \in Resolved(p, i, Main, "aws-secret")}
    \cup {<<name, "pod">> : name \in Note(p, Main, "agent-env")}
    \cup {<<name, "fleet">> : name \in i.agentEnv \ (Note(p, Main, "agent-env") \cup Aside(p, i))}

-----------------------------------------------------------------------------
(* Volumes and mounts: <<kind, render>>.                                    *)

RenderMaterial(p, i, r) ==
  {<<k[1], r>> : k \in {m \in {<<"ca", "ca-configmap">>, <<"ssh", "ssh-secret">>,
                               <<"client-tls", "tls-secret">>} :
                          Resolved(p, i, r, m[2]) # {}}}
    \cup {<<"template", r>> : t \in Level(p, i, r, "template-configmap")}

PodMaterial(p) ==
  {<<k[1], Main>> : k \in {m \in {<<"extra", "extra-secret">>, <<"schema", "schema-configmap">>,
                                  <<"canary", "canary-configmap">>} :
                             Note(p, Main, m[2]) # {}}}

Volumes(p, i) ==
  {Rendered, Lies(IF InMemory(p, i) THEN "memory" ELSE "disk")}
    \cup PodMaterial(p) \cup UNION {RenderMaterial(p, i, r) : r \in Renders(p)}

Mounts(p, i, r) ==
  {Rendered} \cup (IF r = Main THEN PodMaterial(p) ELSE {}) \cup RenderMaterial(p, i, r)

-----------------------------------------------------------------------------
(* The patch.                                                               *)

User(p, i) ==
  Only(Else(IF On(p, "agent-run-as-same-user") THEN InheritedUser(p) ELSE {},
            Else(Resolved(p, i, Main, "agent-run-as-user"), {"65532"})))

Group(p, i) == Only(Else(Resolved(p, i, Main, "agent-run-as-group"), {"65532"}))

Resources(p, i) ==
  [key \in {"agent-cpu-request", "agent-memory-request", "agent-cpu-limit",
            "agent-memory-limit"} |-> Resolved(p, i, Main, key)]

Probed(p, i, r, watch) ==
  watch /\ Port(p, i, r) # {} /\ Note(p, Main, "readiness") # {"false"}

Agent(p, i, r, watch) ==
  [name |-> <<IF watch THEN "agent" ELSE "init", r>>,
   command |-> "image", probe |-> Probed(p, i, r, watch), uid |-> {User(p, i)}, sees |-> TRUE,
   agent |-> {[render |-> r, watch |-> watch, args |-> Args(p, i, r, watch),
               env |-> Env(p, i, r), mounts |-> Mounts(p, i, r),
               group |-> Group(p, i), resources |-> Resources(p, i)]}]

Mounted(p, c) ==
  [c EXCEPT !.sees = @ \/ {<<"app", n>> : n \in Note(p, Main, "inject-containers")} \in {{}, {c.name}}]

(* The wrapped command sources the rendered file before it runs the one     *)
(* that the container had.                                                  *)
Wrapped(p, c) ==
  IF c.name \in {<<"app", n>> : n \in Note(p, Main, "env-inject")}
  THEN [c EXCEPT !.command = IF @ = "own" THEN "wrapped" ELSE "wrapped again",
                 !.probe = @ \/ On(p, "env-restart")]
  ELSE c

(* The default render first, then the named ones in their order.            *)
Agents(p, i, watch) ==
  [n \in 1..(1 + Cardinality(Named(p))) |->
     Agent(p, i, (<<Main>> \o SetToSeq(Named(p)))[n], watch)]

Inits(p, i) ==
  LET first == Agents(p, i, FALSE) IN
  IF Mode(p, i) = "sidecar" THEN p.inits
  ELSE IF On(p, "init-first") THEN <<Head(first)>> \o p.inits \o Tail(first)
  ELSE p.inits \o first

Watchers(p, i) == IF Mode(p, i) = "init" THEN <<>> ELSE Agents(p, i, TRUE)

Patched(p, i) ==
  [p EXCEPT
     !.mark = Injected,
     !.volumes = @ \cup Volumes(p, i),
     !.inits = Inits(p, i) \o (IF Native(p, i) THEN Watchers(p, i) ELSE <<>>),
     !.containers = [n \in DOMAIN @ |-> Wrapped(p, Mounted(p, @[n]))]
                      \o (IF Native(p, i) THEN <<>> ELSE Watchers(p, i))]
=============================================================================
