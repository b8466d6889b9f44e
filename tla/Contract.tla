------------------------------ MODULE Contract ------------------------------
(***************************************************************************)
(* What the webhook reads off a pod: the annotations under                  *)
(* `dynamic-config.rs/`, the installation's defaults and pins beneath them, *)
(* and the checks a pod that asks for injection must pass.                  *)
(*                                                                         *)
(* The notes of a pod are a function from <<render, key>> to a value, where *)
(* the render of a key without a suffix is Main.  A value that may be       *)
(* absent is a set of at most one element.                                  *)
(***************************************************************************)
EXTENDS Naturals, Sequences, FiniteSets, TLC

CONSTANTS
  Paths,     \* the files a pod may name: their directory and whether the agent knows the extension
  Number     \* the texts that are whole numbers, and which

(* Of the texts that the code itself has: zero, and how often it looks.     *)
ASSUME NumberAssumption ==
  /\ Number \in [DOMAIN Number -> Nat]
  /\ {"0", "15"} \subseteq DOMAIN Number /\ Number["0"] = 0

Main == "main"

Option(S) == \A u, v \in S : u = v
Only(option) == CHOOSE value \in option : TRUE
Else(option, other) == IF option # {} THEN option ELSE other

-----------------------------------------------------------------------------
(* The vocabulary.                                                          *)

Sources == {"consul", "vault", "config-server", "firestore", "git", "redis",
            "etcd", "nats", "s3"}

PerRender ==
  {"source", "endpoint", "endpoint-secret", "key", "path", "watch-seconds",
   "timeout", "section", "auth", "auth-mount", "auth-role", "auth-username",
   "auth-token-path", "namespace", "ref", "api-url", "token-secret",
   "password-secret", "ca-configmap", "tls-secret", "ssh-secret", "file-mode",
   "metrics-port", "tls-reload", "tls-server-name", "tls-skip-verify",
   "template", "template-configmap"}

PodWide ==
  {"inject", "mode", "agent-image", "volume-medium", "native-sidecar",
   "agent-cpu-request", "agent-memory-request", "agent-cpu-limit",
   "agent-memory-limit", "agent-run-as-user", "agent-run-as-group",
   "agent-ephemeral-request", "agent-ephemeral-limit", "env-inject",
   "env-restart", "readiness", "inject-containers", "revoke-grace",
   "init-first", "notify-http", "on-drift", "history", "require-ack",
   "events", "class", "canary-configmap", "agent-run-as-same-user",
   "extra-secret", "schema-configmap", "startup-policy", "on-delete",
   "max-document-bytes", "max-staleness", "meta", "dynamic",
   "revoke-on-shutdown", "aws-secret", "agent-env"}

Also == {"also", "also-section"}

(* The strings a tier of the installation may supply for a store.           *)
StoreStrings ==
  {"endpoint", "endpoint-secret", "key", "path", "token-secret",
   "password-secret", "ca-configmap", "tls-secret", "ssh-secret",
   "aws-secret", "section", "auth", "auth-mount", "auth-role",
   "auth-username", "auth-token-path", "namespace", "ref", "api-url",
   "template", "template-configmap"}

(* The knobs of the fleet, which a store's tier may hold as well.           *)
FleetKnobs ==
  {"agent-cpu-request", "agent-memory-request", "agent-cpu-limit",
   "agent-memory-limit", "file-mode", "watch-seconds", "mode",
   "volume-medium", "native-sidecar", "agent-run-as-user",
   "agent-run-as-group", "metrics-port", "path"}

Switches ==
  {"native-sidecar", "env-restart", "meta", "dynamic", "revoke-on-shutdown",
   "init-first", "tls-reload", "events", "readiness", "require-ack",
   "agent-run-as-same-user", "tls-skip-verify"}

Offered ==
  [key \in {"mode", "inject", "source", "volume-medium", "on-drift"} |->
     CASE key = "mode" -> {"init", "sidecar", "both"}
       [] key = "inject" -> {"true", "false"}
       [] key = "source" -> Sources
       [] key = "volume-medium" -> {"memory", "disk"}
       [] key = "on-drift" -> {"warn", "repair", "fail"}]

Numeric == {"watch-seconds", "metrics-port", "timeout", "history",
            "revoke-grace", "agent-run-as-user", "agent-run-as-group"}

(* An identity may not be root's, and zero is no timeout, no history and    *)
(* no grace.                                                                *)
NeverZero == Numeric \ {"watch-seconds", "metrics-port"}

(* Quantities, octal permissions and <secret>/<key>: "bad" stands for a     *)
(* text that is not of the shape.                                           *)
Shaped ==
  {"agent-cpu-request", "agent-memory-request", "agent-cpu-limit",
   "agent-memory-limit", "agent-ephemeral-request", "agent-ephemeral-limit",
   "file-mode", "token-secret", "password-secret", "endpoint-secret",
   "agent-env"}

MostHistory == 10

WellFormed(key, value) ==
  /\ key \in Switches => value \in {"true", "false"}
  /\ key \in DOMAIN Offered => value \in Offered[key]
  /\ key \in Numeric => value \in DOMAIN Number
  /\ key \in NeverZero => Number[value] > 0
  /\ key = "history" => Number[value] <= MostHistory
  /\ key \in Shaped => value # "bad"

-----------------------------------------------------------------------------
(* The installation: a tier for the fleet and one per store, each with its  *)
(* values, the marks its values carry and its own word on overriding.       *)

Tier(values, marks, overridable) ==
  [values |-> values, marks |-> marks, overridable |-> overridable]

NoTier == Tier(<<>>, <<>>, {})

(* The closest word wins: the value's mark, the tier's, the installation's. *)
Overridable(i, tier, key) ==
  IF key \in DOMAIN tier.marks THEN tier.marks[key]
  ELSE Only(Else(tier.overridable, {i.overridable}))

From(i, tier, key) ==
  IF key \in DOMAIN tier.values
  THEN {[value |-> tier.values[key], pinned |-> ~Overridable(i, tier, key)]}
  ELSE {}

(* What the installation supplies for a key of a render that reads `source` *)
(* (an option): the store's tier first, then the fleet's.                   *)
Supplied(i, source, key) ==
  Else(UNION {From(i, i.store[s], key) : s \in source \cap DOMAIN i.store},
       From(i, i.fleet, key))

SuppliedSource(i) ==
  {[value |-> s, pinned |-> ~Only(Else(i.sourceMark, {i.overridable}))] : s \in i.source}

(* The webhook starts only on an installation that has the form of the      *)
(* annotations it answers for.                                              *)
TierStarts(tier, keys) ==
  \A key \in DOMAIN tier.values :
    /\ key \in keys
    /\ WellFormed(key, tier.values[key])
    /\ key = "path" => Paths[tier.values[key]].dir # "relative"

Starts(i) ==
  /\ TierStarts(i.fleet, FleetKnobs)
  /\ \A s \in DOMAIN i.store :
       s \in Sources /\ TierStarts(i.store[s], FleetKnobs \cup StoreStrings)
  /\ i.source \subseteq Sources

(* The gates are sets of <<namespace or *, name>>.                          *)
Allows(scoped, namespace, name) == {<<"*", name>>, <<namespace, name>>} \cap scoped # {}

SourceDenied(i, namespace, source) == Allows(i.sourceDeny, namespace, source)
SourceAllowed(i, namespace, source) ==
  i.sourceAllow = {} \/ Allows(i.sourceAllow, namespace, source)

-----------------------------------------------------------------------------
(* Reading a render: a note, then what the installation supplies.           *)

Note(p, r, key) == IF <<r, key>> \in DOMAIN p.notes THEN {p.notes[<<r, key>>]} ELSE {}
On(p, key) == Note(p, Main, key) = {"true"}

Store(p, i, r) ==
  Else(Note(p, r, "source"), IF r = Main THEN i.source ELSE {})

(* A named render keeps its path and its port to itself.                    *)
Own(r) == IF r = Main THEN {} ELSE {"path", "metrics-port"}

Default(p, i, r, key) ==
  IF key \in Own(r) THEN {} ELSE Supplied(i, Store(p, i, r), key)

Resolved(p, i, r, key) ==
  Else(Note(p, r, key), {s.value : s \in Default(p, i, r, key)})

(* The two either-or pairs answer as one.                                   *)
Pairs == {<<"endpoint", "endpoint-secret">>, <<"template", "template-configmap">>}
Halves == Pairs \cup {<<pair[2], pair[1]>> : pair \in Pairs}
Other(key) == Only({half[2] : half \in {h \in Halves : h[1] = key}})

Level(p, i, r, key) ==
  IF Note(p, r, Other(key)) # {} THEN Note(p, r, key) ELSE Resolved(p, i, r, key)

Named(p) == {k[1] : k \in {n \in DOMAIN p.notes : n[1] # Main /\ n[2] \notin Also}}
AlsoNamed(p) == {k[1] : k \in {n \in DOMAIN p.notes : n[2] \in Also}}
Renders(p) == {Main} \cup Named(p)

Mode(p, i) == Only(Else(Resolved(p, i, Main, "mode"), {"sidecar"}))
InMemory(p, i) == Resolved(p, i, Main, "volume-medium") # {"disk"}
Native(p, i) == Resolved(p, i, Main, "native-sidecar") = {"true"}
Watches(p, i, r) == Only(Else(Resolved(p, i, r, "watch-seconds"), {"15"}))

(* "0" is a pod's way out of a default, not the installation's.             *)
Port(p, i, r) ==
  IF Note(p, r, "metrics-port") = {"0"} THEN {} ELSE Resolved(p, i, r, "metrics-port")
=============================================================================
