---------------------------- MODULE MCAdmission -----------------------------
(***************************************************************************)
(* Pods of a few shapes with up to two of their annotations changed, under  *)
(* installations that supply, pin, deny and offer.                          *)
(***************************************************************************)
EXTENDS Admission

File(dir, known) == [dir |-> dir, known |-> known]

MCPaths == "/c/app.toml" :> File("/c", TRUE) @@ "/c/db.env" :> File("/c", TRUE)
             @@ "/c/app.xyz" :> File("/c", FALSE) @@ "/d/app.toml" :> File("/d", TRUE)
             @@ "app.toml" :> File("relative", TRUE)

MCNumber == "0" :> 0 @@ "1" :> 1 @@ "15" :> 15 @@ "60" :> 60 @@ "1000" :> 1000

M(key, value) == <<Main, key>> :> value

Plain == M("inject", "true") @@ M("source", "vault") @@ M("endpoint", "e1") @@ M("key", "app")
           @@ M("path", "/c/app.toml") @@ M("token-secret", "s/t")

(* The renders that the shapes below have beside the default one.           *)
WithDb == Plain @@ (<<"db", "source">> :> "git") @@ (<<"db", "endpoint">> :> "e2")
            @@ (<<"db", "key">> :> "app") @@ (<<"db", "path">> :> "/c/db.env")
Wrapping == Plain @@ M("mode", "both") @@ M("env-inject", "web") @@ M("dynamic", "true")
Bare == M("inject", "true") @@ M("key", "app")
OfClass == Bare @@ M("class", "pg") @@ M("path", "/c/app.toml")

Pod(notes) ==
  [ns |-> "a", notes |-> notes, mark |-> "",
   containers |-> <<App("web", "own", FALSE, {"1000"}), App("proxy", "image", FALSE, {})>>,
   inits |-> <<>>, volumes |-> {}, uid |-> {}, grace |-> 30]

Absent == "absent"

(* What an author may change: a note set, or taken away.                    *)
Changes ==
  {<<k[1], k[2]>> : k \in
    {<<"inject", "false">>, <<"inject", "yes">>, <<"source", "s3">>, <<"source", "git">>,
     <<"source", "ftp">>, <<"source", Absent>>, <<"endpoint", Absent>>, <<"endpoint", "e2">>,
     <<"endpoint-secret", "s/e">>, <<"endpoint-secret", "bad">>, <<"key", Absent>>,
     <<"path", "/d/app.toml">>, <<"path", "/c/app.xyz">>, <<"path", Absent>>,
     <<"mode", "init">>, <<"mode", "both">>, <<"mode", "sidecar">>, <<"watch-seconds", "60">>,
     <<"timeout", "0">>, <<"auth", "kubernetes">>, <<"auth-role", "r">>, <<"token-secret", Absent>>,
     <<"ca-configmap", "ca">>, <<"tls-secret", "t">>, <<"ssh-secret", "k">>,
     <<"tls-skip-verify", "true">>, <<"template", "x">>, <<"template-configmap", "t">>,
     <<"file-mode", "0600">>, <<"file-mode", "bad">>, <<"metrics-port", "0">>,
     <<"metrics-port", "60">>, <<"agent-run-as-user", "0">>, <<"agent-run-as-user", "60">>,
     <<"agent-run-as-same-user", "true">>, <<"agent-cpu-limit", "60">>, <<"env-inject", "web">>,
     <<"env-inject", "proxy">>, <<"env-restart", "true">>, <<"inject-containers", "proxy">>,
     <<"inject-containers", "none">>, <<"readiness", "false">>, <<"require-ack", "true">>,
     <<"revoke-grace", "60">>, <<"revoke-on-shutdown", "false">>, <<"dynamic", "true">>,
     <<"init-first", "true">>, <<"notify-http", "u">>, <<"history", "1">>, <<"history", "15">>,
     <<"volume-medium", "disk">>, <<"native-sidecar", "true">>, <<"canary-configmap", "c">>,
     <<"agent-image", "i">>, <<"events", "true">>, <<"aws-secret", "aws">>,
     <<"agent-env", "AWS_ACCESS_KEY_ID">>, <<"agent-env", "RUST_LOG">>, <<"startup-policy", "bad">>,
     <<"schema-configmap", "s">>, <<"extra-secret", "x">>, <<"typo", "x">>,
     <<"agent-ephemeral-request", "60">>, <<"agent-ephemeral-limit", "1">>}}

Set(notes, r, change) ==
  IF change[2] = Absent THEN [k \in DOMAIN notes \ {<<r, change[1]>>} |-> notes[k]]
  ELSE (<<r, change[1]>> :> change[2]) @@ notes

(* Two changes, the first of them of one of the keys.                       *)
Changed(notes, keys) ==
  {Set(Set(notes, Main, one), Main, other) :
     one \in {c \in Changes : c[1] \in keys}, other \in Changes}

AnyKey == {c[1] : c \in Changes}
KeysOfWrapping ==
  {"source", "mode", "env-inject", "env-restart", "inject-containers", "dynamic", "init-first",
   "agent-run-as-same-user", "file-mode"}
KeysOfDb ==
  {"inject", "source", "endpoint", "key", "path", "mode", "auth", "token-secret", "template",
   "metrics-port", "inject-containers", "dynamic", "agent-image", "agent-env", "typo"}
KeysOfBare == {"source", "endpoint", "endpoint-secret", "path", "mode", "token-secret", "template"}

DbChanges == {c \in Changes : c[1] \in PerRender \cup {"typo"}}

OfDb(notes) ==
  {Set(Set(notes, "db", one), Main, other) :
     one \in DbChanges, other \in {c \in Changes : c[1] \in KeysOfDb}}

Renderings ==
  {Plain @@ (<<"x", "also">> :> file) : file \in {"/c/db.env", "/d/app.toml", "/c/app.xyz"}}
    \cup {Plain @@ (<<"x", "also-section">> :> "s")}

Shapes == {Plain, WithDb, Wrapping, Bare, OfClass}

(* Containers that the author called as the webhook would.                  *)
Squatters ==
  {[Pod(notes) EXCEPT !.containers = Append(@, [App("x", "own", FALSE, {}) EXCEPT !.name = name])] :
     notes \in {Plain, WithDb}, name \in {<<"agent", Main>>, <<"init", Main>>, <<"agent", "1">>, <<"agent", "db">>}}

Marked ==
  {[Pod(Plain) EXCEPT !.mark = mark] : mark \in {Injected, "mine"}}
    \cup {[Pod(Set(Plain, Main, <<"agent-run-as-same-user", "true">>)) EXCEPT !.uid = {u},
           !.containers = <<App("web", "own", TRUE, {})>>] : u \in {"0", "1000"}}

MCLively == {Pod(notes) : notes \in {Plain, OfClass, Set(Wrapping, Main, <<"env-restart", "true">>)}}

MCAsked ==
  {Pod(notes) : notes \in Changed(Plain, AnyKey) \cup Changed(Wrapping, KeysOfWrapping)
                           \cup Changed(Bare, KeysOfBare)
                           \cup OfDb(WithDb) \cup Renderings}
    \cup Squatters \cup Marked \cup MCLively

Nothing ==
  [fleet |-> NoTier, store |-> <<>>, source |-> {}, sourceMark |-> {}, overridable |-> TRUE,
   agentEnv |-> {}, envAllow |-> {}, sourceAllow |-> {}, sourceDeny |-> {},
   tlsSkip |-> FALSE, events |-> FALSE, imageAllow |-> FALSE]

Fleet == ("mode" :> "both") @@ ("agent-run-as-user" :> "1000") @@ ("agent-cpu-limit" :> "1")
           @@ ("metrics-port" :> "15") @@ ("file-mode" :> "0640") @@ ("path" :> "/c/app.toml")
           @@ ("volume-medium" :> "memory") @@ ("native-sidecar" :> "false")

Gated == [Nothing EXCEPT !.sourceDeny = {<<"b", "vault">>}]

MCInstalls ==
  {Nothing, Gated,
   \* everything on offer, and an environment for the fleet
   [Nothing EXCEPT !.tlsSkip = TRUE, !.events = TRUE, !.imageAllow = TRUE,
                   !.agentEnv = {"AWS_ACCESS_KEY_ID", "RUST_LOG"},
                   !.envAllow = {<<"a", "RUST_LOG">>}],
   \* a fleet that pins all it says, but for its file's permissions
   [Nothing EXCEPT !.fleet = Tier(Fleet, "file-mode" :> TRUE, {}), !.overridable = FALSE,
                   !.source = {"vault"}],
   \* a store's tier over the fleet's: an address pinned, the rest not
   [Nothing EXCEPT !.fleet = Tier(Fleet, <<>>, {}), !.source = {"vault"}, !.sourceMark = {FALSE},
                   !.store = "vault" :> Tier(("endpoint" :> "e2") @@ ("token-secret" :> "s/t")
                                              @@ ("watch-seconds" :> "1"), "endpoint" :> FALSE, {})],
   \* tiers that pin, one over an address that travels as a secret
   [Nothing EXCEPT !.store = ("vault" :> Tier(("endpoint-secret" :> "s/e") @@ ("template" :> "x"),
                                              "template" :> TRUE, {FALSE}))
                               @@ ("git" :> Tier(("template-configmap" :> "t") @@ ("auth" :> "ssh-key")
                                              @@ ("ssh-secret" :> "k"), <<>>, {FALSE}))
                               @@ ("s3" :> Tier("aws-secret" :> "aws", <<>>, {FALSE}))],
   \* gates, and a port that is pinned away
   [Nothing EXCEPT !.sourceDeny = {<<"a", "git">>},
                   !.sourceAllow = {<<"*", "vault">>, <<"b", "s3">>, <<"a", "git">>},
                   !.fleet = Tier("metrics-port" :> "0", <<>>, {FALSE})],
   \* what a webhook does not start on
   [Nothing EXCEPT !.fleet = Tier("agent-run-as-user" :> "0", <<>>, {})]}

MCRolled == {Nothing, Gated}

Class(namespaces, holds, broken, endpoint) ==
  [source |-> "vault", endpoint |-> endpoint, token |-> {"s/t"}, namespaces |-> namespaces,
   holds |-> holds, broken |-> broken]

MCClasses ==
  {Class({}, {"a"}, FALSE, "e1"), Class({"b"}, {}, FALSE, "e2"), Class({}, {"a"}, TRUE, "e2")}
=============================================================================
