----------------------------- MODULE AgentSpec ------------------------------
(***************************************************************************)
(* What the agent refuses of the arguments and the environment it is        *)
(* started with: Spec::from_args, validated and validated_auth.  Complaints *)
(* are told apart by whose they are: the webhook checks some of the same    *)
(* things, and leaves others to the agent on purpose.                       *)
(***************************************************************************)
EXTENDS Injection

Given(args, flag) == IF flag \in DOMAIN args THEN {args[flag]} ELSE {}
Variable(env, name) == {pair[2] : pair \in {e \in env : e[1] = name}}

(* The agent's own words for policies: what else it is told is refused.     *)
Policies == [flag \in {"startup-policy", "on-delete"} |->
               IF flag = "startup-policy" THEN {"allow-cached", "require-fresh", "best-effort"}
               ELSE {"retain", "remove", "fail"}]

NumberGiven(args, flag, least) ==
  \A v \in Given(args, flag) : v \in DOMAIN Number /\ Number[v] >= least

(* What the flags have to look like, each on its own.                       *)
FlagsParse(args) ==
  /\ \A flag \in {"watch", "metrics"} : NumberGiven(args, flag, 0)
  /\ \A flag \in {"timeout", "revoke-grace"} : NumberGiven(args, flag, 1)
  /\ NumberGiven(args, "history", 0)
  /\ \A n \in Given(args, "history") : Number[n] <= MostHistory
  /\ "bad" \notin Given(args, "file-mode")
  /\ Given(args, "on-drift") \subseteq Offered["on-drift"]

OwnFlagsParse(args) ==
  /\ \A flag \in DOMAIN Policies : Given(args, flag) \subseteq Policies[flag]
  /\ NumberGiven(args, "max-document-bytes", 0)
  /\ NumberGiven(args, "max-staleness", 1)
  /\ "bad" \notin Given(args, "notify-http")

Required(args, env) ==
  /\ {"source", "key", "path"} \subseteq DOMAIN args
  /\ "endpoint" \in DOMAIN args \/ Variable(env, "endpoint-secret") # {}

(* A flag that another flag or the source has to go with.                   *)
GoTogether(args) ==
  /\ Given(args, "source") \subseteq Sources
  /\ ("tls-cert" \in DOMAIN args) = ("tls-key" \in DOMAIN args)
  /\ ~({"template", "template-inline"} \subseteq DOMAIN args)

StoresOwn(args) ==
  /\ {"ref", "ssh-key"} \cap DOMAIN args # {} => args["source"] = "git"
  /\ "api-url" \in DOMAIN args => args["source"] \in {"firestore", "s3"}
  /\ "namespace" \in DOMAIN args => args["source"] = "vault"

FormatKnown(args) ==
  /\ {"template", "template-inline"} \cap DOMAIN args = {} => Paths[args["path"]].known
  /\ \A files \in Given(args, "also") : \A file \in files : Paths[file].known

(* Which ways to authenticate a store has, and what each needs.             *)
AuthKept(args, env) ==
  LET source == args["source"]
      auth == Given(args, "auth")
      has(flag) == flag \in DOMAIN args
      token == Variable(env, "token-secret") # {}
      password == Variable(env, "password-secret") # {}
      plain == auth = {}
  IN CASE source = "consul" ->
            \/ plain
            \/ auth = {"token"} /\ token
            \/ auth = {"kubernetes"} /\ has("auth-mount")
            \/ auth = {"jwt"} /\ has("auth-mount") /\ token
       [] source = "vault" ->
            \/ (plain \/ auth = {"token"} \/ auth = {"jwt"}) /\ token
            \/ auth = {"kubernetes"} /\ has("auth-role")
            \/ auth = {"approle"} /\ has("auth-role") /\ password
            \/ auth \in {{"userpass"}, {"ldap"}} /\ has("auth-username") /\ password
            \/ auth = {"cert"} /\ has("tls-cert")
       [] source = "config-server" -> plain \/ auth = {"kubernetes"}
       [] source = "firestore" ->
            \/ plain
            \/ auth \in {{"metadata-server"}, {"emulator"}}
            \/ auth = {"access-token"} /\ token
       [] source = "git" ->
            \/ plain
            \/ auth \in {{"anonymous"}, {"ssh"}}
            \/ auth = {"token"} /\ token
            \/ auth = {"ssh-key"} /\ has("ssh-key")
       [] source = "etcd" -> plain /\ (has("auth-username") => password)
       [] source = "nats" -> plain /\ args["key"] = "bucket/app"
       [] source \in {"s3", "redis"} -> plain

(* What the agent has to say against its arguments, and what of it the      *)
(* webhook is to have said before.                                          *)
Complaints(args, env) ==
  IF ~Required(args, env) THEN {"required"} ELSE
  {c \in {"form", "policy", "together", "store", "format", "auth"} :
     ~ CASE c = "form" -> FlagsParse(args)
         [] c = "policy" -> OwnFlagsParse(args)
         [] c = "together" -> GoTogether(args)
         [] c = "store" -> StoresOwn(args)
         [] c = "format" -> FormatKnown(args)
         [] c = "auth" -> AuthKept(args, env)}

LeftToTheAgent == {"policy", "store", "format", "auth"}
=============================================================================
