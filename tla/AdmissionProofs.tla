-------------------------- MODULE AdmissionProofs ---------------------------
(***************************************************************************)
(* Theorems about Admission, for any pods, installations, classes, replicas *)
(* and number of edits and faults.  The inductive invariant Inv has four    *)
(* parts: what a replica holds of a class was true (CacheInv), is at most   *)
(* one class and one for its namespace (ClassInv); the agents of a pod are  *)
(* those that its one decision gave it (PodInv); and the call is in order   *)
(* (CallInv).  What a decision gives is a matter of the injection's         *)
(* arithmetic and is in InjectionProofs.                                    *)
(***************************************************************************)
EXTENDS Admission, InjectionProofs

-----------------------------------------------------------------------------
(* The class cache.                                                         *)

(* A poll under way has read a list that was true since it began, and the   *)
(* objects as they are belong to its time.                                  *)
Polling(r) ==
  reading[r] # {} =>
    /\ objects \in lately[r]
    /\ \E o \in lately[r] : Only(reading[r]) = FromList(Cluster, o)

Was(r) == held[r] => \A s \in Scopes : \E o \in since[r] : cache[r][s] = FromList(s, o)

CacheInv ==
  /\ DOMAIN cache = Replicas /\ DOMAIN reading = Replicas /\ DOMAIN held = Replicas
  /\ DOMAIN since = Replicas /\ DOMAIN lately = Replicas
  /\ \A r \in Replicas : Polling(r) /\ Was(r)

LEMMA CacheInit == Init => CacheInv
  BY DEF Init, CacheInv, Polling, Was

(* A replica whose cache and poll stay as they are may learn of more that   *)
(* was so.                                                                  *)
LEMMA EditKeeps == ASSUME CacheInv, NEW scope \in Scopes, Edit(scope) PROVE CacheInv'
<1>1. UNCHANGED <<cache, reading, held>>
  BY DEF Edit
<1>2. /\ since' = [r \in Replicas |-> IF held[r] THEN since[r] \cup {objects'} ELSE {}]
      /\ lately' = [r \in Replicas |-> IF reading[r] # {} THEN lately[r] \cup {objects'} ELSE {}]
  BY DEF Edit
<1>3. ASSUME NEW r \in Replicas PROVE Polling(r)' /\ Was(r)'
  <2>1. held[r] => since[r] \subseteq since'[r]
    BY <1>2
  <2>2. reading[r] # {} => lately[r] \subseteq lately'[r] /\ objects' \in lately'[r]
    BY <1>2
  <2>3. Polling(r) /\ Was(r)
    BY DEF CacheInv
  <2>4. Polling(r)'
    BY <1>1, <2>2, <2>3 DEF Polling
  <2>5. Was(r)'
    BY <1>1, <2>1, <2>3 DEF Was
  <2> QED
    BY <2>4, <2>5
<1> QED
  BY <1>1, <1>2, <1>3 DEF CacheInv

LEMMA ListClusterKeeps == ASSUME CacheInv, NEW r \in Replicas, ListCluster(r) PROVE CacheInv'
<1>1. UNCHANGED <<objects, cache, held, since>>
  BY DEF ListCluster
<1>2. /\ reading' = [reading EXCEPT ![r] = {FromList(Cluster, objects)}]
      /\ lately' = [lately EXCEPT ![r] = {objects}]
  BY DEF ListCluster
<1>3. ASSUME NEW q \in Replicas PROVE Was(q)'
  BY <1>1 DEF CacheInv, Was
<1>4. ASSUME NEW q \in Replicas PROVE Polling(q)'
  <2>1. CASE q = r
    <3>1. reading'[q] = {FromList(Cluster, objects)} /\ lately'[q] = {objects}
      BY <1>2, <2>1 DEF CacheInv
    <3>2. Only(reading'[q]) = FromList(Cluster, objects)
      BY <3>1 DEF Only
    <3> QED
      BY <1>1, <3>1, <3>2 DEF Polling
  <2>2. CASE q # r
    <3>1. reading'[q] = reading[q] /\ lately'[q] = lately[q]
      BY <1>2, <2>2 DEF CacheInv
    <3> QED
      BY <1>1, <3>1 DEF Polling, CacheInv
  <2> QED
    BY <2>1, <2>2
<1> QED
  BY <1>1, <1>2, <1>3, <1>4 DEF CacheInv

(* A replica that another one's poll does not concern.                      *)
LEMMA OthersKept ==
  ASSUME CacheInv, NEW r \in Replicas, NEW q \in Replicas, q # r, objects' = objects,
         cache'[q] = cache[q], reading'[q] = reading[q], held'[q] = held[q],
         since'[q] = since[q], lately'[q] = lately[q]
  PROVE  Polling(q)' /\ Was(q)'
  BY DEF CacheInv, Polling, Was

LEMMA ListNamespacedKeeps ==
  ASSUME CacheInv, NEW r \in Replicas, ListNamespaced(r) PROVE CacheInv'
<1> DEFINE listed == [s \in Scopes |-> IF s = Cluster THEN Only(reading[r]) ELSE FromList(s, objects)]
<1>1. objects' = objects /\ reading[r] # {}
  BY DEF ListNamespaced
<1>2. cache' = [cache EXCEPT ![r] = listed]
  BY DEF ListNamespaced, Replaced
<1>3. /\ reading' = [reading EXCEPT ![r] = {}] /\ held' = [held EXCEPT ![r] = TRUE]
      /\ since' = [since EXCEPT ![r] = lately[r]] /\ lately' = [lately EXCEPT ![r] = {}]
  BY DEF ListNamespaced
<1>4. ASSUME NEW q \in Replicas, q # r PROVE Polling(q)' /\ Was(q)'
  <2>1. /\ cache'[q] = cache[q] /\ reading'[q] = reading[q] /\ held'[q] = held[q]
        /\ since'[q] = since[q] /\ lately'[q] = lately[q]
    BY <1>2, <1>3, <1>4 DEF CacheInv
  <2> QED
    BY <1>1, <1>4, <2>1, OthersKept
<1>5. Polling(r)' /\ Was(r)'
  <2>1. cache'[r] = listed /\ reading'[r] = {} /\ since'[r] = lately[r]
    BY <1>2, <1>3 DEF CacheInv
  <2>2. PICK o \in lately[r] : Only(reading[r]) = FromList(Cluster, o)
    BY <1>1 DEF CacheInv, Polling
  <2>3. objects \in lately[r]
    BY <1>1 DEF CacheInv, Polling
  <2>4. ASSUME NEW s \in Scopes PROVE \E x \in lately[r] : listed[s] = FromList(s, x)
    <3>1. CASE s = Cluster
      BY <2>2, <3>1
    <3>2. CASE s # Cluster
      BY <2>3, <3>2
    <3> QED
      BY <3>1, <3>2
  <2> QED
    BY <2>1, <2>4 DEF Polling, Was
<1> QED
  BY <1>2, <1>3, <1>4, <1>5 DEF CacheInv

LEMMA ListFailsKeeps == ASSUME CacheInv, NEW r \in Replicas, ListFails(r) PROVE CacheInv'
<1>1. UNCHANGED <<objects, cache, held, since>>
  BY DEF ListFails, Kept
<1>2. reading' = [reading EXCEPT ![r] = {}] /\ lately' = [lately EXCEPT ![r] = {}]
  BY DEF ListFails
<1>3. ASSUME NEW q \in Replicas PROVE Polling(q)' /\ Was(q)'
  <2>1. CASE q = r
    <3>1. reading'[q] = {}
      BY <1>2, <2>1 DEF CacheInv
    <3> QED
      BY <1>1, <3>1 DEF CacheInv, Polling, Was
  <2>2. CASE q # r
    <3>1. reading'[q] = reading[q] /\ lately'[q] = lately[q]
      BY <1>2, <2>2 DEF CacheInv
    <3> QED
      BY <1>1, <2>2, <3>1, OthersKept
  <2> QED
    BY <2>1, <2>2
<1> QED
  BY <1>1, <1>2, <1>3 DEF CacheInv

LEMMA RolloutKeeps == ASSUME CacheInv, NEW r \in Replicas, Rollout(r) PROVE CacheInv'
<1>1. objects' = objects
  BY DEF Rollout
<1>2. /\ cache' = [cache EXCEPT ![r] = NoClasses] /\ reading' = [reading EXCEPT ![r] = {}]
      /\ held' = [held EXCEPT ![r] = FALSE]
      /\ since' = [since EXCEPT ![r] = {}] /\ lately' = [lately EXCEPT ![r] = {}]
  BY DEF Rollout
<1>3. ASSUME NEW q \in Replicas PROVE Polling(q)' /\ Was(q)'
  <2>1. CASE q = r
    <3>1. reading'[q] = {} /\ ~held'[q]
      BY <1>2, <2>1 DEF CacheInv
    <3> QED
      BY <3>1 DEF Polling, Was
  <2>2. CASE q # r
    <3>1. /\ cache'[q] = cache[q] /\ reading'[q] = reading[q] /\ held'[q] = held[q]
          /\ since'[q] = since[q] /\ lately'[q] = lately[q]
      BY <1>2, <2>2 DEF CacheInv
    <3> QED
      BY <1>1, <2>2, <3>1, OthersKept
  <2> QED
    BY <2>1, <2>2
<1> QED
  BY <1>2, <1>3 DEF CacheInv

LEMMA CacheNext == CacheInv /\ [Next]_vars => CacheInv'
<1> SUFFICES ASSUME CacheInv, [Next]_vars PROVE CacheInv'
  OBVIOUS
<1>1. CASE UNCHANGED classVars
  BY <1>1 DEF classVars, CacheInv, Polling, Was
<1>2. CASE \E s \in Scopes : Edit(s)
  BY <1>2, EditKeeps
<1>3. CASE \E r \in Replicas : ListCluster(r) \/ ListNamespaced(r) \/ ListFails(r) \/ Rollout(r)
  BY <1>3, ListClusterKeeps, ListNamespacedKeeps, ListFailsKeeps, RolloutKeeps
<1>4. CASE \/ \E r \in Replicas : Allow(r) \/ Patch(r) \/ Refuse(r)
           \/ Skip \/ LaterWebhook \/ Persist \/ Resubmit
  <2>1. UNCHANGED classVars
    BY <1>4 DEF Allow, Patch, Refuse, Skip, LaterWebhook, Persist, Resubmit
  <2> QED
    BY <1>1, <2>1
<1>5. CASE UNCHANGED vars
  <2>1. UNCHANGED classVars
    BY <1>5 DEF vars, classVars
  <2> QED
    BY <1>1, <2>1
<1> QED
  BY <1>2, <1>3, <1>4, <1>5 DEF Next

(* Whatever polls, failed lists, edits and restarts come between, a class   *)
(* that a replica answers by was so since its last whole list began.        *)
THEOREM CacheTrue == Spec => []CacheWasTrue
<1>1. Init => CacheInv
  BY CacheInit
<1>2. CacheInv /\ [Next]_vars => CacheInv'
  BY CacheNext
<1>3. CacheInv => CacheWasTrue
  BY DEF CacheInv, CacheWasTrue, Was
<1> QED
  BY <1>1, <1>2, <1>3, PTL DEF Spec

-----------------------------------------------------------------------------
(* The classes of a replica, whatever they come to be.                      *)

Said == {{}} \cup {{c} : c \in Classes}
Startable == {i \in Installs : Starts(i)}

\* A poll under way has read something, a list of one class or none for each
\* scope, and a replica that never listed holds nothing.
OneReplica(r) ==
  /\ since[r] \subseteq [Scopes -> Said] /\ lately[r] \subseteq [Scopes -> Said]
  /\ reading[r] = {} <=> lately[r] = {}
  /\ held[r] <=> since[r] # {}
  /\ Option(reading[r])
  /\ ~held[r] => cache[r] = NoClasses

ClassInv ==
  /\ objects \in [Scopes -> Said]
  /\ install \in [Replicas -> Startable]
  /\ held \in [Replicas -> BOOLEAN]
  /\ \A r \in Replicas : OneReplica(r)

LEMMA ClassInit == Init => ClassInv
<1> SUFFICES ASSUME Init PROVE ClassInv
  OBVIOUS
<1>1. objects \in [Scopes -> Said]
  BY DEF Init, Said
<1>2. PICK i \in Installs : Starts(i) /\ install = [r \in Replicas |-> i]
  BY InstallsAssumption DEF Init
<1>3. install \in [Replicas -> Startable]
  BY <1>2 DEF Startable
<1>4. /\ cache = [r \in Replicas |-> NoClasses] /\ reading = [r \in Replicas |-> {}]
      /\ held = [r \in Replicas |-> FALSE]
      /\ since = [r \in Replicas |-> {}] /\ lately = [r \in Replicas |-> {}]
  BY DEF Init
<1> QED
  BY <1>1, <1>3, <1>4 DEF ClassInv, OneReplica, Option

LEMMA OtherReplica ==
  ASSUME ClassInv, NEW q \in Replicas, cache'[q] = cache[q], reading'[q] = reading[q],
         held'[q] = held[q], since'[q] = since[q], lately'[q] = lately[q]
  PROVE  OneReplica(q)'
  BY DEF ClassInv, OneReplica

LEMMA ClassEdit ==
  ASSUME CacheInv, ClassInv, NEW scope \in Scopes, Edit(scope) PROVE ClassInv'
<1>1. UNCHANGED <<install, cache, reading, held>>
  BY DEF Edit
<1>2. objects' \in [Scopes -> Said]
  BY DEF Edit, ClassInv, Said
<1>3. /\ since' = [r \in Replicas |-> IF held[r] THEN since[r] \cup {objects'} ELSE {}]
      /\ lately' = [r \in Replicas |-> IF reading[r] # {} THEN lately[r] \cup {objects'} ELSE {}]
  BY DEF Edit
<1>4. ASSUME NEW r \in Replicas PROVE OneReplica(r)'
  BY <1>1, <1>2, <1>3 DEF ClassInv, OneReplica
<1> QED
  BY <1>1, <1>2, <1>4 DEF ClassInv, OneReplica

LEMMA ClassPoll ==
  ASSUME CacheInv, ClassInv, NEW r \in Replicas, ListCluster(r) \/ ListNamespaced(r) \/ ListFails(r)
  PROVE  ClassInv'
<1>1. UNCHANGED <<objects, install>>
  BY DEF ListCluster, ListNamespaced, ListFails
<1>2. CASE ListCluster(r)
  <2>1. UNCHANGED <<cache, held, since>>
    BY <1>2 DEF ListCluster
  <2>2. /\ reading' = [reading EXCEPT ![r] = {FromList(Cluster, objects)}]
        /\ lately' = [lately EXCEPT ![r] = {objects}]
    BY <1>2 DEF ListCluster
  <2>3. ASSUME NEW q \in Replicas, q # r PROVE OneReplica(q)'
    <3>1. reading'[q] = reading[q] /\ lately'[q] = lately[q]
      BY <2>2, <2>3 DEF CacheInv
    <3> QED
      BY <2>1, <3>1, OtherReplica
  <2>4. OneReplica(r)'
    <3>1. reading'[r] = {FromList(Cluster, objects)} /\ lately'[r] = {objects}
      BY <2>2 DEF CacheInv
    <3> QED
      BY <2>1, <3>1 DEF ClassInv, OneReplica, Option
  <2> QED
    BY <1>1, <2>1, <2>3, <2>4 DEF ClassInv, OneReplica
<1>3. CASE ListNamespaced(r)
  <2>1. \A q \in Replicas : q # r => cache'[q] = cache[q]
    BY <1>3 DEF ListNamespaced
  <2>2. /\ reading' = [reading EXCEPT ![r] = {}] /\ held' = [held EXCEPT ![r] = TRUE]
        /\ since' = [since EXCEPT ![r] = lately[r]] /\ lately' = [lately EXCEPT ![r] = {}]
    BY <1>3 DEF ListNamespaced
  <2>3. ASSUME NEW q \in Replicas, q # r PROVE OneReplica(q)'
    <3>1. /\ reading'[q] = reading[q] /\ lately'[q] = lately[q]
          /\ held'[q] = held[q] /\ since'[q] = since[q]
      BY <2>2, <2>3 DEF CacheInv
    <3> QED
      BY <2>1, <2>3, <3>1, OtherReplica
  <2>4. OneReplica(r)'
    <3>1. reading'[r] = {} /\ lately'[r] = {} /\ held'[r] = TRUE /\ since'[r] = lately[r]
      BY <2>2 DEF CacheInv
    <3>2. reading[r] # {}
      BY <1>3 DEF ListNamespaced
    <3> QED
      BY <3>1, <3>2 DEF ClassInv, OneReplica, Option
  <2>5. held' \in [Replicas -> BOOLEAN]
    BY <2>2 DEF ClassInv
  <2> QED
    BY <1>1, <2>3, <2>4, <2>5 DEF ClassInv, OneReplica
<1>4. CASE ListFails(r)
  <2>1. UNCHANGED <<cache, held, since>>
    BY <1>4 DEF ListFails, Kept
  <2>2. reading' = [reading EXCEPT ![r] = {}] /\ lately' = [lately EXCEPT ![r] = {}]
    BY <1>4 DEF ListFails
  <2>3. ASSUME NEW q \in Replicas, q # r PROVE OneReplica(q)'
    <3>1. reading'[q] = reading[q] /\ lately'[q] = lately[q]
      BY <2>2, <2>3 DEF CacheInv
    <3> QED
      BY <2>1, <3>1, OtherReplica
  <2>4. OneReplica(r)'
    <3>1. reading'[r] = {} /\ lately'[r] = {}
      BY <2>2 DEF CacheInv
    <3> QED
      BY <2>1, <3>1 DEF ClassInv, OneReplica, Option
  <2> QED
    BY <1>1, <2>1, <2>3, <2>4 DEF ClassInv, OneReplica
<1> QED
  BY <1>2, <1>3, <1>4

LEMMA ClassRollout ==
  ASSUME CacheInv, ClassInv, NEW r \in Replicas, Rollout(r) PROVE ClassInv'
<1>1. objects' = objects
  BY DEF Rollout
<1>2. PICK i \in Installs : Starts(i) /\ install' = [install EXCEPT ![r] = i]
  BY InstallsAssumption DEF Rollout
<1>3. /\ cache' = [cache EXCEPT ![r] = NoClasses] /\ reading' = [reading EXCEPT ![r] = {}]
      /\ held' = [held EXCEPT ![r] = FALSE]
      /\ since' = [since EXCEPT ![r] = {}] /\ lately' = [lately EXCEPT ![r] = {}]
  BY DEF Rollout
<1>4. install' \in [Replicas -> Startable]
  BY <1>2 DEF ClassInv, Startable
<1>5. held' \in [Replicas -> BOOLEAN]
  BY <1>3 DEF ClassInv
<1>6. ASSUME NEW q \in Replicas, q # r PROVE OneReplica(q)'
  <2>1. /\ cache'[q] = cache[q] /\ reading'[q] = reading[q] /\ held'[q] = held[q]
        /\ since'[q] = since[q] /\ lately'[q] = lately[q]
    BY <1>3, <1>6 DEF CacheInv
  <2> QED
    BY <2>1, OtherReplica
<1>7. OneReplica(r)'
  <2>1. /\ cache'[r] = NoClasses /\ reading'[r] = {} /\ held'[r] = FALSE
        /\ since'[r] = {} /\ lately'[r] = {}
    BY <1>3 DEF CacheInv
  <2> QED
    BY <2>1 DEF OneReplica, Option
<1> QED
  BY <1>1, <1>4, <1>5, <1>6, <1>7 DEF ClassInv, OneReplica

LEMMA ClassNext == CacheInv /\ ClassInv /\ [Next]_vars => ClassInv'
<1> SUFFICES ASSUME CacheInv, ClassInv, [Next]_vars PROVE ClassInv'
  OBVIOUS
<1>1. CASE UNCHANGED classVars /\ UNCHANGED install
  BY <1>1 DEF classVars, ClassInv, OneReplica
<1>2. CASE \E s \in Scopes : Edit(s)
  BY <1>2, ClassEdit
<1>3. CASE \E r \in Replicas : ListCluster(r) \/ ListNamespaced(r) \/ ListFails(r) \/ Rollout(r)
  BY <1>3, ClassPoll, ClassRollout
<1>4. CASE \/ \E r \in Replicas : Allow(r) \/ Patch(r) \/ Refuse(r)
           \/ Skip \/ LaterWebhook \/ Persist \/ Resubmit
  <2>1. UNCHANGED classVars /\ UNCHANGED install
    BY <1>4 DEF Allow, Patch, Refuse, Skip, LaterWebhook, Persist, Resubmit
  <2> QED
    BY <1>1, <2>1
<1>5. CASE UNCHANGED vars
  <2>1. UNCHANGED classVars /\ UNCHANGED install
    BY <1>5 DEF vars, classVars
  <2> QED
    BY <1>1, <2>1
<1> QED
  BY <1>2, <1>3, <1>4, <1>5 DEF Next

LEMMA OptionSmall == ASSUME NEW S, Option(S) PROVE Cardinality(S) <= 1
<1>1. CASE S = {}
  BY <1>1, FS_EmptySet
<1>2. CASE S # {}
  <2>1. PICK x : S = {x}
    BY <1>2 DEF Option
  <2>2. Cardinality(S) = 1
    BY <2>1, FS_Singleton
  <2> QED
    BY <2>2
<1> QED
  BY <1>1, <1>2

\* What was read of one list is one class or none, and a namespace's own
\* class is for every pod that can name it.
LEMMA ListedIs ==
  ASSUME NEW o \in [Scopes -> Said], NEW s \in Scopes
  PROVE  /\ Option(FromList(s, o))
         /\ s # Cluster => \A class \in FromList(s, o) : class.admits = Namespaces
<1>1. CASE o[s] = {}
  <2>1. FromList(s, o) = {}
    BY <1>1 DEF FromList
  <2> QED
    BY <2>1 DEF Option
<1>2. CASE o[s] # {}
  <2>1. PICK c \in Classes : o[s] = {c}
    BY <1>2 DEF Said
  <2>2. FromList(s, o) = Read(s, c)
    BY <2>1 DEF FromList
  <2>3. Option(Read(s, c)) /\ (s # Cluster => \A class \in Read(s, c) : class.admits = Namespaces)
    BY DEF Read, Option
  <2> QED
    BY <2>2, <2>3
<1> QED
  BY <1>1, <1>2

\* The part of TypeOK that is of the classes and the replicas.
LEMMA ClassesTyped ==
  ASSUME CacheInv, ClassInv
  PROVE  /\ \A s \in Scopes : objects[s] \subseteq Classes /\ Cardinality(objects[s]) <= 1
         /\ \A r \in Replicas :
              /\ install[r] \in Installs /\ Starts(install[r])
              /\ \A s \in Scopes :
                   /\ Cardinality(cache[r][s]) <= 1
                   /\ s # Cluster => \A class \in cache[r][s] : class.admits = Namespaces
              /\ Cardinality(reading[r]) <= 1 /\ held[r] \in BOOLEAN
              /\ (reading[r] = {} <=> lately[r] = {}) /\ (held[r] <=> since[r] # {})
<1>1. ASSUME NEW s \in Scopes PROVE objects[s] \subseteq Classes /\ Cardinality(objects[s]) <= 1
  <2>1. objects[s] \in Said
    BY DEF ClassInv, OneReplica
  <2>2. objects[s] \subseteq Classes /\ Option(objects[s])
    BY <2>1 DEF Said, Option
  <2> QED
    BY <2>2, OptionSmall
<1>2. ASSUME NEW r \in Replicas, NEW s \in Scopes
      PROVE  /\ Cardinality(cache[r][s]) <= 1
             /\ s # Cluster => \A class \in cache[r][s] : class.admits = Namespaces
  <2>1. CASE ~held[r]
    <3>1. cache[r][s] = {}
      BY <2>1 DEF ClassInv, OneReplica, NoClasses
    <3> QED
      BY <3>1, FS_EmptySet
  <2>2. CASE held[r]
    <3>1. PICK o \in since[r] : cache[r][s] = FromList(s, o)
      BY <2>2 DEF CacheInv, Was
    <3>2. o \in [Scopes -> Said]
      BY DEF ClassInv, OneReplica
    <3> QED
      BY <3>1, <3>2, ListedIs, OptionSmall
  <2> QED
    BY <2>1, <2>2
<1>3. ASSUME NEW r \in Replicas
      PROVE  /\ install[r] \in Installs /\ Starts(install[r])
             /\ Cardinality(reading[r]) <= 1 /\ held[r] \in BOOLEAN
             /\ (reading[r] = {} <=> lately[r] = {}) /\ (held[r] <=> since[r] # {})
  <2>1. install[r] \in Startable /\ held[r] \in BOOLEAN
    BY DEF ClassInv, OneReplica
  <2>2. Cardinality(reading[r]) <= 1
    BY OptionSmall DEF ClassInv, OneReplica
  <2> QED
    BY <2>1, <2>2 DEF ClassInv, OneReplica, Startable
<1> QED
  BY <1>1, <1>2, <1>3

-----------------------------------------------------------------------------
(* What happens to a pod.                                                   *)

\* A pod without the agents is made of the containers that are none.
LEMMA OthersAre ==
  ASSUME NEW S, NEW s \in Seq(S)
  PROVE  Others(s) \in Seq(S) /\ ToSet(Others(s)) = {c \in ToSet(s) : c.agent = {}}
<1> DEFINE K == {n \in DOMAIN s : s[n].agent = {}}
           place(n) == Cardinality({m \in K : m <= n})
           size == Cardinality(K)
           at(k) == CHOOSE n \in K : place(n) = k
<1>1. K \in SUBSET (1..Len(s)) /\ Len(s) \in Nat
  OBVIOUS
<1>2. /\ size \in Nat /\ \A k \in 1..size : \E n \in K : place(n) = k
      /\ \A n \in K : place(n) \in 1..size
      /\ \A x, y \in K : place(x) = place(y) => x = y
  <2> HIDE DEF K
  <2> QED
    BY <1>1, RankTaken
<1>3. Others(s) = [k \in 1..size |-> s[at(k)]]
  BY DEF Others
<1>4. \A n \in K : s[n] \in S /\ s[n] \in ToSet(s) /\ s[n].agent = {}
  BY RangeTyped
<1>5. \A c \in ToSet(s) : c.agent = {} => \E n \in K : c = s[n]
  BY DEF ToSet
<1> HIDE DEF K, place, size
<1>6. \A k \in 1..size : at(k) \in K /\ place(at(k)) = k
  BY <1>2
<1>7. \A n \in K : at(place(n)) = n
  BY <1>2, <1>6
<1> HIDE DEF at
<1>8. Others(s) \in Seq(S)
  <2>1. Others(s) \in [1..size -> S]
    BY <1>3, <1>4, <1>6
  <2> QED
    BY <1>2, <2>1
<1>9. DOMAIN Others(s) = 1..size /\ \A k \in 1..size : Others(s)[k] = s[at(k)]
  BY <1>3
<1>10. ASSUME NEW c \in ToSet(Others(s)) PROVE c \in ToSet(s) /\ c.agent = {}
  <2>1. PICK k \in 1..size : c = s[at(k)]
    BY <1>9 DEF ToSet
  <2> QED
    BY <1>4, <1>6, <2>1
<1>11. ASSUME NEW c \in ToSet(s), c.agent = {} PROVE c \in ToSet(Others(s))
  <2>1. PICK n \in K : c = s[n]
    BY <1>5, <1>11
  <2>2. place(n) \in 1..size /\ Others(s)[place(n)] = c
    BY <1>2, <1>7, <1>9, <2>1
  <2> QED
    BY <1>9, <2>2 DEF ToSet
<1> QED
  BY <1>8, <1>10, <1>11

LEMMA StrippedIs ==
  ASSUME NEW p, Formed(p)
  PROVE  LET q == Stripped(p) IN
         /\ Formed(q) /\ Containers(q) = {c \in Containers(p) : c.agent = {}}
         /\ q.ns = p.ns /\ q.notes = p.notes /\ q.mark = p.mark /\ q.volumes = p.volumes
         /\ Authored(p) => Authored(q)
<1> DEFINE q == Stripped(p)
<1>1. /\ DOMAIN q = PodFields /\ q.containers = Others(p.containers) /\ q.inits = Others(p.inits)
      /\ q.ns = p.ns /\ q.notes = p.notes /\ q.mark = p.mark /\ q.volumes = p.volumes
      /\ q.uid = p.uid
  BY DEF Stripped, Formed, PodFields
<1> HIDE DEF q
<1>2. p.containers \in Seq(Containers(p)) /\ p.inits \in Seq(Containers(p))
  BY DEF Formed
<1>3. Containers(q) = {c \in Containers(p) : c.agent = {}}
  BY <1>1, <1>2, OthersAre DEF Containers
<1>4. q.containers \in Seq(Containers(q)) /\ q.inits \in Seq(Containers(q))
  <2>1. q.containers \in Seq(Containers(p)) /\ q.inits \in Seq(Containers(p))
    BY <1>1, <1>2, OthersAre
  <2>2. q.containers \in Seq(ToSet(q.containers)) /\ q.inits \in Seq(ToSet(q.inits))
    BY <2>1, RangeTyped
  <2> QED
    BY <2>2, SeqGrows DEF Containers
<1>5. Formed(q)
  BY <1>1, <1>3, <1>4 DEF Formed
<1>6. ASSUME Authored(p) PROVE Authored(q)
  <2>1. p.containers # <<>> /\ \A c \in Containers(p) : c.agent = {} /\ c.command \in {"image", "own"}
    BY <1>6 DEF Authored
  <2>2. p.containers[1] \in ToSet(p.containers)
    BY <1>2, <2>1, EndsRange
  <2>3. p.containers[1] \in ToSet(q.containers)
    BY <1>1, <1>2, <2>1, <2>2, OthersAre DEF Containers
  <2>4. q.containers # <<>>
    BY <2>3, EmptyRange
  <2> QED
    BY <1>1, <1>3, <1>5, <1>6, <2>1, <2>4 DEF Authored
<1> QED
  BY <1>1, <1>3, <1>5, <1>6 DEF q

LEMMA MeshedIs ==
  ASSUME NEW p, Formed(p)
  PROVE  LET q == [p EXCEPT !.containers = Append(@, Mesh)] IN
         /\ Formed(q) /\ Containers(q) = Containers(p) \cup {Mesh} /\ q.inits = p.inits
         /\ q.ns = p.ns /\ q.notes = p.notes /\ q.mark = p.mark /\ q.volumes = p.volumes
         /\ Authored(p) => Authored(q)
<1> DEFINE q == [p EXCEPT !.containers = Append(@, Mesh)]
<1>1. /\ DOMAIN q = PodFields /\ q.containers = Append(p.containers, Mesh) /\ q.inits = p.inits
      /\ q.ns = p.ns /\ q.notes = p.notes /\ q.mark = p.mark /\ q.volumes = p.volumes
      /\ q.uid = p.uid
  BY DEF Formed, PodFields
<1> HIDE DEF q
<1>2. p.containers \in Seq(Containers(p) \cup {Mesh}) /\ p.inits \in Seq(Containers(p) \cup {Mesh})
  BY SeqGrows DEF Formed
<1>3. /\ q.containers \in Seq(Containers(p) \cup {Mesh})
      /\ ToSet(q.containers) = ToSet(p.containers) \cup {Mesh}
  BY <1>1, <1>2, AppendRange
<1>4. Containers(q) = Containers(p) \cup {Mesh}
  BY <1>1, <1>3 DEF Containers
<1>5. /\ DOMAIN Mesh = ContainerFields /\ Mesh.uid = {} /\ Mesh.agent = {} /\ Mesh.command = "own"
  BY DEF Mesh, App, ContainerFields
<1>6. Formed(q)
  <2>1. q.inits \in Seq(Containers(p) \cup {Mesh})
    BY <1>1, <1>2
  <2>2. \A c \in Containers(p) \cup {Mesh} : DOMAIN c = ContainerFields /\ Option(c.uid)
    BY <1>5 DEF Formed, Option
  <2> QED
    BY <1>1, <1>3, <1>4, <2>1, <2>2 DEF Formed
<1>7. ASSUME Authored(p) PROVE Authored(q)
  <2>1. q.containers # <<>>
    BY <1>3, EmptyRange
  <2> QED
    BY <1>1, <1>4, <1>5, <1>6, <1>7, <2>1 DEF Authored
<1> QED
  BY <1>1, <1>4, <1>6, <1>7 DEF q

\* A class fills in annotations, of three keys, and nothing else.
LEMMA FilledIs ==
  ASSUME NEW r, Formed(pod)
  PROVE  LET q == Filled(r) IN
         /\ Formed(q) /\ Containers(q) = Containers(pod)
         /\ q.containers = pod.containers /\ q.ns = pod.ns
         /\ q.mark = pod.mark /\ q.volumes = pod.volumes
         /\ \A key : key \notin {"source", "endpoint", "token-secret"} =>
              Note(q, Main, key) = Note(pod, Main, key)
         /\ Authored(pod) => Authored(q)
<1> DEFINE q == Filled(r)
           class == Only(ClassOf(r))
           filled == {key \in {"source", "endpoint", "token-secret"} : ClassNote(class, key) # {}}
           added == {<<Main, key>> : key \in filled}
<1>1. q = [pod EXCEPT !.notes = q.notes]
      /\ \/ q.notes = pod.notes
         \/ q.notes = FilledNotes(pod.notes, class)
  BY DEF Filled, Formed, PodFields
<1>2. /\ DOMAIN q = PodFields /\ q.containers = pod.containers /\ q.inits = pod.inits
      /\ q.ns = pod.ns /\ q.mark = pod.mark /\ q.volumes = pod.volumes /\ q.uid = pod.uid
  BY <1>1 DEF Formed, PodFields
<1>3. /\ DOMAIN FilledNotes(pod.notes, class) = DOMAIN pod.notes \cup added
      /\ \A k \in DOMAIN pod.notes : FilledNotes(pod.notes, class)[k] = pod.notes[k]
  BY DEF FilledNotes
<1>4. IsFiniteSet(added)
  <2>1. IsFiniteSet({<<Main, "source">>, <<Main, "endpoint">>, <<Main, "token-secret">>})
    <3>1. IsFiniteSet({<<Main, "source">>})
      BY FS_Singleton
    <3>2. IsFiniteSet({<<Main, "source">>} \cup {<<Main, "endpoint">>})
      BY <3>1, FS_AddElement
    <3>3. IsFiniteSet(({<<Main, "source">>} \cup {<<Main, "endpoint">>}) \cup {<<Main, "token-secret">>})
      BY <3>2, FS_AddElement
    <3>4. ({<<Main, "source">>} \cup {<<Main, "endpoint">>}) \cup {<<Main, "token-secret">>}
            = {<<Main, "source">>, <<Main, "endpoint">>, <<Main, "token-secret">>}
      BY Zenon
    <3> QED
      BY <3>3, <3>4, Zenon
  <2>2. added \subseteq {<<Main, "source">>, <<Main, "endpoint">>, <<Main, "token-secret">>}
    OBVIOUS
  <2> QED
    BY <2>1, <2>2, FS_Subset
<1>5. \A k \in added : k[2] \in {"source", "endpoint", "token-secret"}
  OBVIOUS
<1> HIDE DEF q, class, filled, added
<1>6. IsFiniteSet(DOMAIN q.notes)
  <2>1. IsFiniteSet(DOMAIN pod.notes)
    BY DEF Formed
  <2>2. IsFiniteSet(DOMAIN pod.notes \cup added)
    BY <1>4, <2>1, FS_Union
  <2> QED
    BY <1>1, <1>3, <2>1, <2>2
<1>7. Containers(q) = Containers(pod)
  BY <1>2 DEF Containers
<1>8. Formed(q)
  BY <1>2, <1>6, <1>7 DEF Formed
<1>9. ASSUME NEW key, key \notin {"source", "endpoint", "token-secret"}
      PROVE  Note(q, Main, key) = Note(pod, Main, key)
  <2>1. <<Main, key>>[2] = key
    OBVIOUS
  <2>2. <<Main, key>> \notin added
    BY <1>5, <1>9, <2>1
  <2> QED
    BY <1>1, <1>3, <2>2 DEF Note
<1>10. Authored(pod) => Authored(q)
  BY <1>2, <1>7, <1>8 DEF Authored
<1> QED
  BY <1>2, <1>7, <1>8, <1>9, <1>10 DEF q

-----------------------------------------------------------------------------
(* The invariant of a pod.                                                  *)

\* Of containers that are no agents, those of one name have one command.
Alike(p) ==
  \A c, e \in Containers(p) : c.agent = {} /\ e.agent = {} /\ c.name = e.name => c.command = e.command

Sound(p) == \A c \in Containers(p) : c.command \in {"image", "own", "wrapped"}

\* A pod's agents lie where the patch of p put them: they go on watching or
\* fetch once as the mode says, and are of both kinds when it says both; those
\* that watch are init containers when they are native.  The rendered files'
\* volume is of one medium.
Arranged(q, p, i) ==
  /\ \A c \in Containers(q) : \A a \in c.agent :
       /\ a.watch => Mode(p, i) # "init" /\ (c \in ToSet(q.inits) <=> Native(p, i))
       /\ ~a.watch => Mode(p, i) # "sidecar"
  /\ (\E c \in Containers(q) : c.agent # {}) =>
       /\ Mode(p, i) # "sidecar" => Agent(p, i, Main, FALSE) \in Containers(q)
       /\ Mode(p, i) # "init" => Agent(p, i, Main, TRUE) \in Containers(q)
  /\ Lies("memory") \in q.volumes <=> InMemory(p, i)
  /\ Lies("disk") \in q.volumes <=> ~InMemory(p, i)

LEMMA PlacedArranged ==
  ASSUME NEW p, NEW i, NEW q, Authored(p), Placed(p, i, q),
         q.volumes = p.volumes \cup Volumes(p, i)
  PROVE  Arranged(q, p, i)
<1>1. ASSUME NEW watch, NEW c \in OneWay(p, i, watch), NEW a \in c.agent PROVE a.watch = watch
  <2>1. PICK r \in Renders(p) : c = Agent(p, i, r, watch)
    BY <1>1 DEF OneWay
  <2>2. a = [render |-> r, watch |-> watch, args |-> Args(p, i, r, watch),
             env |-> Env(p, i, r), mounts |-> Mounts(p, i, r),
             group |-> Group(p, i), resources |-> Resources(p, i)]
    BY <1>1, <2>1, AgentIs
  <2> QED
    BY <2>2
<1>2. \A c \in ToSet(p.inits) : c.agent = {}
  BY DEF Authored, Containers
<1>3. \A b \in ToSet(p.containers) : Dressed(p, b).agent = {}
  <2>1. \A b \in ToSet(p.containers) : DOMAIN b = ContainerFields /\ b.agent = {}
    BY DEF Authored, Formed, Containers
  <2> QED
    BY <2>1, DressedIs
<1>4. ASSUME NEW c \in ToSet(q.inits), NEW a \in c.agent
      PROVE  \/ a.watch = FALSE /\ Mode(p, i) # "sidecar"
             \/ a.watch = TRUE /\ Mode(p, i) # "init" /\ Native(p, i)
  BY <1>1, <1>2, <1>4 DEF Placed
<1>5. ASSUME NEW c \in ToSet(q.containers), NEW a \in c.agent
      PROVE  a.watch = TRUE /\ Mode(p, i) # "init" /\ ~Native(p, i)
  BY <1>1, <1>3, <1>5 DEF Placed
<1>6. ASSUME NEW c \in Containers(q), NEW a \in c.agent
      PROVE  /\ a.watch => Mode(p, i) # "init" /\ (c \in ToSet(q.inits) <=> Native(p, i))
             /\ ~a.watch => Mode(p, i) # "sidecar"
  <2>1. CASE c \in ToSet(q.inits)
    BY <1>4, <2>1
  <2>2. CASE c \notin ToSet(q.inits)
    <3>1. c \in ToSet(q.containers)
      BY <1>6, <2>2 DEF Containers
    <3> QED
      BY <1>5, <2>2, <3>1
  <2> QED
    BY <2>1, <2>2
<1>7. ASSUME NEW m \in {"memory", "disk"}
      PROVE  Lies(m) \in q.volumes <=> m = IF InMemory(p, i) THEN "memory" ELSE "disk"
  <2> DEFINE own == Lies(IF InMemory(p, i) THEN "memory" ELSE "disk")
             other == PodMaterial(p) \cup UNION {RenderMaterial(p, i, r) : r \in Renders(p)}
  <2>1. \A v \in other : v[1] # "config"
    <3>1. \A v \in PodMaterial(p) : v[1] # "config"
      BY DEF PodMaterial
    <3>2. ASSUME NEW r PROVE \A v \in RenderMaterial(p, i, r) : v[1] # "config"
      BY DEF RenderMaterial
    <3> QED
      BY <3>1, <3>2
  <2>2. Lies(m) \notin p.volumes
    BY DEF Authored
  <2>3. Volumes(p, i) = {Rendered, own} \cup other
    BY DEF Volumes
  <2> HIDE DEF other
  <2>4. Lies(m)[1] = "config" /\ Lies(m) # Rendered
    BY DEF Lies, Rendered, Main
  <2>5. Lies(m) \in q.volumes <=> Lies(m) = own
    BY <2>1, <2>2, <2>3, <2>4
  <2> QED
    BY <2>5 DEF Lies
<1>8. /\ Mode(p, i) # "sidecar" => Agent(p, i, Main, FALSE) \in Containers(q)
      /\ Mode(p, i) # "init" => Agent(p, i, Main, TRUE) \in Containers(q)
  BY DEF Placed
<1>9. /\ Lies("memory") \in q.volumes <=> InMemory(p, i)
      /\ Lies("disk") \in q.volumes <=> ~InMemory(p, i)
  BY <1>7
<1> QED
  BY <1>6, <1>8, <1>9 DEF Arranged

\* It stays so when every agent is taken out, or none and no init container.
LEMMA ArrangedStays ==
  ASSUME NEW q, NEW z, NEW p, NEW i, Arranged(q, p, i), z.volumes = q.volumes,
         \/ \A c \in Containers(z) : c.agent = {}
         \/ /\ \A c \in Containers(z) : c.agent # {} => c \in Containers(q)
            /\ ToSet(z.inits) = ToSet(q.inits) /\ Containers(q) \subseteq Containers(z)
  PROVE  Arranged(z, p, i)
  BY DEF Arranged

\* A decision was one on an author's pod that passed, and the agents of the
\* pod are those that it gave, where it put them, of volumes that are there.
Decision(d) ==
  /\ Authored(d.pod) /\ d.install \in Startable /\ Patchable(d.pod, d.install)
  /\ Volumes(d.pod, d.install) \subseteq pod.volumes
  /\ \A c \in Containers(pod) : c.agent # {} => c \in AgentsOf(d.pod, d.install)
  /\ Arranged(pod, d.pod, d.install)
  /\ On(pod, "agent-run-as-same-user") <=> On(d.pod, "agent-run-as-same-user")
  /\ pod.mark = Injected

\* A pod that went through a replica has its agent if it is to have one.
Served ==
  stage \in {"mutated", "stored"} /\ ~skipped /\ (On(pod, "inject") \/ pod.mark # "")
    => AlreadyInjected(pod)

PodInv ==
  /\ Formed(pod)
  /\ decided = {} => Authored(pod)
  /\ \A d \in decided : Decision(d)
  /\ Alike(pod) => Sound(pod)
  /\ Served

LEMMA AuthoredSound == ASSUME NEW p, Authored(p) PROVE Sound(p)
  BY DEF Authored, Sound

LEMMA PodInit == Init => PodInv
<1> SUFFICES ASSUME Init PROVE PodInv
  OBVIOUS
<1>1. Authored(pod) /\ decided = {} /\ stage = "asked"
  BY AskedAssumption DEF Init
<1> QED
  BY <1>1, AuthoredSound DEF PodInv, Authored, Served

\* A pod that keeps its notes, its mark and its volumes, and gets no agent.
LEMMA DecisionKept ==
  ASSUME NEW d \in decided, PodInv, pod'.notes = pod.notes, pod'.mark = pod.mark,
         pod'.volumes = pod.volumes,
         \A c \in Containers(pod') : c.agent # {} => c \in Containers(pod),
         \/ \A c \in Containers(pod') : c.agent = {}
         \/ ToSet(pod'.inits) = ToSet(pod.inits) /\ Containers(pod) \subseteq Containers(pod')
  PROVE  Decision(d)'
<1>1. Decision(d)
  BY DEF PodInv
<1>2. \A key : Note(pod', Main, key) = Note(pod, Main, key)
  BY DEF Note
<1>3. On(pod', "agent-run-as-same-user") <=> On(pod, "agent-run-as-same-user")
  BY <1>2 DEF On
<1>4. ASSUME NEW p, NEW i, Arranged(pod, p, i) PROVE Arranged(pod', p, i)
  BY <1>4, ArrangedStays
<1> QED
  BY <1>1, <1>3, <1>4 DEF Decision

LEMMA PodAllow == ASSUME PodInv, NEW r \in Replicas, Allow(r) PROVE PodInv'
<1>1. pod' = pod /\ decided' = decided /\ skipped' = skipped /\ LetThrough(Filled(r))
  BY DEF Allow
<1>2. /\ Containers(Filled(r)) = Containers(pod) /\ Filled(r).mark = pod.mark
      /\ Note(Filled(r), Main, "inject") = Note(pod, Main, "inject")
  BY FilledIs DEF PodInv
<1>3. On(pod, "inject") \/ pod.mark # "" => AlreadyInjected(pod)
  <2>1. CASE pod.mark = ""
    <3>1. Note(pod, Main, "inject") \subseteq {"false"}
      BY <1>1, <1>2, <2>1 DEF LetThrough
    <3>2. ~On(pod, "inject")
      BY <3>1 DEF On
    <3> QED
      BY <2>1, <3>2
  <2>2. CASE pod.mark # ""
    <3>1. AlreadyInjected(Filled(r))
      BY <1>1, <1>2, <2>2 DEF LetThrough
    <3> QED
      BY <1>2, <3>1 DEF AlreadyInjected
  <2> QED
    BY <2>1, <2>2
<1>4. \A d \in decided : Decision(d)'
  BY <1>1 DEF PodInv, Decision
<1> QED
  BY <1>1, <1>3, <1>4 DEF PodInv, Served

LEMMA PodPatch == ASSUME ClassInv, PodInv, NEW r \in Replicas, Patch(r) PROVE PodInv'
<1> DEFINE p == Filled(r)
           i == install[r]
           q == Patched(p, i)
           d == [pod |-> p, install |-> i, class |-> ClassOf(r)]
<1>1. /\ Patchable(p, i) /\ pod' = [q EXCEPT !.notes = pod.notes]
      /\ decided' = {d} /\ stage' = "mutated"
  BY DEF Patch
<1>2. /\ Formed(p) /\ Containers(p) = Containers(pod) /\ p.mark = pod.mark
      /\ \A key : key \notin {"source", "endpoint", "token-secret"} =>
           Note(p, Main, key) = Note(pod, Main, key)
      /\ Authored(pod) => Authored(p)
  BY FilledIs DEF PodInv
<1>3. i \in Startable
  BY DEF ClassInv
<1>4. p.mark = ""
  BY <1>1 DEF Patchable
<1>5. Authored(p)
  <2>1. decided = {}
    <3>1. \A e \in decided : pod.mark = Injected
      BY DEF PodInv, Decision
    <3> QED
      BY <1>2, <1>4, <3>1 DEF Injected
  <2> QED
    BY <1>2, <2>1 DEF PodInv
<1>6. IsFiniteSet(DOMAIN pod.notes)
  BY DEF PodInv, Formed
<1> HIDE DEF p, i
<1>7. /\ Formed(q) /\ q.mark = Injected
      /\ q.volumes = p.volumes \cup Volumes(p, i)
      /\ \A c \in Containers(q) :
           \/ c \in AgentsOf(p, i)
           \/ c \in ToSet(p.inits)
           \/ \E b \in ToSet(p.containers) : c = Dressed(p, b)
      /\ \A b \in ToSet(p.containers) : Dressed(p, b) \in ToSet(q.containers)
      /\ AlreadyInjected(q)
      /\ Placed(p, i, q)
  BY <1>2, PatchedIs
<1>18. Arranged(q, p, i)
  BY <1>5, <1>7, PlacedArranged
<1> HIDE DEF q
<1>8. /\ pod'.mark = q.mark /\ pod'.volumes = q.volumes /\ pod'.notes = pod.notes
      /\ pod'.containers = q.containers /\ pod'.inits = q.inits /\ pod'.uid = q.uid
      /\ DOMAIN pod' = PodFields
  BY <1>1, <1>7 DEF Formed, PodFields
<1>9. Containers(pod') = Containers(q)
  BY <1>8 DEF Containers
<1>10. Formed(pod')
  BY <1>6, <1>7, <1>8, <1>9 DEF Formed
<1>11. \A b \in ToSet(p.containers) :
         /\ Dressed(p, b).agent = {} /\ Dressed(p, b).name = b.name
         /\ Dressed(p, b).command =
              IF b.name \in {<<"app", n>> : n \in Note(p, Main, "env-inject")}
              THEN IF b.command = "own" THEN "wrapped" ELSE "wrapped again"
              ELSE b.command
  <2>1. \A b \in ToSet(p.containers) : DOMAIN b = ContainerFields /\ b.agent = {}
    BY <1>5 DEF Authored, Formed, Containers
  <2> QED
    BY <2>1, DressedIs
<1>12. \A c \in AgentsOf(p, i) : c.command = "image"
  BY AgentIs DEF AgentsOf
<1>13. \A c \in Containers(p) : c.agent = {} /\ c.command \in {"image", "own"}
  BY <1>5 DEF Authored
<1>14. ASSUME NEW c \in Containers(pod'), c.agent # {} PROVE c \in AgentsOf(p, i)
  BY <1>7, <1>9, <1>11, <1>13, <1>14 DEF Containers
<1>15. ASSUME Alike(pod'), NEW c \in Containers(pod') PROVE c.command \in {"image", "own", "wrapped"}
  <2>1. CASE c \in AgentsOf(p, i) \/ c \in ToSet(p.inits)
    BY <1>12, <1>13, <2>1 DEF Containers
  <2>2. ASSUME NEW b \in ToSet(p.containers), c = Dressed(p, b)
        PROVE  c.command \in {"image", "own", "wrapped"}
    <3>1. b.command \in {"image", "own"}
      BY <1>13 DEF Containers
    <3>2. CASE b.name \notin {<<"app", n>> : n \in Note(p, Main, "env-inject")}
      BY <1>11, <2>2, <3>1, <3>2
    <3>3. CASE b.name \in {<<"app", n>> : n \in Note(p, Main, "env-inject")}
      <4>1. PICK name \in Note(p, Main, "env-inject") : b.name = <<"app", name>>
        BY <3>3
      <4>2. PICK e \in Application(p, name) : e.command # "image"
        BY <1>1 DEF Patchable, Accepted, EnvKept
      <4>3. e \in ToSet(p.containers) /\ e.name = b.name
        BY <4>1, <4>2 DEF Application
      <4>4. e.command = "own"
        BY <1>13, <4>2, <4>3 DEF Containers
      <4>5. Dressed(p, e).command = "wrapped"
        BY <1>11, <3>3, <4>3, <4>4
      <4>6. Dressed(p, e) \in Containers(pod') /\ Dressed(p, e).agent = {} /\ Dressed(p, e).name = b.name
        BY <1>7, <1>9, <1>11, <4>3 DEF Containers
      <4>7. c.agent = {} /\ c.name = b.name
        BY <1>11, <2>2
      <4>8. c.command = Dressed(p, e).command
        BY <1>15, <4>6, <4>7 DEF Alike
      <4> QED
        BY <4>5, <4>8
    <3> QED
      BY <3>2, <3>3
  <2> QED
    BY <1>7, <1>9, <2>1, <2>2
<1>16. ASSUME NEW e \in decided' PROVE Decision(e)'
  <2>1. Note(pod', Main, "agent-run-as-same-user") = Note(p, Main, "agent-run-as-same-user")
    BY <1>2, <1>8 DEF Note
  <2>2. On(pod', "agent-run-as-same-user") <=> On(p, "agent-run-as-same-user")
    BY <2>1 DEF On
  <2>3. e.pod = p /\ e.install = i
    BY <1>1, <1>16
  <2>4. Volumes(p, i) \subseteq pod'.volumes
    BY <1>7, <1>8
  <2>5. pod'.mark = Injected
    BY <1>7, <1>8
  <2>6. \A c \in Containers(pod') : c.agent # {} => c \in AgentsOf(p, i)
    BY <1>14
  <2>7. Arranged(pod', p, i)
    BY <1>8, <1>9, <1>18 DEF Arranged
  <2> QED
    BY <1>1, <1>3, <1>5, <2>2, <2>3, <2>4, <2>5, <2>6, <2>7 DEF Decision
<1>17. AlreadyInjected(pod')
  BY <1>7, <1>9 DEF AlreadyInjected
<1> HIDE DEF d
<1> QED
  BY <1>1, <1>10, <1>15, <1>16, <1>17 DEF PodInv, Served, Sound

\* A pod that others have changed: its agents are those that it had, its
\* other containers are of the names and commands that they were.
LEMMA PodChanged ==
  ASSUME PodInv, stage' = "asked", decided' = decided, Formed(pod'), Authored(pod) => Authored(pod'),
         pod'.notes = pod.notes, pod'.mark = pod.mark, pod'.volumes = pod.volumes,
         \A c \in Containers(pod') : c \in Containers(pod) \/ c = Mesh,
         \A c \in Containers(pod) : c.agent = {} => c \in Containers(pod'),
         \/ \A c \in Containers(pod') : c.agent = {}
         \/ ToSet(pod'.inits) = ToSet(pod.inits) /\ Containers(pod) \subseteq Containers(pod')
  PROVE  PodInv'
<1>1. Mesh.agent = {} /\ Mesh.command = "own"
  BY DEF Mesh, App
<1>2. ASSUME NEW d \in decided PROVE Decision(d)'
  BY <1>1, DecisionKept
<1>3. ASSUME Alike(pod') PROVE Sound(pod')
  <2>1. Alike(pod)
    BY <1>3 DEF Alike
  <2>2. Sound(pod)
    BY <2>1 DEF PodInv
  <2> QED
    BY <1>1, <2>2 DEF Sound
<1> QED
  BY <1>2, <1>3 DEF PodInv, Served

LEMMA PodLater == ASSUME PodInv, LaterWebhook PROVE PodInv'
<1>1. /\ stage' = "asked" /\ decided' = decided
      /\ pod' = [pod EXCEPT !.containers = Append(@, Mesh)] \/ pod' = Stripped(pod)
  BY DEF LaterWebhook
<1>2. Formed(pod)
  BY DEF PodInv
<1>3. CASE pod' = [pod EXCEPT !.containers = Append(@, Mesh)]
  <2>1. /\ Formed(pod') /\ Containers(pod') = Containers(pod) \cup {Mesh}
        /\ pod'.inits = pod.inits
        /\ pod'.notes = pod.notes /\ pod'.mark = pod.mark /\ pod'.volumes = pod.volumes
        /\ Authored(pod) => Authored(pod')
    BY <1>2, <1>3, MeshedIs
  <2> QED
    BY <1>1, <2>1, PodChanged
<1>4. CASE pod' = Stripped(pod)
  <2>1. /\ Formed(pod') /\ Containers(pod') = {c \in Containers(pod) : c.agent = {}}
        /\ pod'.notes = pod.notes /\ pod'.mark = pod.mark /\ pod'.volumes = pod.volumes
        /\ Authored(pod) => Authored(pod')
    BY <1>2, <1>4, StrippedIs
  <2> QED
    BY <1>1, <2>1, PodChanged
<1> QED
  BY <1>1, <1>3, <1>4

LEMMA MovedIs ==
  ASSUME NEW p, Formed(p), NEW ns
  PROVE  LET q == [p EXCEPT !.ns = ns] IN
         /\ Formed(q) /\ Containers(q) = Containers(p) /\ q.inits = p.inits
         /\ q.notes = p.notes /\ q.mark = p.mark /\ q.volumes = p.volumes
         /\ Authored(p) => Authored(q)
<1> DEFINE q == [p EXCEPT !.ns = ns]
<1>1. /\ DOMAIN q = PodFields /\ q.containers = p.containers /\ q.inits = p.inits
      /\ q.notes = p.notes /\ q.mark = p.mark /\ q.volumes = p.volumes /\ q.uid = p.uid
  BY DEF Formed, PodFields
<1> HIDE DEF q
<1>2. Containers(q) = Containers(p)
  BY <1>1 DEF Containers
<1>3. Formed(q)
  BY <1>1, <1>2 DEF Formed
<1>4. Authored(p) => Authored(q)
  BY <1>1, <1>2, <1>3 DEF Authored
<1> QED
  BY <1>1, <1>2, <1>3, <1>4 DEF q

LEMMA PodResubmit == ASSUME PodInv, Resubmit PROVE PodInv'
<1>1. stage' = "asked" /\ decided' = decided
  BY DEF Resubmit
<1>2. PICK ns \in Namespaces :
        pod' = [pod EXCEPT !.ns = ns] \/ pod' = [Stripped(pod) EXCEPT !.ns = ns]
  BY DEF Resubmit
<1>3. Formed(pod)
  BY DEF PodInv
<1>4. /\ Formed(Stripped(pod)) /\ Containers(Stripped(pod)) = {c \in Containers(pod) : c.agent = {}}
      /\ Stripped(pod).notes = pod.notes /\ Stripped(pod).mark = pod.mark
      /\ Stripped(pod).volumes = pod.volumes
      /\ Authored(pod) => Authored(Stripped(pod))
  BY <1>3, StrippedIs
<1>5. CASE pod' = [pod EXCEPT !.ns = ns]
  <2>1. /\ Formed(pod') /\ Containers(pod') = Containers(pod) /\ pod'.inits = pod.inits
        /\ pod'.notes = pod.notes /\ pod'.mark = pod.mark /\ pod'.volumes = pod.volumes
        /\ Authored(pod) => Authored(pod')
    BY <1>3, <1>5, MovedIs
  <2> QED
    BY <1>1, <2>1, PodChanged
<1>6. CASE pod' = [Stripped(pod) EXCEPT !.ns = ns]
  <2>1. /\ Formed(pod') /\ Containers(pod') = Containers(Stripped(pod))
        /\ pod'.notes = Stripped(pod).notes /\ pod'.mark = Stripped(pod).mark
        /\ pod'.volumes = Stripped(pod).volumes
        /\ Authored(Stripped(pod)) => Authored(pod')
    BY <1>4, <1>6, MovedIs
  <2>2. Containers(pod') = {c \in Containers(pod) : c.agent = {}}
    BY <1>4, <2>1
  <2> QED
    BY <1>1, <1>4, <2>1, <2>2, PodChanged
<1> QED
  BY <1>2, <1>5, <1>6

LEMMA PodNext == ClassInv /\ PodInv /\ [Next]_vars => PodInv'
<1> SUFFICES ASSUME ClassInv, PodInv, [Next]_vars PROVE PodInv'
  OBVIOUS
\* The pod is as it was, and so is what is asked of it.
<1>1. ASSUME UNCHANGED <<pod, decided>>,
             \/ UNCHANGED <<stage, skipped>>
             \/ stage' = "refused" \/ skipped'
             \/ stage = "mutated" /\ skipped' = skipped
      PROVE  PodInv'
  <2>1. Served'
    BY <1>1 DEF PodInv, Served
  <2>2. \A d \in decided : Decision(d)'
    BY <1>1 DEF PodInv, Decision
  <2> QED
    BY <1>1, <2>1, <2>2 DEF PodInv
<1>2. CASE \E s \in Scopes : Edit(s)
  BY <1>1, <1>2 DEF Edit
<1>3. CASE \E r \in Replicas : ListCluster(r) \/ ListNamespaced(r) \/ ListFails(r) \/ Rollout(r)
  BY <1>1, <1>3 DEF ListCluster, ListNamespaced, ListFails, Rollout
<1>4. CASE \E r \in Replicas : Allow(r) \/ Patch(r)
  BY <1>4, PodAllow, PodPatch
<1>5. CASE \E r \in Replicas : Refuse(r)
  BY <1>1, <1>5 DEF Refuse
<1>6. CASE Skip \/ Persist
  BY <1>1, <1>6 DEF Skip, Persist
<1>7. CASE LaterWebhook \/ Resubmit
  BY <1>7, PodLater, PodResubmit
<1>8. CASE UNCHANGED vars
  BY <1>1, <1>8 DEF vars
<1> QED
  BY <1>2, <1>3, <1>4, <1>5, <1>6, <1>7, <1>8 DEF Next

\* The invariants of all.
CallInv ==
  /\ stage \in {"asked", "mutated", "refused", "stored", "rejected"}
  /\ skipped \in BOOLEAN /\ budget \in 0..Budget

LEMMA CallNext == CallInv /\ [Next]_vars => CallInv'
<1> SUFFICES ASSUME CallInv, [Next]_vars PROVE CallInv'
  OBVIOUS
<1>1. Spend => budget' \in 0..Budget
  BY BudgetAssumption DEF Spend, CallInv
<1>2. CASE \E s \in Scopes : Edit(s)
  BY <1>1, <1>2 DEF Edit, CallInv
<1>3. CASE \E r \in Replicas : ListCluster(r) \/ ListNamespaced(r) \/ ListFails(r) \/ Rollout(r)
  BY <1>1, <1>3 DEF ListCluster, ListNamespaced, ListFails, Rollout, CallInv
<1>4. CASE \E r \in Replicas : Allow(r) \/ Patch(r) \/ Refuse(r)
  BY <1>4 DEF Allow, Patch, Refuse, CallInv
<1>5. CASE Skip \/ LaterWebhook \/ Persist \/ Resubmit
  BY <1>1, <1>5 DEF Skip, LaterWebhook, Persist, Resubmit, CallInv
<1>6. CASE UNCHANGED vars
  BY <1>6 DEF vars, CallInv
<1> QED
  BY <1>2, <1>3, <1>4, <1>5, <1>6 DEF Next

Inv == CacheInv /\ ClassInv /\ PodInv /\ CallInv

LEMMA Invariant == Spec => []Inv
<1>1. Init => CallInv
  <2> SUFFICES ASSUME Init PROVE CallInv
    OBVIOUS
  <2>1. stage = "asked" /\ skipped = FALSE
    BY DEF Init
  <2>2. budget = Budget \/ budget = 0
    BY DEF Init
  <2>3. budget \in 0..Budget
    BY <2>2, BudgetAssumption
  <2> QED
    BY <2>1, <2>3, Zenon DEF CallInv
<1>2. Init => Inv
  BY <1>1, CacheInit, ClassInit, PodInit DEF Inv
<1>3. Inv /\ [Next]_vars => Inv'
  BY CacheNext, ClassNext, PodNext, CallNext DEF Inv
<1> QED
  BY <1>2, <1>3, PTL DEF Spec

-----------------------------------------------------------------------------
(* What follows.                                                            *)

LEMMA ConcatLength ==
  ASSUME NEW S, NEW s \in Seq(S), NEW t \in Seq(S)
  PROVE  /\ Len(s \o t) = Len(s) + Len(t) /\ Len(s) + Len(t) \in Nat
         /\ DOMAIN (s \o t) = 1..(Len(s) + Len(t))
  OBVIOUS

\* Where a name is used once there is one container of it.
LEMMA DistinctAlike == ASSUME NEW p, Formed(p), Distinct(p) PROVE Alike(p)
<1> DEFINE all == p.containers \o p.inits
           size == Len(p.containers) + Len(p.inits)
<1>1. p.containers \in Seq(Containers(p)) /\ p.inits \in Seq(Containers(p))
  BY DEF Formed
<1>2. all \in Seq(Containers(p)) /\ ToSet(all) = Containers(p)
  BY <1>1, ConcatRange DEF Containers
<1>3. Len(all) = size /\ size \in Nat /\ DOMAIN all = 1..size
  BY <1>1, ConcatLength, Zenon
<1>4. Names(p) = [n \in 1..size |-> all[n].name]
  BY DEF Names
<1>5. \A m, n \in 1..size : Names(p)[m] = Names(p)[n] => m = n
  BY <1>4 DEF Distinct, IsInjective
<1> HIDE DEF all, size
<1>6. \A m, n \in 1..size : all[m].name = all[n].name => m = n
  BY <1>4, <1>5
<1>7. \A c \in Containers(p) : \E n \in 1..size : c = all[n]
  BY <1>2, <1>3 DEF ToSet
<1> QED
  BY <1>6, <1>7 DEF Alike

\* Every variable has its type, whatever is edited, polled and rolled out,
\* and no command is wrapped twice.
THEOREM AdmissionTyped == Spec => []TypeOK
<1>1. Inv => TypeOK
  <2> SUFFICES ASSUME Inv PROVE TypeOK
    OBVIOUS
  <2>1. Distinct(pod) => \A c \in Containers(pod) : c.command \in {"image", "own", "wrapped"}
    BY DistinctAlike DEF Inv, PodInv, Sound
  <2>2. /\ stage \in {"asked", "mutated", "refused", "stored", "rejected"}
        /\ skipped \in BOOLEAN /\ budget \in 0..Budget
    BY DEF Inv, CallInv
  <2>3. CacheInv /\ ClassInv
    BY DEF Inv
  <2> QED
    BY <2>1, <2>2, <2>3, ClassesTyped, Zenon DEF TypeOK
<1> QED
  BY <1>1, Invariant, PTL

\* A pod that asks for its configuration, or says that it has it, has an
\* agent when it comes to exist, unless a call went unanswered.
THEOREM NotSilently == Spec => []NeverSilentlyWithout
<1>1. Inv => NeverSilentlyWithout
  BY DEF Inv, PodInv, Served, NeverSilentlyWithout
<1> QED
  BY <1>1, Invariant, PTL

\* An agent of a pod is one of its decision, for one of the pod's renders.
LEMMA AgentOf ==
  ASSUME Inv, NEW d \in decided, NEW c \in Containers(pod), NEW a \in c.agent
  PROVE  LET p == d.pod  i == d.install IN
         /\ Authored(p) /\ Formed(p) /\ i \in Startable /\ Option(i.source)
         /\ Patchable(p, i) /\ Accepted(p, i) /\ GatesKept(p, i)
         /\ a.render \in Renders(p) /\ a.watch \in BOOLEAN
         /\ c.uid = {User(p, i)} /\ c.agent = {a}
         /\ a.args = Args(p, i, a.render, a.watch) /\ a.env = Env(p, i, a.render)
         /\ a.mounts = Mounts(p, i, a.render) /\ a.group = Group(p, i)
         /\ a.resources = Resources(p, i)
<1> DEFINE p == d.pod
           i == d.install
<1>1. Decision(d)
  BY DEF Inv, PodInv
<1>2. /\ Authored(p) /\ Formed(p) /\ i \in Startable
      /\ Patchable(p, i) /\ Accepted(p, i) /\ GatesKept(p, i)
  BY <1>1 DEF Decision, Authored, Patchable
<1>3. Option(i.source)
  BY <1>2, InstallsAssumption DEF Startable
<1>4. c \in AgentsOf(p, i)
  BY <1>1 DEF Decision
<1> HIDE DEF p, i
<1>5. PICK r \in Renders(p), watch \in BOOLEAN : c = Agent(p, i, r, watch)
  BY <1>4 DEF AgentsOf
<1>6. /\ c.uid = {User(p, i)}
      /\ c.agent = {[render |-> r, watch |-> watch, args |-> Args(p, i, r, watch),
                     env |-> Env(p, i, r), mounts |-> Mounts(p, i, r),
                     group |-> Group(p, i), resources |-> Resources(p, i)]}
  BY <1>5, AgentIs
<1>7. a = [render |-> r, watch |-> watch, args |-> Args(p, i, r, watch),
           env |-> Env(p, i, r), mounts |-> Mounts(p, i, r),
           group |-> Group(p, i), resources |-> Resources(p, i)]
  BY <1>6
<1>8. /\ a.render = r /\ a.watch = watch /\ a.args = Args(p, i, r, watch)
      /\ a.env = Env(p, i, r) /\ a.mounts = Mounts(p, i, r) /\ a.group = Group(p, i)
      /\ a.resources = Resources(p, i)
  BY <1>7
<1>9. c.agent = {a}
  BY <1>6, <1>7
<1> QED
  BY <1>2, <1>3, <1>5, <1>6, <1>8, <1>9 DEF p, i

\* No agent reads a store that its namespace was denied or not given.
THEOREM GatesHeld == Spec => []GatesHold
<1>1. ASSUME Inv, NEW d \in decided, NEW a \in Added
      PROVE  LET i == d.install  source == a.args["source"] IN
             /\ {<<"*", source>>, <<d.pod.ns, source>>} \cap i.sourceDeny = {}
             /\ i.sourceAllow # {} => {<<"*", source>>, <<d.pod.ns, source>>} \cap i.sourceAllow # {}
  <2> DEFINE p == d.pod
             i == d.install
             source == a.args["source"]
  <2>1. PICK c \in Containers(pod) : a \in c.agent
    BY DEF Added
  <2>2. /\ Accepted(p, i) /\ GatesKept(p, i) /\ a.render \in Renders(p)
        /\ a.args = Args(p, i, a.render, a.watch)
    BY <1>1, <2>1, AgentOf
  <2>3. source \in Store(p, i, a.render)
    <3>1. Passed(p, i, a.render, a.watch, "source") = Store(p, i, a.render)
      BY StorePassed
    <3>2. Store(p, i, a.render) # {}
      BY <2>2 DEF Accepted, RenderKept, Complete
    <3>3. source = Only(Store(p, i, a.render))
      BY <2>2, <3>1, <3>2, ArgIs, FlagsHas
    <3> QED
      BY <3>2, <3>3 DEF Only
  <2> HIDE DEF p, i, source
  <2>4. ~SourceDenied(i, p.ns, source) /\ SourceAllowed(i, p.ns, source)
    BY <2>2, <2>3 DEF GatesKept
  <2> QED
    BY <2>4 DEF SourceDenied, SourceAllowed, Allows, p, i, source
<1>2. Inv => GatesHold
  BY <1>1 DEF GatesHold
<1> QED
  BY <1>2, Invariant, PTL

\* An agent of a stored pod starts, but for what the webhook leaves to it.
THEOREM AgentsStart == Spec => []AgentStarts
<1>1. ASSUME Inv, NEW c \in Containers(pod), NEW a \in c.agent
      PROVE  /\ a.mounts \subseteq pod.volumes
             /\ \A f \in Files : f[1] \in DOMAIN a.args => <<f[2], a.render>> \in a.mounts
             /\ c.uid # {"0"}
             /\ Complaints(a.args, a.env) \subseteq LeftToTheAgent
  <2>1. PICK d : d \in decided
    BY <1>1 DEF Inv, PodInv, Authored
  <2> DEFINE p == d.pod
             i == d.install
             r == a.render
  <2>2. /\ Authored(p) /\ Formed(p) /\ i \in Startable /\ Option(i.source) /\ Accepted(p, i)
        /\ r \in Renders(p) /\ a.watch \in BOOLEAN /\ c.uid = {User(p, i)}
        /\ a.args = Args(p, i, r, a.watch) /\ a.env = Env(p, i, r) /\ a.mounts = Mounts(p, i, r)
    BY <1>1, <2>1, AgentOf
  <2>3. Volumes(p, i) \subseteq pod.volumes
    BY <1>1, <2>1 DEF Inv, PodInv, Decision
  <2> HIDE DEF p, i, r
  <2>4. Starts(i) /\ FormsKept(p) /\ IdentityKept(p) /\ RenderKept(p, i, r) /\ p.containers # <<>>
    BY <2>2 DEF Startable, Accepted, Authored
  <2>5. a.mounts \subseteq pod.volumes
    BY <2>2, <2>3, AgentMounts
  <2>6. \A f \in Files : f[1] \in DOMAIN a.args => <<f[2], r>> \in a.mounts
    <3>1. /\ "ca" \in DOMAIN a.args => <<"ca", r>> \in a.mounts
          /\ "ssh-key" \in DOMAIN a.args => <<"ssh", r>> \in a.mounts
          /\ "tls-cert" \in DOMAIN a.args => <<"client-tls", r>> \in a.mounts
          /\ "template" \in DOMAIN a.args => <<"template", r>> \in a.mounts
          /\ "schema" \in DOMAIN a.args => <<"schema", r>> \in a.mounts
          /\ "canary-configmap" \in DOMAIN a.args => <<"canary", r>> \in a.mounts
      BY <2>2, AgentMounts
    <3> QED
      BY <3>1 DEF Files
  <2>7. c.uid # {"0"}
    BY <2>2, <2>4, AgentNotRoot
  <2>8. Complaints(a.args, a.env) \subseteq LeftToTheAgent
    BY <2>2, <2>4, AgentComplains
  <2> QED
    BY <2>5, <2>6, <2>7, <2>8 DEF r
<1>2. Inv => AgentStarts
  BY <1>1 DEF AgentStarts
<1> QED
  BY <1>2, Invariant, PTL

\* RunsWith, key by key.
LEMMA RunsWithIs ==
  ASSUME NEW c, NEW a, NEW key,
         DOMAIN a.resources = {"agent-cpu-request", "agent-memory-request", "agent-cpu-limit",
                               "agent-memory-limit"}
  PROVE  /\ key \in DOMAIN a.resources => RunsWith(c, a, key) = a.resources[key]
         /\ key = "mode" => RunsWith(c, a, key) = {ModeOf({b.watch : b \in Added})}
         /\ key = "native-sidecar" =>
              RunsWith(c, a, key) = {IF c \in ToSet(pod.inits) THEN "true" ELSE "false"}
         /\ key = "volume-medium" =>
              RunsWith(c, a, key) = {m \in {"memory", "disk"} : Lies(m) \in pod.volumes}
         /\ key = "agent-run-as-user" => RunsWith(c, a, key) = c.uid
         /\ key = "agent-run-as-group" => RunsWith(c, a, key) = {a.group}
         /\ key = "watch-seconds" => RunsWith(c, a, key) = Given(a.args, "watch")
         /\ key = "metrics-port" => RunsWith(c, a, key) = Else(Given(a.args, "metrics"), {"0"})
         /\ key \in {"token-secret", "password-secret", "endpoint-secret"} =>
              RunsWith(c, a, key) = Variable(a.env, key)
         /\ key = "aws-secret" =>
              RunsWith(c, a, key) = UNION {Variable(a.env, name) : name \in Aws}
         /\ key = "template" => RunsWith(c, a, key) = Given(a.args, "template-inline")
         /\ key = "template-configmap" => RunsWith(c, a, key) = Given(a.args, "template")
         /\ key = "ca-configmap" => RunsWith(c, a, key) = Given(a.args, "ca")
         /\ key = "tls-secret" => RunsWith(c, a, key) = Given(a.args, "tls-cert")
         /\ key = "ssh-secret" => RunsWith(c, a, key) = Given(a.args, "ssh-key")
         /\ key \in {"endpoint", "auth", "section", "auth-mount", "auth-role", "auth-username",
                     "auth-token-path", "namespace", "ref", "api-url", "file-mode", "key", "path",
                     "source"}
              => RunsWith(c, a, key) = Given(a.args, key)
  BY DEF RunsWith

\* Whose a key is.
LEMMA HeldIs ==
  ASSUME NEW a, NEW key \in Held(a)
  PROVE  /\ \/ key \in {"agent-cpu-request", "agent-memory-request", "agent-cpu-limit",
                        "agent-memory-limit", "agent-run-as-user", "agent-run-as-group"}
            \/ key \in {"mode", "volume-medium", "native-sidecar"}
            \/ key \in {"watch-seconds", "metrics-port"}
            \/ key \in {"token-secret", "password-secret", "endpoint-secret"}
            \/ key \in {"aws-secret", "source"}
            \/ key \in {"endpoint", "template", "template-configmap", "ca-configmap", "tls-secret",
                        "ssh-secret", "auth", "section", "auth-mount", "auth-role", "auth-username",
                        "auth-token-path", "namespace", "ref", "api-url", "file-mode", "key", "path"}
         /\ key \in {"watch-seconds", "metrics-port", "native-sidecar"} => a.watch
         /\ key = "source" => a.render = Main
         /\ key \notin Own(a.render)
         /\ key = "agent-run-as-user" => ~On(pod, "agent-run-as-same-user")
         /\ \A e \in a.env : e[1] = key => e[2] \notin {"pod", "fleet"}
<1>1. key \in {"source"} \cup FleetKnobs \cup StoreStrings
  BY DEF Held
<1>2. a.render # Main => key \notin Own(a.render) /\ key # "source"
  BY DEF Held
<1>3. Own(Main) = {}
  BY DEF Own
<1>4. ~a.watch => key \notin {"watch-seconds", "metrics-port", "native-sidecar"}
  BY DEF Held
<1>5. key = "agent-run-as-user" => ~On(pod, "agent-run-as-same-user")
  BY DEF Held
<1>6. \A e \in a.env : e[1] = key => e[2] \notin {"pod", "fleet"}
  BY DEF Held
<1>7. key \in FleetKnobs \cup StoreStrings =>
        key \in {"agent-cpu-request", "agent-memory-request", "agent-cpu-limit",
                 "agent-memory-limit", "agent-run-as-user", "agent-run-as-group", "watch-seconds",
                 "metrics-port", "token-secret", "password-secret", "endpoint-secret", "aws-secret",
                 "endpoint", "template", "template-configmap", "ca-configmap", "tls-secret",
                 "ssh-secret", "auth", "section", "auth-mount", "auth-role", "auth-username",
                 "auth-token-path", "namespace", "ref", "api-url", "file-mode", "key", "path",
                 "mode", "volume-medium", "native-sidecar"}
  BY DEF FleetKnobs, StoreStrings
<1> QED
  BY <1>1, <1>2, <1>3, <1>4, <1>5, <1>6, <1>7

\* The agents of a pod are of the kinds that its mode has.
LEMMA ModeRuns ==
  ASSUME Inv, NEW d \in decided, NEW c \in Containers(pod), NEW a \in c.agent,
         Mode(d.pod, d.install) \in {"init", "sidecar", "both"}
  PROVE  ModeOf({b.watch : b \in Added}) = Mode(d.pod, d.install)
<1> DEFINE p == d.pod
           i == d.install
           ways == {b.watch : b \in Added}
           mode == Mode(p, i)
<1>1. Arranged(pod, p, i)
  BY DEF Inv, PodInv, Decision
<1>2. ASSUME NEW b \in Added
      PROVE  \/ b.watch = TRUE /\ mode # "init"
             \/ b.watch = FALSE /\ mode # "sidecar"
  <2>1. PICK e \in Containers(pod) : b \in e.agent
    BY <1>2 DEF Added
  <2>2. b.watch \in BOOLEAN
    BY <2>1, AgentOf
  <2>3. (b.watch => mode # "init") /\ (~b.watch => mode # "sidecar")
    BY <1>1, <2>1 DEF Arranged
  <2> QED
    BY <2>2, <2>3
<1>3. ASSUME NEW watch, Agent(p, i, Main, watch) \in Containers(pod) PROVE watch \in ways
  <2> DEFINE b == [render |-> Main, watch |-> watch, args |-> Args(p, i, Main, watch),
                   env |-> Env(p, i, Main), mounts |-> Mounts(p, i, Main),
                   group |-> Group(p, i), resources |-> Resources(p, i)]
  <2>1. b \in Agent(p, i, Main, watch).agent
    BY AgentIs
  <2>2. b.watch = watch
    OBVIOUS
  <2> HIDE DEF b
  <2>3. b \in Added
    BY <1>3, <2>1 DEF Added
  <2> QED
    BY <2>2, <2>3
<1>4. /\ mode # "sidecar" => Agent(p, i, Main, FALSE) \in Containers(pod)
      /\ mode # "init" => Agent(p, i, Main, TRUE) \in Containers(pod)
  BY <1>1 DEF Arranged
<1>5. (mode # "sidecar" => FALSE \in ways) /\ (mode # "init" => TRUE \in ways)
  BY <1>3, <1>4
<1>6. ASSUME NEW w \in ways PROVE (w = TRUE /\ mode # "init") \/ (w = FALSE /\ mode # "sidecar")
  BY <1>2, <1>6
<1> HIDE DEF ways
<1>7. CASE mode = "sidecar"
  <2>1. ways = {TRUE}
    BY <1>5, <1>6, <1>7
  <2> QED
    BY <1>7, <2>1 DEF ModeOf, ways
<1>8. CASE mode = "init"
  <2>1. ways = {FALSE}
    BY <1>5, <1>6, <1>8
  <2>2. ways # {TRUE}
    BY <2>1
  <2> QED
    BY <1>8, <2>1, <2>2 DEF ModeOf, ways
<1>9. CASE mode = "both"
  <2>1. ways # {TRUE} /\ ways # {FALSE}
    BY <1>5, <1>9
  <2> QED
    BY <1>9, <2>1 DEF ModeOf, ways
<1> QED
  BY <1>7, <1>8, <1>9

LEMMA PinHolds ==
  ASSUME Inv, NEW d \in decided, NEW c \in Containers(pod), NEW a \in c.agent, NEW key \in Held(a),
         NEW s \in Supplies(d, a, key), s.pinned
  PROVE  RunsWith(c, a, key) = {s.value}
<1> DEFINE p == d.pod
           i == d.install
           r == a.render
           w == a.watch
           fleets == PodsOwn
<1>1. /\ i \in Startable /\ Option(i.source) /\ Accepted(p, i) /\ r \in Renders(p) /\ w \in BOOLEAN
      /\ c.uid = {User(p, i)} /\ a.args = Args(p, i, r, w) /\ a.env = Env(p, i, r)
      /\ a.group = Group(p, i) /\ a.resources = Resources(p, i)
  BY AgentOf
<1>2. On(pod, "agent-run-as-same-user") <=> On(p, "agent-run-as-same-user")
  BY DEF Inv, PodInv, Decision
<1>3. key \in fleets /\ key # "source" => s \in Supplied(i, Store(p, i, Main), key)
  BY DEF Supplies
<1>4. key \notin fleets /\ key # "source" => s \in Supplied(i, Store(p, i, r), key)
  BY DEF Supplies
<1>20. key = "source" => s \in SuppliedSource(i)
  BY DEF Supplies
<1>5. /\ \/ key \in {"agent-cpu-request", "agent-memory-request", "agent-cpu-limit",
                     "agent-memory-limit", "agent-run-as-user", "agent-run-as-group"}
         \/ key \in {"mode", "volume-medium", "native-sidecar"}
         \/ key \in {"watch-seconds", "metrics-port"}
         \/ key \in {"token-secret", "password-secret", "endpoint-secret"}
         \/ key \in {"aws-secret", "source"}
         \/ key \in {"endpoint", "template", "template-configmap", "ca-configmap", "tls-secret",
                     "ssh-secret", "auth", "section", "auth-mount", "auth-role", "auth-username",
                     "auth-token-path", "namespace", "ref", "api-url", "file-mode", "key", "path"}
      /\ key \in {"watch-seconds", "metrics-port", "native-sidecar"} => w
      /\ key = "source" => r = Main
      /\ key \notin Own(r)
      /\ key = "agent-run-as-user" => ~On(pod, "agent-run-as-same-user")
      /\ \A e \in a.env : e[1] = key => e[2] \notin {"pod", "fleet"}
  BY HeldIs
<1> HIDE DEF p, i, r, w
<1>6. PinsKept(p, i, Main) /\ PinsKept(p, i, r) /\ AwsKept(p, i) /\ SourceKept(p, i) /\ FormsKept(p)
  <2>1. Main \in Renders(p)
    BY DEF Renders
  <2> QED
    BY <1>1, <2>1 DEF Accepted, RenderKept
<1>7. key \in fleets /\ key # "source" => s \in Default(p, i, Main, key)
  BY <1>3 DEF Default, Own
<1>8. key \notin fleets /\ key # "source" => s \in Default(p, i, r, key)
  BY <1>4, <1>5 DEF Default
<1>9. DOMAIN a.resources = {"agent-cpu-request", "agent-memory-request", "agent-cpu-limit",
                            "agent-memory-limit"}
  BY <1>1 DEF Resources
<1>17. Option(i.source) /\ PinsKept(p, i, r) /\ s.pinned
  BY <1>1, <1>6
<1>10. CASE key \in {"agent-cpu-request", "agent-memory-request", "agent-cpu-limit",
                     "agent-memory-limit"}
  <2>1. key \in fleets
    BY <1>10 DEF PodsOwn, FleetKnobs
  <2>2. Resources(p, i)[key] = {s.value}
    BY <1>1, <1>6, <1>7, <1>9, <1>10, <2>1, PinnedPod
  <2> QED
    BY <1>1, <1>9, <1>10, <2>2, RunsWithIs
<1>11. CASE key \in {"agent-run-as-user", "agent-run-as-group"}
  <2>1. key \in fleets
    BY <1>11 DEF PodsOwn, FleetKnobs
  <2>2. s \in Default(p, i, Main, key)
    BY <1>7, <1>11, <2>1
  <2>3. /\ key = "agent-run-as-user" => User(p, i) = s.value
        /\ key = "agent-run-as-group" => Group(p, i) = s.value
    BY <1>1, <1>2, <1>5, <1>6, <2>2, PinnedPod
  <2>4. /\ key = "agent-run-as-user" => RunsWith(c, a, key) = c.uid
        /\ key = "agent-run-as-group" => RunsWith(c, a, key) = {a.group}
    BY <1>9, RunsWithIs
  <2> QED
    BY <1>1, <1>11, <2>3, <2>4
<1>12. CASE key \in {"watch-seconds", "metrics-port"}
  <2>1. s \in Default(p, i, r, key)
    <3>1. CASE key = "watch-seconds"
      <4>1. key \notin fleets
        BY <3>1 DEF PodsOwn
      <4> QED
        BY <1>8, <3>1, <4>1
    <3>2. CASE key = "metrics-port"
      <4>1. r = Main
        BY <1>5, <3>2 DEF Own
      <4>2. key \in fleets
        BY <3>2 DEF PodsOwn, FleetKnobs
      <4> QED
        BY <1>7, <3>2, <4>1, <4>2
    <3> QED
      BY <1>12, <3>1, <3>2
  <2>2. /\ key = "watch-seconds" => Given(a.args, "watch") = {s.value}
        /\ key = "metrics-port" => Else(Given(a.args, "metrics"), {"0"}) = {s.value}
    <3>1. w \in BOOLEAN
      BY <1>1
    <3>2. w => WatchSays(Args(p, i, r, w), key, s.value)
      BY <1>17, <2>1, <3>1, PinnedWatch
    <3> QED
      BY <1>1, <1>5, <1>12, <3>2 DEF WatchSays
  <2>3. /\ key = "watch-seconds" => RunsWith(c, a, key) = Given(a.args, "watch")
        /\ key = "metrics-port" => RunsWith(c, a, key) = Else(Given(a.args, "metrics"), {"0"})
    BY <1>9, RunsWithIs
  <2> QED
    BY <1>12, <2>2, <2>3
<1>13. CASE key \in {"token-secret", "password-secret", "endpoint-secret"}
  <2>1. key \notin fleets
    BY <1>13 DEF PodsOwn, FleetKnobs
  <2>2. s \in Default(p, i, r, key)
    BY <1>8, <1>13, <2>1
  <2>3. \A e \in Env(p, i, r) : e[1] = key => e[2] \notin {"pod", "fleet"}
    BY <1>1, <1>5
  <2>4. Variable(Env(p, i, r), key) = {s.value}
    BY <1>17, <1>13, <2>2, <2>3, PinnedSecret
  <2>5. RunsWith(c, a, key) = Variable(a.env, key)
    BY <1>9, <1>13, RunsWithIs
  <2> QED
    BY <1>1, <2>4, <2>5
<1>14. CASE key = "aws-secret"
  <2>1. key \in fleets
    BY <1>14 DEF PodsOwn
  <2>2. s \in Default(p, i, Main, "aws-secret")
    BY <1>7, <1>14, <2>1
  <2>3. UNION {Variable(Env(p, i, r), name) : name \in Aws} = {s.value}
    BY <1>1, <1>6, <1>17, <2>2, PinnedAws
  <2>4. RunsWith(c, a, key) = UNION {Variable(a.env, name) : name \in Aws}
    BY <1>9, <1>14, RunsWithIs
  <2> QED
    BY <1>1, <2>3, <2>4
<1>16. CASE key = "source"
  <2>1. Given(Args(p, i, Main, w), "source") = {s.value}
    BY <1>1, <1>6, <1>16, <1>17, <1>20, PinnedSource
  <2>2. RunsWith(c, a, key) = Given(a.args, "source")
    BY <1>9, <1>16, RunsWithIs
  <2> QED
    BY <1>1, <1>5, <1>16, <2>1, <2>2
<1>18. CASE key \in {"mode", "volume-medium", "native-sidecar"}
  <2>1. key \in fleets
    BY <1>18 DEF PodsOwn, FleetKnobs
  <2>2. s \in Default(p, i, Main, key)
    BY <1>7, <1>18, <2>1
  <2>3. /\ key = "mode" => Mode(p, i) = s.value
        /\ key = "native-sidecar" => (Native(p, i) <=> s.value = "true")
        /\ key = "volume-medium" => (InMemory(p, i) <=> s.value # "disk")
    BY <1>6, <1>17, <2>2, PinnedPod
  <2>4. Resolved(p, i, Main, key) = {s.value}
    BY <1>6, <1>17, <1>18, <2>2, PinResolves DEF PodWide
  <2>5. WellFormed(key, s.value)
    <3>1. Starts(i) /\ key \notin {"timeout", "tls-reload"} /\ s.value \in Resolved(p, i, Main, key)
      BY <1>1, <1>18, <2>4 DEF Startable
    <3> QED
      BY <1>6, <3>1, ResolvedFormed
  <2>6. /\ key = "mode" => s.value \in {"init", "sidecar", "both"}
        /\ key = "native-sidecar" => s.value \in {"true", "false"}
        /\ key = "volume-medium" => s.value \in {"memory", "disk"}
    BY <2>5 DEF WellFormed, Offered, Switches
  <2>7. Arranged(pod, p, i)
    BY DEF Inv, PodInv, Decision, p, i
  <2>8. CASE key = "mode"
    <3>1. ModeOf({b.watch : b \in Added}) = s.value
      BY <2>3, <2>6, <2>8, ModeRuns DEF p, i
    <3> QED
      BY <1>9, <2>8, <3>1, RunsWithIs
  <2>9. CASE key = "native-sidecar"
    <3>1. c \in ToSet(pod.inits) <=> s.value = "true"
      BY <1>5, <2>3, <2>7, <2>9 DEF Arranged, w
    <3>2. (IF c \in ToSet(pod.inits) THEN "true" ELSE "false") = s.value
      BY <2>6, <2>9, <3>1
    <3> QED
      BY <1>9, <2>9, <3>2, RunsWithIs
  <2>10. CASE key = "volume-medium"
    <3>1. \A m \in {"memory", "disk"} : Lies(m) \in pod.volumes <=> m = s.value
      BY <2>3, <2>6, <2>7, <2>10 DEF Arranged
    <3>2. {m \in {"memory", "disk"} : Lies(m) \in pod.volumes} = {s.value}
      BY <2>6, <2>10, <3>1
    <3> QED
      BY <1>9, <2>10, <3>2, RunsWithIs
  <2> QED
    BY <1>18, <2>8, <2>9, <2>10
<1>15. CASE key \in {"endpoint", "template", "template-configmap", "ca-configmap", "tls-secret",
                     "ssh-secret", "auth", "section", "auth-mount", "auth-role", "auth-username",
                     "auth-token-path", "namespace", "ref", "api-url", "file-mode", "key", "path"}
  <2>1. key \notin fleets
    BY <1>15 DEF PodsOwn, FleetKnobs
  <2>2. s \in Default(p, i, r, key)
    BY <1>8, <1>15, <2>1
  <2>3. StoreSays(Args(p, i, r, w), key, s.value)
    BY <1>17, <2>2, PinnedStore
  <2>4. StoreSays(a.args, key, s.value)
    BY <1>1, <2>3
  <2>5. CASE key \in {"template", "template-configmap", "ca-configmap", "tls-secret", "ssh-secret"}
    BY <1>9, <2>4, <2>5, RunsWithIs DEF StoreSays
  <2>6. CASE key \in {"endpoint", "auth", "section", "auth-mount", "auth-role", "auth-username",
                      "auth-token-path", "namespace", "ref", "api-url", "file-mode", "key", "path"}
    <3>1. RunsWith(c, a, key) = Given(a.args, key)
      BY <1>9, <2>6, RunsWithIs
    <3> QED
      BY <2>4, <2>6, <3>1 DEF StoreSays
  <2> QED
    BY <1>15, <2>5, <2>6
<1> QED
  BY <1>5, <1>10, <1>11, <1>12, <1>13, <1>14, <1>15, <1>16, <1>18

\* A value that the installation pinned is what every agent runs with,
\* whatever the pod, its class and its other renders say: the store that the
\* default render reads among them, and with it the tier that answers.
THEOREM PinsHeld == Spec => []PinsHold
<1>1. Inv => PinsHold
  BY PinHolds DEF PinsHold
<1> QED
  BY <1>1, Invariant, PTL

-----------------------------------------------------------------------------
(* A call on a pod that was patched before.                                 *)

LEMMA OnceStep ==
  ASSUME Formed(pod), [Next]_vars, stage = "asked", pod.mark = Injected, AlreadyInjected(pod),
         stage' # stage
  PROVE  stage' = "mutated" /\ pod' = pod
<1>1. ASSUME NEW r \in Replicas PROVE LetThrough(Filled(r)) /\ ~ClassRefused(r)
  <2>1. Containers(Filled(r)) = Containers(pod) /\ Filled(r).mark = Injected
    BY FilledIs
  <2>2. AlreadyInjected(Filled(r))
    BY <2>1 DEF AlreadyInjected
  <2> QED
    BY <2>1, <2>2 DEF LetThrough, ClassRefused, Injected
<1>2. ASSUME NEW r \in Replicas, Allow(r) PROVE stage' = "mutated" /\ pod' = pod
  BY <1>2 DEF Allow
<1>3. ASSUME NEW r \in Replicas, Patch(r) \/ Refuse(r) PROVE FALSE
  BY <1>1, <1>3 DEF Patch, Refuse
<1>4. CASE Skip
  BY <1>4 DEF Skip
<1>5. ASSUME NEW r \in Replicas, ListCluster(r) \/ ListNamespaced(r) \/ ListFails(r) \/ Rollout(r)
      PROVE FALSE
  BY <1>5 DEF ListCluster, ListNamespaced, ListFails, Rollout
<1>6. CASE (\E s \in Scopes : Edit(s)) \/ LaterWebhook \/ Persist \/ Resubmit \/ UNCHANGED vars
  BY <1>6 DEF Edit, LaterWebhook, Persist, Resubmit, vars
<1> QED
  BY <1>2, <1>3, <1>4, <1>5, <1>6 DEF Next

(* A pod is patched once: with the mark and the agent it is let through by  *)
(* every replica, whatever its class and its installation have become.      *)
THEOREM PatchedOnce == Spec => OnceOnly
<1>1. Inv => Formed(pod)
  BY DEF Inv, PodInv
<1>2. Inv /\ [Next]_vars =>
        [stage = "asked" /\ pod.mark = Injected /\ AlreadyInjected(pod) /\ stage' # stage
           => stage' = "mutated" /\ pod' = pod]_vars
  BY <1>1, OnceStep
<1> QED
  BY <1>2, Invariant, PTL DEF Spec, OnceOnly

=============================================================================
