-------------------------- MODULE InjectionProofs ---------------------------
(***************************************************************************)
(* What is proved of a single patch, for every pod, every installation and  *)
(* every render: what becomes of the pod's containers, and what the agents  *)
(* that are added are given.                                                *)
(***************************************************************************)
EXTENDS AgentSpec, FiniteSetTheorems, TLAPS

-----------------------------------------------------------------------------
(* Sequences of containers, by what is in them.                             *)

LEMMA RangeTyped ==
  ASSUME NEW S, NEW s \in Seq(S)
  PROVE  ToSet(s) \subseteq S /\ s \in Seq(ToSet(s)) /\ \A n \in 1..Len(s) : s[n] \in ToSet(s)
  <1>1. \A n \in 1..Len(s) : s[n] \in ToSet(s)
    BY DEF ToSet
  <1>2. ToSet(s) \subseteq S
    BY DEF ToSet
  <1>3. s \in Seq(ToSet(s))
    BY <1>1
  <1> QED BY <1>1, <1>2, <1>3

LEMMA SeqGrows ==
  ASSUME NEW S, NEW T, S \subseteq T, NEW s \in Seq(S)
  PROVE  s \in Seq(T)
  OBVIOUS

LEMMA ConcatRange ==
  ASSUME NEW S, NEW s \in Seq(S), NEW t \in Seq(S)
  PROVE  s \o t \in Seq(S) /\ ToSet(s \o t) = ToSet(s) \cup ToSet(t)
  <1>1. s \o t \in Seq(S) /\ Len(s \o t) = Len(s) + Len(t)
    OBVIOUS
  <1>2. ASSUME NEW c \in ToSet(s \o t) PROVE c \in ToSet(s) \cup ToSet(t)
    <2>1. PICK n \in 1..(Len(s) + Len(t)) : c = (s \o t)[n]
      BY <1>1 DEF ToSet
    <2>2. CASE n \in 1..Len(s)
      BY <2>1, <2>2 DEF ToSet
    <2>3. CASE n \notin 1..Len(s)
      <3>1. n - Len(s) \in 1..Len(t) /\ c = t[n - Len(s)]
        BY <2>1, <2>3
      <3> QED BY <3>1 DEF ToSet
    <2> QED BY <2>2, <2>3
  <1>3. ASSUME NEW c \in ToSet(s) PROVE c \in ToSet(s \o t)
    <2>1. PICK n \in 1..Len(s) : c = s[n]
      BY DEF ToSet
    <2>2. n \in DOMAIN (s \o t) /\ (s \o t)[n] = c
      BY <1>1, <2>1
    <2> QED BY <2>2 DEF ToSet
  <1>4. ASSUME NEW c \in ToSet(t) PROVE c \in ToSet(s \o t)
    <2>1. PICK n \in 1..Len(t) : c = t[n]
      BY DEF ToSet
    <2>2. Len(s) + n \in DOMAIN (s \o t) /\ (s \o t)[Len(s) + n] = c
      BY <1>1, <2>1
    <2> QED BY <2>2 DEF ToSet
  <1> QED BY <1>1, <1>2, <1>3, <1>4

LEMMA AppendRange ==
  ASSUME NEW S, NEW s \in Seq(S), NEW e \in S
  PROVE  Append(s, e) \in Seq(S) /\ ToSet(Append(s, e)) = ToSet(s) \cup {e}
  <1> DEFINE one == <<e>>
  <1>1. Append(s, e) = s \o one /\ one \in Seq(S)
    OBVIOUS
  <1>2. ToSet(one) = {e}
    <2>1. DOMAIN one = 1..1 /\ one[1] = e
      OBVIOUS
    <2>2. 1..1 = {1}
      OBVIOUS
    <2> QED BY <2>1, <2>2 DEF ToSet
  <1> HIDE DEF one
  <1>3. s \o one \in Seq(S) /\ ToSet(s \o one) = ToSet(s) \cup ToSet(one)
    BY <1>1, ConcatRange
  <1> QED BY <1>1, <1>2, <1>3, Zenon

LEMMA EmptyRange == ToSet(<<>>) = {}
  BY DEF ToSet

LEMMA EndsRange ==
  ASSUME NEW S, NEW s \in Seq(S), s # <<>>
  PROVE  /\ <<Head(s)>> \in Seq(S) /\ Tail(s) \in Seq(S)
         /\ ToSet(<<Head(s)>>) = {s[1]} /\ ToSet(Tail(s)) \subseteq ToSet(s) /\ s[1] \in ToSet(s)
  <1>1. Head(s) = s[1] /\ s[1] \in S /\ Len(s) \in Nat \ {0} /\ Tail(s) \in Seq(S)
    OBVIOUS
  <1>2. ToSet(<<Head(s)>>) = {s[1]}
    BY <1>1 DEF ToSet
  <1>3. ASSUME NEW c \in ToSet(Tail(s)) PROVE c \in ToSet(s)
    <2>1. PICK n \in 1..(Len(s) - 1) : c = Tail(s)[n]
      BY <1>1 DEF ToSet
    <2>2. c = s[n + 1] /\ n + 1 \in 1..Len(s)
      BY <1>1, <2>1
    <2> QED BY <2>2 DEF ToSet
  <1>4. s[1] \in ToSet(s)
    BY <1>1 DEF ToSet
  <1> QED BY <1>1, <1>2, <1>3, <1>4

-----------------------------------------------------------------------------
(* The agents of a patch.                                                   *)

LEMMA SetToSeqIs ==
  ASSUME NEW S, IsFiniteSet(S)
  PROVE  SetToSeq(S) \in [1..Cardinality(S) -> S] /\ Cardinality(S) \in Nat
  <1>1. Cardinality(S) \in Nat
    BY FS_CardinalityType
  <1>2. PICK f : f \in Bijection(1..Cardinality(S), S)
    BY FS_CardinalityType DEF ExistsBijection
  <1>3. f \in [1..Cardinality(S) -> S] /\ IsInjective(f)
    BY <1>2 DEF Bijection, Injection, IsInjective
  <1> QED BY <1>1, <1>3 DEF SetToSeq

\* Among the places that are kept, there is one for every rank.
LEMMA RankTaken ==
  ASSUME NEW N \in Nat, NEW K \in SUBSET (1..N)
  PROVE  /\ Cardinality(K) \in Nat
         /\ \A k \in 1..Cardinality(K) : \E n \in K : Cardinality({m \in K : m <= n}) = k
         /\ \A n \in K : Cardinality({m \in K : m <= n}) \in 1..Cardinality(K)
         /\ \A x, y \in K : Cardinality({m \in K : m <= x}) = Cardinality({m \in K : m <= y}) => x = y
  <1> DEFINE Below(n) == {m \in K : m <= n}
             T == 1..Cardinality(K)
             f == [n \in K |-> Cardinality(Below(n))]
  <1>1. IsFiniteSet(K) /\ Cardinality(K) \in Nat
    <2>1. IsFiniteSet(1..N)
      BY FS_Interval
    <2> QED BY <2>1, FS_Subset, FS_CardinalityType
  <1>2. IsFiniteSet(T) /\ Cardinality(T) = Cardinality(K)
    BY <1>1, 1 \in Int, Cardinality(K) \in Int, FS_Interval
  <1>3. ASSUME NEW n \in K
        PROVE  IsFiniteSet(Below(n)) /\ Cardinality(Below(n)) \in T
    <2>1. IsFiniteSet(Below(n)) /\ Cardinality(Below(n)) <= Cardinality(K)
      BY <1>1, FS_Subset
    <2>2. Cardinality(Below(n)) \in Nat
      BY <2>1, FS_CardinalityType
    <2>3. n \in Below(n)
      OBVIOUS
    <2>4. Cardinality(Below(n)) # 0
      BY <2>1, <2>3, FS_EmptySet
    <2> QED BY <1>1, <2>1, <2>2, <2>4
  <1>4. ASSUME NEW m \in K, NEW n \in K, m < n
        PROVE  Cardinality(Below(m)) # Cardinality(Below(n))
    <2>1. \A x \in K : x \in Nat
      OBVIOUS
    <2>2. Below(m) \subseteq Below(n) /\ n \notin Below(m) /\ n \in Below(n)
      <3>1. m \in Nat /\ n \in Nat
        BY <2>1
      <3>2. ASSUME NEW x \in K, x <= m PROVE x <= n
        BY <1>4, <2>1, <3>1, <3>2
      <3>3. n <= n /\ ~(n <= m)
        BY <1>4, <3>1
      <3> QED BY <3>2, <3>3
    <2>3. IsFiniteSet(Below(n)) /\ Below(m) \in SUBSET Below(n) /\ Below(m) # Below(n)
      BY <1>3, <2>2
    <2> HIDE DEF Below
    <2> QED BY <2>3, FS_Subset
  <1>5. f \in [K -> T]
    BY <1>3
  <1>6. \A m, n \in K : f[m] = f[n] => m = n
    BY <1>4
  <1>7. f \in Injection(K, T)
    BY <1>5, <1>6 DEF Injection, IsInjective
  <1>8. f \in Surjection(K, T)
    BY <1>1, <1>2, <1>7, FS_Injection
  <1>9. \A k \in T : \E n \in K : f[n] = k
    BY <1>8 DEF Surjection
  <1>10. \A k \in T : \E n \in K : Cardinality(Below(n)) = k
    BY <1>9
  <1>11. \A x, y \in K : Cardinality(Below(x)) = Cardinality(Below(y)) => x = y
    BY <1>6
  <1> QED BY <1>1, <1>3, <1>10, <1>11

\* Every agent of a patch is that of one of the pod's renders, and the default
\* render's comes first.
LEMMA AgentsAre ==
  ASSUME NEW p, IsFiniteSet(DOMAIN p.notes), NEW i, NEW watch
  PROVE  /\ Agents(p, i, watch) \in Seq({Agent(p, i, r, watch) : r \in Renders(p)})
         /\ Agents(p, i, watch) # <<>>
         /\ Agents(p, i, watch)[1] = Agent(p, i, Main, watch)
  <1> DEFINE N == Cardinality(Named(p))
             order == SetToSeq(Named(p))
             A == {Agent(p, i, r, watch) : r \in Renders(p)}
  <1>1. IsFiniteSet(Named(p))
    <2> DEFINE K == {n \in DOMAIN p.notes : n[1] # Main /\ n[2] \notin Also}
    <2>1. IsFiniteSet(K)
      BY FS_Subset
    <2>2. [k \in K |-> k[1]] \in Surjection(K, Named(p))
      BY DEF Surjection, Named
    <2> QED BY <2>1, <2>2, FS_Surjection
  <1>2. order \in [1..N -> Named(p)] /\ N \in Nat
    BY <1>1, SetToSeqIs
  <1>3. \A n \in 1..(1 + N) : (<<Main>> \o order)[n] \in Renders(p)
    <2>1. order \in Seq(Named(p)) /\ Len(order) = N
      BY <1>2
    <2> HIDE DEF order, N
    <2>2. ASSUME NEW n \in 1..(1 + N)
          PROVE  (<<Main>> \o order)[n] = IF n = 1 THEN Main ELSE order[n - 1]
      BY <1>2, <2>1
    <2>3. \A n \in 2..(1 + N) : n - 1 \in 1..N
      BY <1>2
    <2> QED BY <1>2, <2>1, <2>2, <2>3 DEF Renders
  <1>4. Agents(p, i, watch) = [n \in 1..(1 + N) |-> Agent(p, i, (<<Main>> \o order)[n], watch)]
    BY DEF Agents
  <1>5. (<<Main>> \o order)[1] = Main
    <2>1. order \in Seq(Named(p))
      BY <1>2
    <2> HIDE DEF order
    <2> QED BY <2>1
  <1> HIDE DEF order
  <1>6. \A n \in 1..(1 + N) : Agents(p, i, watch)[n] \in A
    BY <1>3, <1>4
  <1>7. Agents(p, i, watch) \in [1..(1 + N) -> A]
    BY <1>4, <1>6
  <1> HIDE DEF A, N
  <1>8. Agents(p, i, watch) \in Seq(A) /\ Len(Agents(p, i, watch)) = 1 + N
    BY <1>2, <1>7
  <1>9. Agents(p, i, watch) # <<>>
    BY <1>2, <1>8
  <1>10. Agents(p, i, watch)[1] = Agent(p, i, Main, watch)
    BY <1>2, <1>4, <1>5
  <1> QED BY <1>8, <1>9, <1>10 DEF A

-----------------------------------------------------------------------------
(* What becomes of a pod's containers.                                      *)

\* An application's container, mounted and wrapped as the pod asked for.
Dressed(p, c) == Wrapped(p, Mounted(p, c))

LEMMA DressedIs ==
  ASSUME NEW p, NEW c, DOMAIN c = ContainerFields
  PROVE  /\ DOMAIN Dressed(p, c) = ContainerFields
         /\ Dressed(p, c).name = c.name /\ Dressed(p, c).agent = c.agent
         /\ Dressed(p, c).uid = c.uid
         /\ Dressed(p, c).command =
              IF c.name \in {<<"app", n>> : n \in Note(p, Main, "env-inject")}
              THEN IF c.command = "own" THEN "wrapped" ELSE "wrapped again"
              ELSE c.command
  <1> DEFINE m == Mounted(p, c)
  <1>1. /\ DOMAIN m = ContainerFields /\ m.name = c.name /\ m.agent = c.agent
        /\ m.uid = c.uid /\ m.command = c.command
    BY DEF Mounted, ContainerFields
  <1> HIDE DEF m
  <1>2. /\ DOMAIN Wrapped(p, m) = ContainerFields /\ Wrapped(p, m).name = m.name
        /\ Wrapped(p, m).agent = m.agent /\ Wrapped(p, m).uid = m.uid
    BY <1>1 DEF Wrapped, ContainerFields
  <1>3. Wrapped(p, m).command =
          IF m.name \in {<<"app", n>> : n \in Note(p, Main, "env-inject")}
          THEN IF m.command = "own" THEN "wrapped" ELSE "wrapped again"
          ELSE m.command
    BY <1>1 DEF Wrapped, ContainerFields
  <1> QED BY <1>1, <1>2, <1>3 DEF Dressed, m

LEMMA AgentIs ==
  ASSUME NEW p, NEW i, NEW r, NEW watch
  PROVE  /\ DOMAIN Agent(p, i, r, watch) = ContainerFields
         /\ Agent(p, i, r, watch).name = <<IF watch THEN "agent" ELSE "init", r>>
         /\ Agent(p, i, r, watch).command = "image"
         /\ Agent(p, i, r, watch).uid = {User(p, i)}
         /\ Agent(p, i, r, watch).agent =
              {[render |-> r, watch |-> watch, args |-> Args(p, i, r, watch),
                env |-> Env(p, i, r), mounts |-> Mounts(p, i, r),
                group |-> Group(p, i), resources |-> Resources(p, i)]}
  BY DEF Agent, ContainerFields

\* All that a patch may put among the containers.
AgentsOf(p, i) == {Agent(p, i, r, watch) : r \in Renders(p), watch \in BOOLEAN}

\* Those of them that go on watching, or fetch once.
OneWay(p, i, watch) == {Agent(p, i, r, watch) : r \in Renders(p)}

LEMMA AgentsAmong ==
  ASSUME NEW p, Formed(p), NEW i, NEW watch \in BOOLEAN
  PROVE  /\ Agents(p, i, watch) \in Seq(OneWay(p, i, watch))
         /\ Agents(p, i, watch) # <<>>
         /\ Agents(p, i, watch)[1] = Agent(p, i, Main, watch)
         /\ OneWay(p, i, watch) \subseteq AgentsOf(p, i)
  <1>1. IsFiniteSet(DOMAIN p.notes)
    BY DEF Formed
  <1>2. OneWay(p, i, watch) \subseteq AgentsOf(p, i)
    BY DEF AgentsOf, OneWay
  <1>3. /\ Agents(p, i, watch) \in Seq(OneWay(p, i, watch)) /\ Agents(p, i, watch) # <<>>
        /\ Agents(p, i, watch)[1] = Agent(p, i, Main, watch)
    BY <1>1, AgentsAre DEF OneWay
  <1> QED BY <1>2, <1>3

\* The init containers: those there were, and agents that fetch once.
LEMMA InitsAre ==
  ASSUME NEW p, Formed(p), NEW i
  PROVE  /\ Inits(p, i) \in Seq(ToSet(p.inits) \cup OneWay(p, i, FALSE))
         /\ Mode(p, i) # "sidecar" => Agent(p, i, Main, FALSE) \in ToSet(Inits(p, i))
         /\ Mode(p, i) = "sidecar" => Inits(p, i) = p.inits
  <1> DEFINE first == Agents(p, i, FALSE)
             B == ToSet(p.inits) \cup OneWay(p, i, FALSE)
  <1>1. p.inits \in Seq(B)
    <2>1. p.inits \in Seq(ToSet(p.inits))
      BY RangeTyped DEF Formed
    <2> QED BY <2>1, SeqGrows
  <1>2. first \in Seq(B) /\ first # <<>> /\ first[1] = Agent(p, i, Main, FALSE)
    <2>1. /\ first \in Seq(OneWay(p, i, FALSE)) /\ first # <<>>
          /\ first[1] = Agent(p, i, Main, FALSE)
      BY AgentsAmong
    <2> HIDE DEF first
    <2> QED BY <2>1, SeqGrows
  <1> HIDE DEF first, B
  <1>3. CASE Mode(p, i) = "sidecar"
    BY <1>1, <1>3 DEF Inits, B
  <1>4. CASE Mode(p, i) # "sidecar" /\ On(p, "init-first")
    <2> DEFINE one == <<Head(first)>>
               rest == Tail(first)
               head == one \o p.inits
    <2>1. one \in Seq(B) /\ rest \in Seq(B) /\ ToSet(one) = {first[1]}
      BY <1>2, EndsRange
    <2>2. Inits(p, i) = head \o rest
      BY <1>4 DEF Inits, first
    <2> HIDE DEF one, rest
    <2>3. head \in Seq(B) /\ ToSet(head) = ToSet(one) \cup ToSet(p.inits)
      BY <1>1, <2>1, ConcatRange
    <2> HIDE DEF head
    <2>4. head \o rest \in Seq(B) /\ ToSet(head \o rest) = ToSet(head) \cup ToSet(rest)
      BY <2>1, <2>3, ConcatRange
    <2> QED BY <1>2, <1>4, <2>1, <2>2, <2>3, <2>4 DEF B
  <1>5. CASE Mode(p, i) # "sidecar" /\ ~On(p, "init-first")
    <2>1. first[1] \in ToSet(first)
      BY <1>2, EndsRange
    <2> DEFINE own == p.inits
    <2>2. own \in Seq(B)
      BY <1>1
    <2>3. Inits(p, i) = own \o first
      BY <1>5 DEF Inits, first
    <2> HIDE DEF own
    <2>4. own \o first \in Seq(B) /\ ToSet(own \o first) = ToSet(own) \cup ToSet(first)
      BY <1>2, <2>2, ConcatRange
    <2> QED BY <1>2, <1>5, <2>1, <2>3, <2>4 DEF B, own
  <1> QED BY <1>3, <1>4, <1>5

LEMMA WatchersAre ==
  ASSUME NEW p, Formed(p), NEW i
  PROVE  /\ Watchers(p, i) \in Seq(OneWay(p, i, TRUE))
         /\ Mode(p, i) # "init" => Agent(p, i, Main, TRUE) \in ToSet(Watchers(p, i))
         /\ Mode(p, i) = "init" => Watchers(p, i) = <<>>
  <1>1. CASE Mode(p, i) = "init"
    BY <1>1 DEF Watchers
  <1>2. CASE Mode(p, i) # "init"
    <2>1. Watchers(p, i) = Agents(p, i, TRUE)
      BY <1>2 DEF Watchers
    <2> QED BY <1>2, <2>1, AgentsAmong, EndsRange
  <1> QED BY <1>1, <1>2

\* Where a patched pod has its agents: beside the init containers those that
\* fetch once and, native, those that watch; else these are with the containers.
Placed(p, i, q) ==
  /\ \A c \in ToSet(q.inits) :
       \/ c \in ToSet(p.inits)
       \/ c \in OneWay(p, i, FALSE) /\ Mode(p, i) # "sidecar"
       \/ c \in OneWay(p, i, TRUE) /\ Mode(p, i) # "init" /\ Native(p, i)
  /\ \A c \in ToSet(q.containers) :
       \/ \E b \in ToSet(p.containers) : c = Dressed(p, b)
       \/ c \in OneWay(p, i, TRUE) /\ Mode(p, i) # "init" /\ ~Native(p, i)
  /\ Mode(p, i) # "sidecar" => Agent(p, i, Main, FALSE) \in Containers(q)
  /\ Mode(p, i) # "init" => Agent(p, i, Main, TRUE) \in Containers(q)

\* A patched pod is made of its containers, dressed, its init containers and
\* agents, among them one of the default render's.
LEMMA PatchedIs ==
  ASSUME NEW p, Formed(p), NEW i
  PROVE  LET q == Patched(p, i) IN
         /\ Formed(q)
         /\ q.mark = Injected /\ q.ns = p.ns /\ q.notes = p.notes
         /\ q.volumes = p.volumes \cup Volumes(p, i)
         /\ \A c \in Containers(q) :
              \/ c \in AgentsOf(p, i)
              \/ c \in ToSet(p.inits)
              \/ \E b \in ToSet(p.containers) : c = Dressed(p, b)
         /\ \A b \in ToSet(p.containers) : Dressed(p, b) \in ToSet(q.containers)
         /\ AlreadyInjected(q)
         /\ Placed(p, i, q)
  <1> DEFINE q == Patched(p, i)
             dressed == [n \in DOMAIN p.containers |-> Dressed(p, p.containers[n])]
             D == {Dressed(p, b) : b \in ToSet(p.containers)}
             A == AgentsOf(p, i)
             watchers == Watchers(p, i)
             inits == Inits(p, i)
  <1>1. /\ DOMAIN q = PodFields /\ q.mark = Injected /\ q.ns = p.ns /\ q.notes = p.notes
        /\ q.uid = p.uid /\ q.volumes = p.volumes \cup Volumes(p, i)
        /\ q.inits = inits \o (IF Native(p, i) THEN watchers ELSE <<>>)
        /\ q.containers = dressed \o (IF Native(p, i) THEN <<>> ELSE watchers)
    BY DEF Patched, Formed, PodFields, Dressed
  <1>2. dressed \in Seq(D \cup A) /\ ToSet(dressed) = D
    <2>1. p.containers \in Seq(Containers(p))
      BY DEF Formed
    <2>2. \A n \in 1..Len(p.containers) : dressed[n] \in D \cup A
      BY <2>1, RangeTyped DEF ToSet
    <2>3. dressed = [n \in 1..Len(p.containers) |-> dressed[n]] /\ Len(p.containers) \in Nat
      BY <2>1
    <2>4. dressed \in Seq(D \cup A)
      <3> HIDE DEF D, A, dressed
      <3>1. dressed \in [1..Len(p.containers) -> D \cup A]
        BY <2>2, <2>3
      <3> QED BY <2>3, <3>1
    <2>5. ToSet(dressed) = D
      BY <2>1, <2>3 DEF ToSet
    <2> QED BY <2>4, <2>5
  <1> DEFINE I == ToSet(p.inits) \cup A
             F == ToSet(p.inits) \cup OneWay(p, i, FALSE)
             T == OneWay(p, i, TRUE)
  <1>15. T \subseteq A /\ F \subseteq I
    BY AgentsAmong
  <1>16. inits \in Seq(F) /\ watchers \in Seq(T)
    BY InitsAre, WatchersAre
  <1>17. /\ Mode(p, i) = "sidecar" => inits = p.inits
         /\ Mode(p, i) = "init" => watchers = <<>>
    BY InitsAre, WatchersAre
  <1>18. /\ Mode(p, i) # "sidecar" => Agent(p, i, Main, FALSE) \in ToSet(inits)
         /\ Mode(p, i) # "init" => Agent(p, i, Main, TRUE) \in ToSet(watchers)
    BY InitsAre, WatchersAre
  <1> HIDE DEF inits, watchers, F, T, I, A
  <1>3. inits \in Seq(I) /\ (Mode(p, i) # "sidecar" => Agent(p, i, Main, FALSE) \in ToSet(inits))
    BY <1>15, <1>16, <1>18, SeqGrows
  <1>4. /\ watchers \in Seq(A)
        /\ Mode(p, i) # "init" => Agent(p, i, Main, TRUE) \in ToSet(watchers)
    BY <1>15, <1>16, <1>18, SeqGrows
  <1> USE DEF A, I
  <1>5. <<>> \in Seq(D \cup A) /\ <<>> \in Seq(I) /\ watchers \in Seq(D \cup A) /\ watchers \in Seq(I)
    BY <1>4, SeqGrows
  <1> HIDE DEF dressed, D, A, I, inits, watchers
  <1>6. /\ q.inits \in Seq(I)
        /\ ToSet(q.inits) = ToSet(inits) \cup (IF Native(p, i) THEN ToSet(watchers) ELSE {})
    <2>1. CASE Native(p, i)
      BY <1>1, <1>3, <1>5, <2>1, ConcatRange
    <2>2. CASE ~Native(p, i)
      <3>1. q.inits = inits
        BY <1>1, <1>3, <2>2
      <3> QED BY <1>3, <2>2, <3>1
    <2> QED BY <2>1, <2>2
  <1>7. /\ q.containers \in Seq(D \cup A)
        /\ ToSet(q.containers) = D \cup (IF Native(p, i) THEN {} ELSE ToSet(watchers))
    <2>1. CASE ~Native(p, i)
      BY <1>1, <1>2, <1>5, <2>1, ConcatRange
    <2>2. CASE Native(p, i)
      <3>1. q.containers = dressed
        BY <1>1, <1>2, <2>2
      <3> QED BY <1>2, <2>2, <3>1
    <2> QED BY <2>1, <2>2
  <1> HIDE DEF q
  <1>8. ToSet(q.inits) \subseteq I /\ ToSet(q.containers) \subseteq D \cup A
    BY <1>6, <1>7, RangeTyped
  <1>9. q.inits \in Seq(Containers(q)) /\ q.containers \in Seq(Containers(q))
    <2>1. q.inits \in Seq(ToSet(q.inits)) /\ q.containers \in Seq(ToSet(q.containers))
      BY <1>6, <1>7, RangeTyped
    <2> QED BY <2>1, SeqGrows DEF Containers
  <1>10. \A c \in Containers(q) :
           \/ c \in AgentsOf(p, i)
           \/ c \in ToSet(p.inits)
           \/ \E b \in ToSet(p.containers) : c = Dressed(p, b)
    BY <1>8 DEF Containers, D, A, I
  <1>11. \A b \in ToSet(p.containers) : Dressed(p, b) \in ToSet(q.containers)
    BY <1>7 DEF D
  <1>12. \A c \in Containers(q) : DOMAIN c = ContainerFields /\ Option(c.uid)
    <2>1. \A c \in Containers(p) : DOMAIN c = ContainerFields /\ Option(c.uid)
      BY DEF Formed
    <2>2. ASSUME NEW c \in AgentsOf(p, i) PROVE DOMAIN c = ContainerFields /\ Option(c.uid)
      BY <2>2, AgentIs DEF AgentsOf, Option
    <2>3. ASSUME NEW b \in ToSet(p.containers)
          PROVE  DOMAIN Dressed(p, b) = ContainerFields /\ Option(Dressed(p, b).uid)
      BY <2>1, DressedIs DEF Containers
    <2> QED BY <1>10, <2>1, <2>2, <2>3 DEF Containers
  <1>13. AlreadyInjected(q)
    <2>1. \E watch \in BOOLEAN : Agent(p, i, Main, watch) \in Containers(q)
      <3>1. CASE Mode(p, i) = "init"
        BY <1>3, <1>6, <3>1 DEF Containers
      <3>2. CASE Mode(p, i) # "init"
        BY <1>4, <1>6, <1>7, <3>2 DEF Containers
      <3> QED BY <3>1, <3>2
    <2>2. PICK watch \in BOOLEAN : Agent(p, i, Main, watch) \in Containers(q)
      BY <2>1
    <2>3. Agent(p, i, Main, watch).name \in {<<"agent", Main>>, <<"init", Main>>}
      <3> DEFINE kind == IF watch THEN "agent" ELSE "init"
      <3>1. Agent(p, i, Main, watch).name = <<kind, Main>>
        BY AgentIs
      <3>2. kind \in {"agent", "init"}
        BY Zenon
      <3> HIDE DEF kind
      <3> QED BY <3>1, <3>2
    <2> QED BY <2>2, <2>3 DEF AlreadyInjected
  <1>14. Formed(q)
    BY <1>1, <1>9, <1>12 DEF Formed, q
  <1>19. ToSet(inits) \subseteq F /\ ToSet(watchers) \subseteq T
    BY <1>16, RangeTyped
  <1>20. /\ Mode(p, i) = "sidecar" => ToSet(inits) = ToSet(p.inits)
         /\ Mode(p, i) = "init" => ToSet(watchers) = {}
    BY <1>17, EmptyRange
  <1>21. Placed(p, i, q)
    <2>1. ASSUME NEW c \in ToSet(q.inits)
          PROVE  \/ c \in ToSet(p.inits)
                 \/ c \in OneWay(p, i, FALSE) /\ Mode(p, i) # "sidecar"
                 \/ c \in OneWay(p, i, TRUE) /\ Mode(p, i) # "init" /\ Native(p, i)
      BY <1>6, <1>19, <1>20, <2>1 DEF F, T
    <2>2. ASSUME NEW c \in ToSet(q.containers)
          PROVE  \/ \E b \in ToSet(p.containers) : c = Dressed(p, b)
                 \/ c \in OneWay(p, i, TRUE) /\ Mode(p, i) # "init" /\ ~Native(p, i)
      BY <1>7, <1>19, <1>20, <2>2 DEF D, T
    <2>3. /\ Mode(p, i) # "sidecar" => Agent(p, i, Main, FALSE) \in Containers(q)
          /\ Mode(p, i) # "init" => Agent(p, i, Main, TRUE) \in Containers(q)
      BY <1>6, <1>7, <1>18 DEF Containers
    <2> QED BY <2>1, <2>2, <2>3 DEF Placed
  <1> QED BY <1>1, <1>10, <1>11, <1>13, <1>14, <1>21 DEF q

-----------------------------------------------------------------------------
(* What an agent is given.                                                  *)

LEMMA OnlyOf == ASSUME NEW S, Option(S), S # {} PROVE S = {Only(S)}
  <1>1. Only(S) \in S
    BY DEF Only
  <1> QED BY <1>1 DEF Option

LEMMA OnlyOne == ASSUME NEW v PROVE Only({v}) = v
  BY DEF Only

LEMMA ElseOption == ASSUME NEW S, NEW T, Option(S), Option(T) PROVE Option(Else(S, T))
  BY DEF Else

\* A pod says one thing for a key, and so does an installation: what a render
\* resolves to is one value or none.
LEMMA NoteOption == ASSUME NEW p, NEW r, NEW key PROVE Option(Note(p, r, key))
  BY DEF Note, Option

LEMMA StoreOption == ASSUME NEW p, NEW i, Option(i.source), NEW r PROVE Option(Store(p, i, r))
  <1>1. Option({})
    BY DEF Option
  <1> QED BY <1>1, NoteOption, ElseOption DEF Store

LEMMA FromOption == ASSUME NEW i, NEW tier, NEW key PROVE Option(From(i, tier, key))
  BY DEF From, Option

LEMMA SuppliedOption ==
  ASSUME NEW i, NEW source, Option(source), NEW key
  PROVE  Option(Supplied(i, source, key))
  <1> DEFINE stores == UNION {From(i, i.store[s], key) : s \in source \cap DOMAIN i.store}
  <1>1. Option(stores)
    <2>1. CASE source \cap DOMAIN i.store = {}
      BY <2>1 DEF Option
    <2>2. CASE source \cap DOMAIN i.store # {}
      <3>1. PICK s : source \cap DOMAIN i.store = {s}
        BY <2>2 DEF Option
      <3>2. stores = From(i, i.store[s], key)
        BY <3>1
      <3>3. Option(From(i, i.store[s], key))
        BY FromOption
      <3> QED BY <3>2, <3>3, Zenon
    <2> QED BY <2>1, <2>2
  <1>2. Supplied(i, source, key) = Else(stores, From(i, i.fleet, key))
    BY DEF Supplied
  <1> HIDE DEF stores
  <1> QED BY <1>1, <1>2, FromOption, ElseOption

LEMMA DefaultOption ==
  ASSUME NEW p, NEW i, Option(i.source), NEW r, NEW key
  PROVE  Option(Default(p, i, r, key))
  <1>1. Option({})
    BY DEF Option
  <1> QED BY <1>1, StoreOption, SuppliedOption DEF Default

LEMMA ResolvedOption ==
  ASSUME NEW p, NEW i, Option(i.source), NEW r, NEW key
  PROVE  Option(Resolved(p, i, r, key)) /\ Option(Level(p, i, r, key))
  <1> DEFINE values == {s.value : s \in Default(p, i, r, key)}
  <1>1. Option(values)
    BY DefaultOption DEF Option
  <1>2. Resolved(p, i, r, key) = Else(Note(p, r, key), values)
    BY DEF Resolved
  <1> HIDE DEF values
  <1>3. Option(Resolved(p, i, r, key))
    BY <1>1, <1>2, NoteOption, ElseOption
  <1> QED BY <1>3, NoteOption DEF Level

\* The flags an agent is given are those that something is passed for.
LEMMA ArgIs ==
  ASSUME NEW p, NEW i, NEW r, NEW watch, NEW flag \in Flags
  PROVE  LET args == Args(p, i, r, watch)  passed == Passed(p, i, r, watch, flag) IN
         /\ flag \in DOMAIN args <=> passed # {}
         /\ passed # {} => args[flag] = Only(passed)
         /\ Option(passed) => Given(args, flag) = passed
  <1> DEFINE args == Args(p, i, r, watch)
             passed == Passed(p, i, r, watch, flag)
  <1>1. flag \in DOMAIN args <=> passed # {}
    BY DEF Args
  <1>2. passed # {} => args[flag] = Only(passed)
    BY <1>1 DEF Args
  <1> HIDE DEF args, passed
  <1>3. Option(passed) => Given(args, flag) = passed
    BY <1>1, <1>2, OnlyOf DEF Given
  <1> QED BY <1>1, <1>2, <1>3 DEF args, passed

\* What is passed for the flags of a store, of any agent that reads one.
LEMMA StorePassed ==
  ASSUME NEW p, NEW i, NEW r, NEW watch
  PROVE  /\ Passed(p, i, r, watch, "source") = Store(p, i, r)
         /\ Passed(p, i, r, watch, "endpoint") = Level(p, i, r, "endpoint")
         /\ Passed(p, i, r, watch, "template-inline") = Level(p, i, r, "template")
         /\ Passed(p, i, r, watch, "template") = Level(p, i, r, "template-configmap")
         /\ Passed(p, i, r, watch, "ca") = Resolved(p, i, r, "ca-configmap")
         /\ Passed(p, i, r, watch, "ssh-key") = Resolved(p, i, r, "ssh-secret")
         /\ Passed(p, i, r, watch, "tls-cert") = Resolved(p, i, r, "tls-secret")
         /\ Passed(p, i, r, watch, "tls-key") = Resolved(p, i, r, "tls-secret")
         /\ Passed(p, i, r, watch, "auth") =
              Else(Resolved(p, i, r, "auth"),
                   IF Resolved(p, i, r, "ssh-secret") # {} THEN {"ssh-key"} ELSE {})
  <1> DEFINE flags == {"source", "endpoint", "template-inline", "template", "ca", "ssh-key",
                       "tls-cert", "tls-key", "auth"}
  <1>1. \A flag \in flags : MainArg(p, flag) = {} /\ WatchArg(p, i, r, flag) = {}
    BY DEF MainArg, WatchArg, WatchOnly
  <1>2. \A flag \in flags : Passed(p, i, r, watch, flag) = StoreArg(p, i, r, flag)
    BY <1>1 DEF Passed
  <1>3. ASSUME NEW flag \in flags
        PROVE  /\ flag = "source" => StoreArg(p, i, r, flag) = Store(p, i, r)
               /\ flag = "endpoint" => StoreArg(p, i, r, flag) = Level(p, i, r, "endpoint")
               /\ flag = "template-inline" => StoreArg(p, i, r, flag) = Level(p, i, r, "template")
               /\ flag = "template" => StoreArg(p, i, r, flag) = Level(p, i, r, "template-configmap")
               /\ flag = "ca" => StoreArg(p, i, r, flag) = Resolved(p, i, r, "ca-configmap")
               /\ flag = "ssh-key" => StoreArg(p, i, r, flag) = Resolved(p, i, r, "ssh-secret")
               /\ flag \in {"tls-cert", "tls-key"} =>
                    StoreArg(p, i, r, flag) = Resolved(p, i, r, "tls-secret")
               /\ flag = "auth" =>
                    StoreArg(p, i, r, flag) =
                      Else(Resolved(p, i, r, "auth"),
                           IF Resolved(p, i, r, "ssh-secret") # {} THEN {"ssh-key"} ELSE {})
    BY DEF StoreArg, PassedOn
  <1> QED BY <1>2, <1>3

LEMMA PassedOnIs ==
  ASSUME NEW p, NEW i, NEW r, NEW watch,
         NEW flag \in {"section", "auth-mount", "auth-role", "auth-username", "auth-token-path",
                       "namespace", "ref", "api-url", "file-mode", "key", "path"}
  PROVE  Passed(p, i, r, watch, flag) = Resolved(p, i, r, flag)
  <1>1. MainArg(p, flag) = {} /\ WatchArg(p, i, r, flag) = {}
    BY DEF MainArg, WatchArg, WatchOnly
  <1>2. StoreArg(p, i, r, flag) = Unusual(flag, Resolved(p, i, r, flag))
    BY DEF StoreArg, PassedOn
  <1>3. \A v : <<flag, v>> \notin Usual
    BY DEF Usual
  <1>4. Unusual(flag, Resolved(p, i, r, flag)) = Resolved(p, i, r, flag)
    BY <1>3 DEF Unusual
  <1> QED BY <1>1, <1>2, <1>4 DEF Passed

\* And for those that only one that watches is given, or the default render's.
LEMMA WatchPassed ==
  ASSUME NEW p, NEW i, NEW r, NEW watch
  PROVE  /\ Passed(p, i, r, watch, "watch") = IF watch THEN {Watches(p, i, r)} ELSE {}
         /\ Passed(p, i, r, watch, "metrics") = IF watch THEN Port(p, i, r) ELSE {}
  <1>1. \A flag \in {"watch", "metrics"} : MainArg(p, flag) = {} /\ StoreArg(p, i, r, flag) = {}
    BY DEF MainArg, StoreArg, PassedOn
  <1>2. WatchArg(p, i, r, "watch") = {Watches(p, i, r)}
    BY DEF WatchArg, WatchOnly
  <1>3. WatchArg(p, i, r, "metrics") = Port(p, i, r)
    BY DEF WatchArg, WatchOnly
  <1> QED BY <1>1, <1>2, <1>3 DEF Passed

LEMMA MainPassed ==
  ASSUME NEW p, NEW i, NEW r, NEW watch
  PROVE  /\ Passed(p, i, r, watch, "schema") \subseteq
              IF r = Main THEN Note(p, Main, "schema-configmap") ELSE {}
         /\ \A flag \in {"canary-configmap", "history", "timeout", "revoke-grace", "on-drift"} :
              Passed(p, i, r, watch, flag) \subseteq IF r = Main THEN Note(p, Main, flag) ELSE {}
  <1> DEFINE flags == {"canary-configmap", "history", "timeout", "revoke-grace", "on-drift"}
  <1>1. /\ StoreArg(p, i, r, "schema") = {} /\ WatchArg(p, i, r, "schema") = {}
        /\ MainArg(p, "schema") = Note(p, Main, "schema-configmap")
    BY DEF StoreArg, WatchArg, MainArg, PassedOn, WatchOnly
  <1>2. \A flag \in flags : StoreArg(p, i, r, flag) = {} /\ MainArg(p, flag) = {}
    BY DEF StoreArg, MainArg, PassedOn
  <1>3. \A flag \in flags :
          WatchArg(p, i, r, flag) \subseteq IF r = Main THEN Note(p, Main, flag) ELSE {}
    BY DEF WatchArg, Unusual
  <1> QED BY <1>1, <1>2, <1>3 DEF Passed

LEMMA FlagsHas ==
  {"source", "endpoint", "template-inline", "template", "ca", "ssh-key", "tls-cert", "tls-key",
   "auth", "section", "auth-mount", "auth-role", "auth-username", "auth-token-path", "namespace",
   "ref", "api-url", "file-mode", "key", "path", "watch", "metrics", "schema", "canary-configmap",
   "history", "timeout", "revoke-grace", "on-drift"} \subseteq Flags
  BY DEF Flags, PassedOn, WatchOnly

-----------------------------------------------------------------------------
(* An agent of an accepted pod starts.                                      *)

\* Whatever a render resolves to has the form that its key asks for, whoever
\* said it.
LEMMA ResolvedFormed ==
  ASSUME NEW p, NEW i, FormsKept(p), Starts(i), NEW r, NEW key,
         r = Main \/ key \notin {"timeout", "tls-reload"}, NEW v \in Resolved(p, i, r, key)
  PROVE  WellFormed(key, v)
  <1>1. CASE v \in Note(p, r, key)
    <2>1. <<r, key>> \in DOMAIN p.notes /\ v = p.notes[<<r, key>>]
      BY <1>1 DEF Note
    <2>2. <<r, key>>[1] = r /\ <<r, key>>[2] = key
      OBVIOUS
    <2> QED BY <2>1, <2>2 DEF FormsKept
  <1>2. CASE v \notin Note(p, r, key)
    <2>1. PICK s \in Supplied(i, Store(p, i, r), key) : v = s.value
      BY <1>2 DEF Resolved, Else, Default
    <2>2. CASE s \in From(i, i.fleet, key)
      <3>1. key \in DOMAIN i.fleet.values /\ v = i.fleet.values[key]
        BY <2>1, <2>2 DEF From
      <3> QED BY <3>1 DEF Starts, TierStarts
    <2>3. CASE s \notin From(i, i.fleet, key)
      <3>1. PICK store \in DOMAIN i.store : s \in From(i, i.store[store], key)
        BY <2>1, <2>3 DEF Supplied, Else
      <3>2. key \in DOMAIN i.store[store].values /\ v = i.store[store].values[key]
        BY <2>1, <3>1 DEF From
      <3> QED BY <3>2 DEF Starts, TierStarts
    <2> QED BY <2>2, <2>3
  <1> QED BY <1>1, <1>2

LEMMA NoteFormed ==
  ASSUME NEW p, FormsKept(p), NEW key, NEW v \in Note(p, Main, key)
  PROVE  WellFormed(key, v)
  <1>1. <<Main, key>> \in DOMAIN p.notes /\ v = p.notes[<<Main, key>>]
    BY DEF Note
  <1>2. <<Main, key>>[1] = Main /\ <<Main, key>>[2] = key
    OBVIOUS
  <1> QED BY <1>1, <1>2 DEF FormsKept

\* A number that is given is one.
LEMMA GivenNumber ==
  ASSUME NEW p, NEW i, NEW r, NEW watch, NEW flag \in Flags, NEW least \in Nat,
         \A v \in Passed(p, i, r, watch, flag) : v \in DOMAIN Number /\ Number[v] >= least
  PROVE  NumberGiven(Args(p, i, r, watch), flag, least)
  <1> DEFINE args == Args(p, i, r, watch)
             passed == Passed(p, i, r, watch, flag)
  <1>1. \A v \in Given(args, flag) : v \in passed
    <2>1. flag \in DOMAIN args => passed # {} /\ args[flag] = Only(passed)
      BY ArgIs
    <2> HIDE DEF args, passed
    <2>2. passed # {} => Only(passed) \in passed
      BY DEF Only
    <2> QED BY <2>1, <2>2 DEF Given
  <1> QED BY <1>1 DEF NumberGiven

LEMMA GivenAmong ==
  ASSUME NEW p, NEW i, NEW r, NEW watch, NEW flag \in Flags
  PROVE  Given(Args(p, i, r, watch), flag) \subseteq Passed(p, i, r, watch, flag)
  <1> DEFINE args == Args(p, i, r, watch)
             passed == Passed(p, i, r, watch, flag)
  <1>1. flag \in DOMAIN args => passed # {} /\ args[flag] = Only(passed)
    BY ArgIs
  <1> HIDE DEF args, passed
  <1>2. passed # {} => Only(passed) \in passed
    BY DEF Only
  <1>3. Given(args, flag) \subseteq passed
    BY <1>1, <1>2 DEF Given
  <1> QED BY <1>3 DEF args, passed

LEMMA NumberFormed ==
  ASSUME NEW key \in Numeric, NEW v, WellFormed(key, v)
  PROVE  /\ v \in DOMAIN Number /\ Number[v] \in Nat
         /\ key \in NeverZero => Number[v] >= 1
         /\ key = "history" => Number[v] <= MostHistory
  <1>1. v \in DOMAIN Number /\ Number[v] \in Nat
    BY NumberAssumption DEF WellFormed
  <1>2. key \in NeverZero => Number[v] > 0
    BY DEF WellFormed
  <1>3. key = "history" => Number[v] <= MostHistory
    BY DEF WellFormed
  <1> QED BY <1>1, <1>2, <1>3

LEMMA AgentForm ==
  ASSUME NEW p, NEW i, FormsKept(p), Starts(i), Option(i.source), NEW r, NEW watch \in BOOLEAN
  PROVE  FlagsParse(Args(p, i, r, watch))
  <1> DEFINE args == Args(p, i, r, watch)
  <1>1. NumberGiven(args, "watch", 0)
    <2>1. ASSUME NEW v \in Resolved(p, i, r, "watch-seconds")
          PROVE  v \in DOMAIN Number /\ Number[v] >= 0
      <3>1. WellFormed("watch-seconds", v)
        BY ResolvedFormed
      <3> QED BY <3>1, NumberFormed DEF Numeric
    <2>2. Watches(p, i, r) \in DOMAIN Number /\ Number[Watches(p, i, r)] >= 0
      <3>1. CASE Resolved(p, i, r, "watch-seconds") = {}
        <4>1. Watches(p, i, r) = "15"
          BY <3>1, OnlyOne DEF Watches, Else
        <4> QED BY <4>1, NumberAssumption
      <3>2. CASE Resolved(p, i, r, "watch-seconds") # {}
        <4>1. Watches(p, i, r) \in Resolved(p, i, r, "watch-seconds")
          BY <3>2 DEF Watches, Else, Only
        <4> QED BY <2>1, <4>1
      <3> QED BY <3>1, <3>2
    <2>3. Passed(p, i, r, watch, "watch") \subseteq {Watches(p, i, r)}
      BY WatchPassed
    <2> QED BY <2>2, <2>3, GivenNumber, FlagsHas
  <1>2. NumberGiven(args, "metrics", 0)
    <2>1. ASSUME NEW v \in Passed(p, i, r, watch, "metrics")
          PROVE  v \in DOMAIN Number /\ Number[v] >= 0
      <3>1. v \in Resolved(p, i, r, "metrics-port")
        BY <2>1, WatchPassed DEF Port
      <3>2. WellFormed("metrics-port", v)
        BY <3>1, ResolvedFormed
      <3> QED BY <3>2, NumberFormed DEF Numeric
    <2> QED BY <2>1, GivenNumber, FlagsHas
  <1>3. ASSUME NEW key \in {"timeout", "revoke-grace", "history"}
        PROVE  /\ key # "history" => NumberGiven(args, key, 1)
               /\ key = "history" => NumberGiven(args, key, 0)
               /\ key = "history" => \A n \in Given(args, key) : Number[n] <= MostHistory
    <2>1. ASSUME NEW v \in Passed(p, i, r, watch, key)
          PROVE  /\ v \in DOMAIN Number /\ Number[v] >= 0 /\ Number[v] >= 1
                 /\ key = "history" => Number[v] <= MostHistory
      <3>1. v \in Note(p, Main, key)
        BY <2>1, MainPassed
      <3>2. WellFormed(key, v)
        BY <3>1, NoteFormed
      <3>3. key \in Numeric /\ key \in NeverZero
        BY DEF Numeric, NeverZero
      <3> QED BY <3>2, <3>3, NumberFormed
    <2>2. key \in Flags
      BY FlagsHas
    <2> QED BY <2>1, <2>2, GivenNumber, GivenAmong
  <1>4. "bad" \notin Given(args, "file-mode")
    <2>1. ASSUME NEW v \in Given(args, "file-mode") PROVE v # "bad"
      <3>1. v \in Resolved(p, i, r, "file-mode")
        BY <2>1, PassedOnIs, GivenAmong, FlagsHas
      <3>2. WellFormed("file-mode", v)
        BY <3>1, ResolvedFormed
      <3> QED BY <3>2 DEF WellFormed, Shaped
    <2> QED BY <2>1
  <1>5. Given(args, "on-drift") \subseteq Offered["on-drift"]
    <2>1. ASSUME NEW v \in Given(args, "on-drift") PROVE v \in Offered["on-drift"]
      <3>1. v \in Note(p, Main, "on-drift")
        BY <2>1, MainPassed, GivenAmong, FlagsHas
      <3>2. WellFormed("on-drift", v)
        BY <3>1, NoteFormed
      <3>3. "on-drift" \in DOMAIN Offered
        BY DEF Offered
      <3> QED BY <3>2, <3>3 DEF WellFormed
    <2> QED BY <2>1
  <1> HIDE DEF args
  <1>6. FlagsParse(args)
    BY <1>1, <1>2, <1>3, <1>4, <1>5 DEF FlagsParse
  <1> QED BY <1>6 DEF args

LEMMA HalvesIs ==
  /\ Other("endpoint") = "endpoint-secret" /\ Other("endpoint-secret") = "endpoint"
  /\ Other("template") = "template-configmap" /\ Other("template-configmap") = "template"
  /\ Halves = {<<"endpoint", "endpoint-secret">>, <<"endpoint-secret", "endpoint">>,
               <<"template", "template-configmap">>, <<"template-configmap", "template">>}
  <1>1. Halves = {<<"endpoint", "endpoint-secret">>, <<"endpoint-secret", "endpoint">>,
                  <<"template", "template-configmap">>, <<"template-configmap", "template">>}
    BY DEF Halves, Pairs
  <1>2. ASSUME NEW half \in Halves PROVE Other(half[1]) = half[2]
    <2> DEFINE others == {h[2] : h \in {h \in Halves : h[1] = half[1]}}
    <2>1. half[2] \in others
      OBVIOUS
    <2>2. \A other \in others : other = half[2]
      BY <1>1
    <2>3. others = {half[2]}
      BY <2>1, <2>2
    <2> QED BY <2>3, OnlyOne, Zenon DEF Other
  <1> QED BY <1>1, <1>2

\* What the agent cannot do without, it is given.
LEMMA AgentRequired ==
  ASSUME NEW p, NEW i, NEW r, NEW watch, RenderKept(p, i, r)
  PROVE  Required(Args(p, i, r, watch), Env(p, i, r))
  <1> DEFINE args == Args(p, i, r, watch)
             env == Env(p, i, r)
  <1>1. {"source", "key", "path"} \subseteq DOMAIN args
    <2>1. Store(p, i, r) # {} /\ Resolved(p, i, r, "key") # {} /\ Resolved(p, i, r, "path") # {}
      BY DEF RenderKept, Complete
    <2>2. Passed(p, i, r, watch, "source") # {}
      BY <2>1, StorePassed
    <2>3. Passed(p, i, r, watch, "key") # {} /\ Passed(p, i, r, watch, "path") # {}
      BY <2>1, PassedOnIs
    <2> QED BY <2>2, <2>3, ArgIs, FlagsHas
  <1>2. CASE Level(p, i, r, "endpoint") # {}
    <2>1. Passed(p, i, r, watch, "endpoint") # {}
      BY <1>2, StorePassed
    <2>2. "endpoint" \in DOMAIN args
      BY <2>1, ArgIs, FlagsHas
    <2> QED BY <1>1, <2>2 DEF Required
  <1>3. CASE Level(p, i, r, "endpoint") = {}
    <2>1. PICK v : v \in Level(p, i, r, "endpoint-secret")
      BY <1>3 DEF RenderKept, Addressed
    <2>2. <<"endpoint-secret", v>> \in env
      BY <2>1 DEF Env
    <2> HIDE DEF env
    <2>3. v \in Variable(env, "endpoint-secret")
      BY <2>2 DEF Variable
    <2> QED BY <1>1, <2>3 DEF Required, env
  <1> QED BY <1>2, <1>3

LEMMA AgentTogether ==
  ASSUME NEW p, NEW i, Option(i.source), NEW r, NEW watch, RenderKept(p, i, r)
  PROVE  GoTogether(Args(p, i, r, watch))
  <1> DEFINE args == Args(p, i, r, watch)
  <1>1. Given(args, "source") \subseteq Sources
    <2>1. Given(args, "source") \subseteq Store(p, i, r)
      BY StorePassed, GivenAmong, FlagsHas
    <2> QED BY <2>1 DEF RenderKept, Complete
  <1>2. "tls-cert" \in DOMAIN args <=> "tls-key" \in DOMAIN args
    BY StorePassed, ArgIs, FlagsHas
  <1>3. ~({"template", "template-inline"} \subseteq DOMAIN args)
    <2>1. Level(p, i, r, "template") = {} \/ Level(p, i, r, "template-configmap") = {}
      BY DEF RenderKept, OneTemplate
    <2> QED BY <2>1, StorePassed, ArgIs, FlagsHas
  <1> HIDE DEF args
  <1>4. GoTogether(args)
    BY <1>1, <1>2, <1>3 DEF GoTogether
  <1> QED BY <1>4 DEF args

\* Of what the webhook is to check the agent finds nothing amiss.
LEMMA AgentComplains ==
  ASSUME NEW p, NEW i, FormsKept(p), Starts(i), Option(i.source), NEW r, RenderKept(p, i, r),
         NEW watch \in BOOLEAN
  PROVE  Complaints(Args(p, i, r, watch), Env(p, i, r)) \subseteq LeftToTheAgent
  <1> DEFINE args == Args(p, i, r, watch)
             env == Env(p, i, r)
  <1>1. Required(args, env) /\ FlagsParse(args) /\ GoTogether(args)
    BY AgentRequired, AgentForm, AgentTogether
  <1> HIDE DEF args, env
  <1>2. Complaints(args, env) \subseteq LeftToTheAgent
    BY <1>1 DEF Complaints, LeftToTheAgent
  <1> QED BY <1>2 DEF args, env

\* What an agent mounts is there, and what its arguments name is mounted.
LEMMA AgentMounts ==
  ASSUME NEW p, NEW i, NEW r \in Renders(p), NEW watch
  PROVE  LET args == Args(p, i, r, watch) IN
         /\ Mounts(p, i, r) \subseteq Volumes(p, i)
         /\ "ca" \in DOMAIN args => <<"ca", r>> \in Mounts(p, i, r)
         /\ "ssh-key" \in DOMAIN args => <<"ssh", r>> \in Mounts(p, i, r)
         /\ "tls-cert" \in DOMAIN args => <<"client-tls", r>> \in Mounts(p, i, r)
         /\ "template" \in DOMAIN args => <<"template", r>> \in Mounts(p, i, r)
         /\ "schema" \in DOMAIN args => <<"schema", r>> \in Mounts(p, i, r)
         /\ "canary-configmap" \in DOMAIN args => <<"canary", r>> \in Mounts(p, i, r)
  <1> DEFINE args == Args(p, i, r, watch)
             passed(flag) == Passed(p, i, r, watch, flag)
  <1>1. Mounts(p, i, r) \subseteq Volumes(p, i)
    BY DEF Mounts, Volumes
  <1>2. ASSUME NEW k \in {<<"ca", "ca-configmap">>, <<"ssh", "ssh-secret">>,
                          <<"client-tls", "tls-secret">>}, Resolved(p, i, r, k[2]) # {}
        PROVE  <<k[1], r>> \in Mounts(p, i, r)
    BY <1>2 DEF Mounts, RenderMaterial
  <1>3. Level(p, i, r, "template-configmap") # {} => <<"template", r>> \in Mounts(p, i, r)
    BY DEF Mounts, RenderMaterial
  <1>4. ASSUME NEW k \in {<<"schema", "schema-configmap">>, <<"canary", "canary-configmap">>},
               r = Main, Note(p, Main, k[2]) # {}
        PROVE  <<k[1], r>> \in Mounts(p, i, r)
    BY <1>4 DEF Mounts, PodMaterial
  <1>5. \A flag \in Flags : flag \in DOMAIN args => passed(flag) # {}
    BY ArgIs
  <1>6. "ca" \in DOMAIN args => <<"ca", r>> \in Mounts(p, i, r)
    <2>1. Resolved(p, i, r, "ca-configmap") # {} => <<"ca", r>> \in Mounts(p, i, r)
      BY <1>2
    <2> QED BY <1>5, <2>1, StorePassed, FlagsHas
  <1>7. "ssh-key" \in DOMAIN args => <<"ssh", r>> \in Mounts(p, i, r)
    <2>1. Resolved(p, i, r, "ssh-secret") # {} => <<"ssh", r>> \in Mounts(p, i, r)
      BY <1>2
    <2> QED BY <1>5, <2>1, StorePassed, FlagsHas
  <1>8. "tls-cert" \in DOMAIN args => <<"client-tls", r>> \in Mounts(p, i, r)
    <2>1. Resolved(p, i, r, "tls-secret") # {} => <<"client-tls", r>> \in Mounts(p, i, r)
      BY <1>2
    <2> QED BY <1>5, <2>1, StorePassed, FlagsHas
  <1>9. "template" \in DOMAIN args => <<"template", r>> \in Mounts(p, i, r)
    BY <1>3, <1>5, StorePassed, FlagsHas
  <1>10. "schema" \in DOMAIN args => <<"schema", r>> \in Mounts(p, i, r)
    <2>1. r = Main /\ Note(p, Main, "schema-configmap") # {} => <<"schema", r>> \in Mounts(p, i, r)
      BY <1>4
    <2> QED BY <1>5, <2>1, MainPassed, FlagsHas
  <1>11. "canary-configmap" \in DOMAIN args => <<"canary", r>> \in Mounts(p, i, r)
    <2>1. r = Main /\ Note(p, Main, "canary-configmap") # {} => <<"canary", r>> \in Mounts(p, i, r)
      BY <1>4
    <2> QED BY <1>5, <2>1, MainPassed, FlagsHas
  <1> QED BY <1>1, <1>6, <1>7, <1>8, <1>9, <1>10, <1>11

\* No agent is root.
LEMMA AgentNotRoot ==
  ASSUME NEW p, Formed(p), p.containers # <<>>, NEW i, FormsKept(p), IdentityKept(p), Starts(i)
  PROVE  User(p, i) # "0"
  <1>1. CASE On(p, "agent-run-as-same-user")
    <2>1. InheritedUser(p) # {} /\ InheritedUser(p) # {"0"}
      BY <1>1 DEF IdentityKept
    <2>2. Option(InheritedUser(p))
      <3>1. p.containers[1] \in Containers(p)
        BY DEF Formed
      <3>2. Option(p.containers[1].uid) /\ Option(p.uid)
        BY <3>1 DEF Formed
      <3> QED BY <3>2, ElseOption DEF InheritedUser
    <2>3. User(p, i) = Only(InheritedUser(p))
      BY <1>1, <2>1 DEF User, Else
    <2> QED BY <2>1, <2>2, <2>3, OnlyOf
  <1>2. CASE ~On(p, "agent-run-as-same-user")
    <2>1. User(p, i) = Only(Else(Resolved(p, i, Main, "agent-run-as-user"), {"65532"}))
      BY <1>2 DEF User, Else
    <2>2. CASE Resolved(p, i, Main, "agent-run-as-user") = {}
      <3>1. User(p, i) = Only({"65532"})
        BY <2>1, <2>2 DEF Else
      <3>2. Only({"65532"}) = "65532"
        BY OnlyOne
      <3> QED BY <3>1, <3>2
    <2>3. CASE Resolved(p, i, Main, "agent-run-as-user") # {}
      <3>1. User(p, i) \in Resolved(p, i, Main, "agent-run-as-user")
        BY <2>1, <2>3 DEF Else, Only
      <3>2. WellFormed("agent-run-as-user", User(p, i))
        BY <3>1, ResolvedFormed
      <3>3. Number[User(p, i)] >= 1
        BY <3>2, NumberFormed DEF Numeric, NeverZero
      <3> QED BY <3>3, NumberAssumption
    <2> QED BY <2>2, <2>3
  <1> QED BY <1>1, <1>2

-----------------------------------------------------------------------------
(* A pinned value is what an agent is given.                                *)

LEMMA PinResolves ==
  ASSUME NEW p, NEW i, Option(i.source), NEW r, PinsKept(p, i, r),
         NEW key \in PerRender \cup PodWide, NEW s \in Default(p, i, r, key), s.pinned
  PROVE  Resolved(p, i, r, key) = {s.value}
  <1> DEFINE values == {x.value : x \in Default(p, i, r, key)}
  <1>1. Default(p, i, r, key) = {s}
    BY DefaultOption DEF Option
  <1>2. values = {s.value}
    BY <1>1
  <1>3. Note(p, r, key) \subseteq {s.value}
    BY DEF PinsKept
  <1>4. Resolved(p, i, r, key) = Else(Note(p, r, key), values)
    BY DEF Resolved
  <1> HIDE DEF values
  <1> QED BY <1>2, <1>3, <1>4 DEF Else

\* The other half of a pair does not come in its way.
LEMMA PinLevels ==
  ASSUME NEW p, NEW i, NEW r,
         NEW key \in {"endpoint", "endpoint-secret", "template", "template-configmap"},
         NEW s \in Default(p, i, r, key),
         Option(i.source), PinsKept(p, i, r), s.pinned
  PROVE  Level(p, i, r, key) = {s.value}
  <1> DEFINE half == <<key, Other(key)>>
  <1>1. half \in Halves /\ half[1] = key /\ half[2] = Other(key)
    BY HalvesIs
  <1> HIDE DEF half
  <1>2. key \in PerRender
    BY DEF PerRender
  <1>3. Resolved(p, i, r, key) = {s.value}
    BY <1>2, PinResolves
  <1>4. CASE Note(p, r, Other(key)) = {}
    BY <1>3, <1>4 DEF Level
  <1>5. CASE Note(p, r, Other(key)) # {}
    <2>1. Note(p, r, key) # {} /\ Note(p, r, key) \subseteq {s.value}
      BY <1>1, <1>2, <1>5 DEF PinsKept
    <2> QED BY <1>5, <2>1 DEF Level
  <1> QED BY <1>4, <1>5

LEMMA GivenOne ==
  ASSUME NEW p, NEW i, NEW r, NEW watch, NEW flag \in Flags,
         NEW v, Passed(p, i, r, watch, flag) = {v}
  PROVE  Given(Args(p, i, r, watch), flag) = {v}
  <1>1. Option(Passed(p, i, r, watch, flag))
    BY DEF Option
  <1>2. Given(Args(p, i, r, watch), flag) = Passed(p, i, r, watch, flag)
    BY <1>1, ArgIs
  <1> QED BY <1>2

LEMMA GivenNone ==
  ASSUME NEW p, NEW i, NEW r, NEW watch, NEW flag \in Flags, Passed(p, i, r, watch, flag) = {}
  PROVE  Given(Args(p, i, r, watch), flag) = {}
  BY GivenAmong

\* The arguments say `value` for the key.
StoreSays(args, key, value) ==
  /\ key = "endpoint" => Given(args, "endpoint") = {value}
  /\ key = "template" => Given(args, "template-inline") = {value}
  /\ key = "template-configmap" => Given(args, "template") = {value}
  /\ key = "ca-configmap" => Given(args, "ca") = {value}
  /\ key = "tls-secret" => Given(args, "tls-cert") = {value}
  /\ key = "ssh-secret" => Given(args, "ssh-key") = {value}
  /\ key \in {"endpoint", "auth", "section", "auth-mount", "auth-role", "auth-username",
              "auth-token-path", "namespace", "ref", "api-url", "file-mode", "key", "path"}
       => Given(args, key) = {value}

WatchSays(args, key, value) ==
  /\ key = "watch-seconds" => Given(args, "watch") = {value}
  /\ key = "metrics-port" => Else(Given(args, "metrics"), {"0"}) = {value}

\* An argument is what its key resolves to.
LEMMA PinnedStore ==
  ASSUME NEW p, NEW i, Option(i.source), NEW r, PinsKept(p, i, r), NEW watch,
         NEW key, NEW s \in Default(p, i, r, key), s.pinned
  PROVE  StoreSays(Args(p, i, r, watch), key, s.value)
  <1> USE DEF StoreSays
  <1> DEFINE args == Args(p, i, r, watch)
  <1>1. ASSUME NEW flag \in Flags, Passed(p, i, r, watch, flag) = {s.value}
        PROVE  Given(args, flag) = {s.value}
    BY <1>1, GivenOne
  <1>2. ASSUME key \in {"endpoint", "endpoint-secret", "template", "template-configmap"}
        PROVE  Level(p, i, r, key) = {s.value}
    BY <1>2, PinLevels
  <1>3. CASE key = "endpoint"
    <2>1. Level(p, i, r, "endpoint") = {s.value}
      BY <1>2, <1>3, HalvesIs
    <2> QED BY <1>1, <1>3, <2>1, StorePassed, FlagsHas
  <1>4. CASE key \in {"template", "template-configmap"}
    <2>1. Level(p, i, r, key) = {s.value}
      BY <1>2, <1>4, HalvesIs
    <2> QED BY <1>1, <1>4, <2>1, StorePassed, FlagsHas
  <1>5. CASE key \in {"ca-configmap", "tls-secret", "ssh-secret", "auth"}
    <2>1. Resolved(p, i, r, key) = {s.value}
      BY <1>5, PinResolves DEF PerRender
    <2>2. key = "auth" => Passed(p, i, r, watch, "auth") = {s.value}
      BY <2>1, StorePassed DEF Else
    <2> QED BY <1>1, <1>5, <2>1, <2>2, StorePassed, FlagsHas
  <1>6. CASE key \in {"section", "auth-mount", "auth-role", "auth-username", "auth-token-path",
                      "namespace", "ref", "api-url", "file-mode", "key", "path"}
    <2>1. Resolved(p, i, r, key) = {s.value}
      BY <1>6, PinResolves DEF PerRender
    <2>2. Passed(p, i, r, watch, key) = {s.value} /\ key \in Flags
      BY <1>6, <2>1, PassedOnIs, FlagsHas
    <2> QED BY <1>1, <1>6, <2>2
  <1> QED BY <1>3, <1>4, <1>5, <1>6

LEMMA PinnedWatch ==
  ASSUME NEW p, NEW i, Option(i.source), NEW r, PinsKept(p, i, r), NEW watch \in BOOLEAN,
         NEW key, NEW s \in Default(p, i, r, key), s.pinned
  PROVE  watch => WatchSays(Args(p, i, r, watch), key, s.value)
  <1> USE DEF WatchSays
  <1> DEFINE args == Args(p, i, r, watch)
  <1>1. "watch" \in Flags /\ "metrics" \in Flags
    BY FlagsHas
  <1>2. watch => /\ Passed(p, i, r, watch, "watch") = {Watches(p, i, r)}
                 /\ Passed(p, i, r, watch, "metrics") = Port(p, i, r)
    BY WatchPassed
  <1>3. ASSUME NEW flag \in Flags, Passed(p, i, r, watch, flag) = {s.value}
        PROVE  Given(args, flag) = {s.value}
    BY <1>3, GivenOne
  <1>4. CASE watch /\ key = "watch-seconds"
    <2>1. Resolved(p, i, r, key) = {s.value}
      BY <1>4, PinResolves DEF PerRender
    <2>2. Watches(p, i, r) = s.value
      <3>1. Watches(p, i, r) = Only({s.value})
        BY <1>4, <2>1 DEF Watches, Else
      <3> QED BY <3>1, OnlyOne
    <2>3. Passed(p, i, r, watch, "watch") = {s.value}
      BY <1>2, <1>4, <2>2
    <2> QED BY <1>1, <1>4, <1>3, <2>3
  <1>5. CASE watch /\ key = "metrics-port"
    <2>1. Resolved(p, i, r, key) = {s.value} /\ Note(p, r, key) \subseteq {s.value}
      BY <1>5, PinResolves DEF PerRender, PinsKept
    <2>2. CASE Note(p, r, key) = {"0"}
      <3>1. s.value = "0" /\ Port(p, i, r) = {}
        BY <1>5, <2>1, <2>2 DEF Port
      <3>2. Given(args, "metrics") = {}
        BY <1>1, <1>2, <1>5, <3>1, GivenNone
      <3> QED BY <1>5, <3>1, <3>2 DEF Else
    <2>3. CASE Note(p, r, key) # {"0"}
      <3>1. Port(p, i, r) = {s.value}
        BY <1>5, <2>1, <2>3 DEF Port
      <3>2. Given(args, "metrics") = {s.value}
        BY <1>1, <1>2, <1>3, <1>5, <3>1
      <3> QED BY <1>5, <3>2 DEF Else
    <2> QED BY <2>2, <2>3
  <1> QED BY <1>4, <1>5

\* Of a secret's variable there is one value, unless the variable was named
\* by the pod or for the fleet.
LEMMA PinnedSecret ==
  ASSUME NEW p, NEW i, Option(i.source), NEW r, PinsKept(p, i, r),
         NEW key \in {"token-secret", "password-secret", "endpoint-secret"},
         NEW s \in Default(p, i, r, key), s.pinned,
         \A e \in Env(p, i, r) : e[1] = key => e[2] \notin {"pod", "fleet"}
  PROVE  Variable(Env(p, i, r), key) = {s.value}
  <1> DEFINE given == IF key = "endpoint-secret" THEN Level(p, i, r, key) ELSE Resolved(p, i, r, key)
  <1>1. given = {s.value}
    <2>1. CASE key = "endpoint-secret"
      <3>1. Level(p, i, r, key) = {s.value}
        BY <2>1, PinLevels
      <3> QED BY <2>1, <3>1
    <2>2. CASE key # "endpoint-secret"
      BY <2>2, PinResolves DEF PerRender
    <2> QED BY <2>1, <2>2
  <1>2. ASSUME NEW v \in given PROVE <<key, v>> \in Env(p, i, r)
    BY <1>2 DEF Env
  <1>3. ASSUME NEW e \in Env(p, i, r), e[1] = key PROVE e[2] \in given
    <2>1. e[2] \notin {"pod", "fleet"}
      BY <1>3
    <2>2. key \notin Aws
      BY DEF Aws
    <2> QED BY <1>3, <2>1, <2>2 DEF Env
  <1> HIDE DEF given
  <1>4. <<key, s.value>> \in Env(p, i, r) /\ \A e \in Env(p, i, r) : e[1] = key => e[2] = s.value
    BY <1>1, <1>2, <1>3
  <1>5. <<key, s.value>>[1] = key /\ <<key, s.value>>[2] = s.value
    OBVIOUS
  <1> QED BY <1>4, <1>5 DEF Variable

LEMMA PinnedAws ==
  ASSUME NEW p, NEW i, Option(i.source), PinsKept(p, i, Main), AwsKept(p, i), NEW r,
         NEW s \in Default(p, i, Main, "aws-secret"), s.pinned
  PROVE  UNION {Variable(Env(p, i, r), name) : name \in Aws} = {s.value}
  <1> SUFFICES ASSUME NEW name \in Aws PROVE Variable(Env(p, i, r), name) = {s.value}
    BY DEF Aws
  <1>1. Resolved(p, i, Main, "aws-secret") = {s.value}
    BY PinResolves DEF PodWide
  <1>2. name \notin Note(p, Main, "agent-env") /\ name \in Aside(p, i) /\ name \in Aws
    BY <1>1 DEF AwsKept, Aside
  <1>3. <<name, s.value>> \in Env(p, i, r)
    BY <1>1, <1>2 DEF Env
  <1>6. name \notin {"token-secret", "password-secret", "endpoint-secret"}
    BY DEF Aws
  <1>4. ASSUME NEW e \in Env(p, i, r), e[1] = name PROVE e[2] = s.value
    BY <1>1, <1>2, <1>4, <1>6 DEF Env
  <1>5. <<name, s.value>>[1] = name /\ <<name, s.value>>[2] = s.value
    OBVIOUS
  <1> QED BY <1>3, <1>4, <1>5 DEF Variable

\* What the containers themselves run with.
LEMMA PinnedPod ==
  ASSUME NEW p, NEW i, Option(i.source), PinsKept(p, i, Main),
         NEW key, NEW s \in Default(p, i, Main, key), s.pinned
  PROVE  /\ key \in DOMAIN Resources(p, i) => Resources(p, i)[key] = {s.value}
         /\ key = "agent-run-as-user" /\ ~On(p, "agent-run-as-same-user") => User(p, i) = s.value
         /\ key = "agent-run-as-group" => Group(p, i) = s.value
         /\ key = "mode" => Mode(p, i) = s.value
         /\ key = "native-sidecar" => (Native(p, i) <=> s.value = "true")
         /\ key = "volume-medium" => (InMemory(p, i) <=> s.value # "disk")
  <1>1. CASE key \in DOMAIN Resources(p, i)
    <2>1. Resolved(p, i, Main, key) = {s.value}
      BY <1>1, PinResolves DEF Resources, PodWide
    <2> QED BY <1>1, <2>1 DEF Resources
  <1>2. CASE key \in {"agent-run-as-user", "agent-run-as-group"}
    <2>1. Resolved(p, i, Main, key) = {s.value}
      BY <1>2, PinResolves DEF PodWide
    <2>2. key = "agent-run-as-user" /\ ~On(p, "agent-run-as-same-user") => User(p, i) = Only({s.value})
      BY <2>1 DEF User, Else
    <2>3. key = "agent-run-as-group" => Group(p, i) = Only({s.value})
      BY <2>1 DEF Group, Else
    <2> QED BY <1>2, <2>2, <2>3, OnlyOne DEF Resources
  <1>3. CASE key \in {"mode", "native-sidecar", "volume-medium"}
    <2>1. Resolved(p, i, Main, key) = {s.value}
      BY <1>3, PinResolves DEF PodWide
    <2>2. key = "mode" => Mode(p, i) = Only({s.value})
      BY <2>1 DEF Mode, Else
    <2> QED BY <1>3, <2>1, <2>2, OnlyOne DEF Resources, Native, InMemory
  <1> QED BY <1>1, <1>2, <1>3

\* The store that the default render names, where the installation pins one.
LEMMA PinnedSource ==
  ASSUME NEW p, NEW i, Option(i.source), SourceKept(p, i), NEW watch,
         NEW s \in SuppliedSource(i), s.pinned
  PROVE  Given(Args(p, i, Main, watch), "source") = {s.value}
  <1>1. s.value \in i.source
    BY DEF SuppliedSource
  <1>2. i.source = {s.value}
    BY <1>1 DEF Option
  <1>3. Note(p, Main, "source") \subseteq {s.value}
    BY DEF SourceKept
  <1>4. Store(p, i, Main) = Else(Note(p, Main, "source"), {s.value})
    BY <1>2 DEF Store
  <1>5. Store(p, i, Main) = {s.value}
    BY <1>3, <1>4 DEF Else
  <1>6. Passed(p, i, Main, watch, "source") = {s.value}
    BY <1>5, StorePassed
  <1> QED BY <1>6, GivenOne, FlagsHas

=============================================================================
