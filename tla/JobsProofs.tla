----------------------------- MODULE JobsProofs -----------------------------
(***************************************************************************)
(* Proofs about Jobs for any devices, jobs and number of sessions, and     *)
(* about CommonInventory for any inventory streams of a device.            *)
(***************************************************************************)
EXTENDS Jobs, CommonInventory, FiniteSetTheorems, WellFoundedInduction, TLAPS

\* What the runner says of itself is true, and what it has yet to do belongs
\* to the round it is in.
Accounted ==
  /\ running <=> pc # "none"
  /\ owner = None <=> pc = "none"
  /\ left # {} => pc \in {"plugins", "run"}
  /\ toRun # {} => pc = "run"
  /\ pc = "run" => device \in Devices
  /\ executing # None => pc = "run"

\* The runner knows the plugin of every job, and runs jobs that were started.
\* The one it runs was asked for before it began.
Known ==
  /\ \A j \in jobs : j[1] \in plugs
  /\ toRun \subseteq jobs
  /\ executing \in jobs \cup {None}
  /\ executing \notin asked
  /\ \A j \in Jobs : firstRun[j] => j \in jobs

Inv == TypeOK /\ Accounted /\ Known /\ NotForgotten

-----------------------------------------------------------------------------
LEMMA JobsAre == ASSUME NEW j \in Jobs PROVE j[1] \in Devices /\ j[2] \in Names
BY DEF Jobs

LEMMA InitInv == Init => Inv
<1> SUFFICES ASSUME Init PROVE Inv
  OBVIOUS
<1>1. 1 \in Sessions
  BY JobsAssumption DEF Sessions
<1>2. TypeOK
  BY <1>1 DEF Init, TypeOK
<1>3. Accounted
  BY DEF Init, Accounted
<1>4. Known /\ NotForgotten
  BY DEF Init, Known, NotForgotten
<1> QED
  BY <1>2, <1>3, <1>4 DEF Inv

\* StartRunner leaves alone what it does not name, and starts one runner.
LEMMA Starting ==
  ASSUME Inv, NEW d \in Devices, StartRunner(d)
  PROVE  /\ plugs' = plugs \cup {d} /\ running' = TRUE
         /\ pc' # "none" /\ owner' \in Devices \X Sessions
         /\ running => UNCHANGED <<pc, owner>>
         /\ ~running => pc' = "scan" /\ left = {} /\ toRun = {} /\ executing = None
         /\ left \subseteq left' /\ left' \subseteq left \cup {d}
         /\ left' # left => pc \in {"plugins", "run"}
<1> USE JobsAssumption DEF Inv, TypeOK, Accounted
<1>1. running \in BOOLEAN /\ <<d, session[d]>> \in Devices \X Sessions
  OBVIOUS
<1>2. CASE running
  BY <1>1, <1>2 DEF StartRunner
<1>3. CASE ~running
  BY <1>1, <1>3 DEF StartRunner
<1> QED
  BY <1>2, <1>3

LEMMA DelegateInv ==
  ASSUME Inv, NEW j \in Jobs, NEW u \in BOOLEAN, Delegate(j, u)
  PROVE  Inv'
<1>0. j[1] \in Devices
  BY JobsAre
<1>1. Inv
  OBVIOUS
<1>2. /\ plugs' = plugs \cup {j[1]} /\ running' = TRUE
      /\ pc' # "none" /\ owner' \in Devices \X Sessions
      /\ running => UNCHANGED <<pc, owner>>
      /\ ~running => pc' = "scan" /\ left = {} /\ toRun = {} /\ executing = None
      /\ left \subseteq left' /\ left' \subseteq left \cup {j[1]}
      /\ left' # left => pc \in {"plugins", "run"}
  <2>1. StartRunner(j[1])
    BY DEF Delegate
  <2> QED
    BY <1>0, <2>1, Starting
<1>3. /\ jobs' = jobs \cup {j}
      /\ firstRun' = [firstRun EXCEPT ![j] = @ /\ ~u]
      /\ wakeup' = (wakeup \/ u \/ j \notin jobs)
      /\ UNCHANGED <<session, due, device, toRun, executing>>
  BY DEF Delegate
<1>10. asked' = IF u \/ j \notin jobs THEN asked \cup ({j} \ {executing}) ELSE asked
  BY DEF Delegate, Ask
<1>4. firstRun' \in [Jobs -> BOOLEAN] /\ wakeup' \in BOOLEAN
  BY <1>3 DEF Inv, TypeOK
<1>5. pc' \in {"none", "scan", "sleep", "plugins", "run", "return"}
  BY <1>2 DEF Inv, TypeOK
<1>6. TypeOK'
  BY <1>0, <1>2, <1>3, <1>4, <1>5, <1>10 DEF Inv, TypeOK
<1>7. Accounted'
  BY <1>2, <1>3, JobsAssumption DEF Inv, TypeOK, Accounted
<1>8. Known'
  <2>1. \A i \in Jobs : firstRun'[i] => firstRun[i]
    BY <1>3 DEF Inv, TypeOK
  <2> QED
    BY <1>2, <1>3, <1>10, <2>1 DEF Inv, Known
<1>9. NotForgotten'
  <2> SUFFICES ASSUME NEW i \in asked'
               PROVE  /\ i \in jobs' /\ ~firstRun'[i]
                      /\ wakeup' \/ i \in toRun' \/ i[1] \in left'
    BY DEF NotForgotten
  <2>1. CASE i \in asked
    <3>1. /\ i \in jobs /\ ~firstRun[i]
          /\ wakeup \/ i \in toRun \/ i[1] \in left
      BY <2>1 DEF Inv, NotForgotten
    <3>2. ~firstRun'[i]
      BY <1>3, <3>1 DEF Inv, TypeOK
    <3> QED
      BY <3>1, <3>2, <1>2, <1>3
  <2>2. CASE i = j /\ (u \/ j \notin jobs)
    <3>1. ~firstRun'[i]
      BY <2>2, <1>3 DEF Inv, TypeOK, Known
    <3> QED
      BY <2>2, <3>1, <1>3
  <2> QED
    BY <2>1, <2>2, <1>10
<1> QED
  BY <1>6, <1>7, <1>8, <1>9 DEF Inv

LEMMA RunnerInv == Inv /\ Runner => Inv'
<1> SUFFICES ASSUME Inv, Runner PROVE Inv'
  OBVIOUS
<1> USE JobsAssumption DEF Inv, TypeOK, Accounted, Known, NotForgotten, Sessions
<1>1. CASE Scan
  BY <1>1 DEF Scan, jobVars
<1>2. CASE Wake
  BY <1>2 DEF Wake, jobVars
<1>3. CASE Leave
  BY <1>3 DEF Leave, jobVars
<1>4. CASE Return
  BY <1>4 DEF Return, jobVars
<1>5. CASE PluginDone
  BY <1>5 DEF PluginDone, jobVars
<1>6. CASE RoundDone
  BY <1>6 DEF RoundDone, jobVars
<1>7. ASSUME NEW d \in Devices, Plugin(d) PROVE Inv'
  BY <1>7 DEF Plugin, jobVars, Jobs
<1>8. ASSUME NEW j \in Jobs, Execute(j) PROVE Inv'
  BY <1>8 DEF Execute
<1>9. ASSUME NEW j \in Jobs, Executed(j) PROVE Inv'
  <2>1. j \in jobs /\ j \notin asked /\ j # None
    BY <1>9 DEF Executed
  <2>2. /\ firstRun' \in [Jobs -> BOOLEAN]
        /\ \A i \in Jobs : i # j => firstRun'[i] = firstRun[i]
    BY <1>9 DEF Executed
  <2>3. UNCHANGED <<session, jobs, asked, due, plugs, running, pc, owner, left,
                    device, toRun, wakeup>> /\ executing' = None
    BY <1>9 DEF Executed
  <2>4. TypeOK' /\ Accounted'
    BY <2>2, <2>3
  <2>5. None \notin asked
    OBVIOUS
  <2>6. Known'
    BY <2>1, <2>2, <2>3, <2>5
  <2>7. NotForgotten'
    BY <2>1, <2>2, <2>3
  <2> QED
    BY <2>4, <2>6, <2>7
<1> QED
  BY <1>1, <1>2, <1>3, <1>4, <1>5, <1>6, <1>7, <1>8, <1>9 DEF Runner

LEMMA InvStep == Inv /\ [Next]_vars => Inv'
<1> SUFFICES ASSUME Inv, [Next]_vars PROVE Inv'
  OBVIOUS
<1>1. CASE UNCHANGED vars
  BY <1>1 DEF vars, jobVars, runnerVars, Inv, TypeOK, Accounted, Known, NotForgotten
<1>2. ASSUME NEW j \in Jobs, NEW u \in BOOLEAN, Delegate(j, u) PROVE Inv'
  BY <1>2, DelegateInv
<1>3. ASSUME NEW j \in Jobs, RunJobNow(j) PROVE Inv'
  BY <1>3, JobsAssumption
  DEF RunJobNow, Ask, runnerVars, Inv, TypeOK, Accounted, Known, NotForgotten
<1>4. CASE Runner
  BY <1>4, RunnerInv
<1>5. ASSUME NEW d \in Devices, Tick(d) PROVE Inv'
  BY <1>5 DEF Tick, jobVars, runnerVars, Inv, TypeOK, Accounted, Known, NotForgotten
<1>6. ASSUME NEW d \in Devices, Reconnect(d) PROVE Inv'
  <2>1. session' \in [Devices -> Sessions]
    BY <1>6, JobsAssumption DEF Reconnect, Sessions, Inv, TypeOK
  <2> QED
    BY <1>6, <2>1 DEF Reconnect, jobVars, runnerVars, Inv, TypeOK, Accounted, Known, NotForgotten
<1> QED
  BY <1>1, <1>2, <1>3, <1>4, <1>5, <1>6 DEF Next

LEMMA Invariance == Spec => []Inv
BY InitInv, InvStep, PTL DEF Spec

-----------------------------------------------------------------------------
\* The type invariant of the job plugins and their runner.
THEOREM TypeCorrect == Spec => []TypeOK
<1>1. Inv => TypeOK
  BY DEF Inv
<1> QED
  BY <1>1, Invariance, PTL

\* No job that was asked for is forgotten, whatever messages of any number of
\* devices come while the runner is at its round, except messages for a job that
\* come while it runs.
THEOREM NoJobForgotten == Spec => []NotForgotten
<1>1. Inv => NotForgotten
  BY DEF Inv
<1> QED
  BY <1>1, Invariance, PTL

\* The runner is started again only when the one before it has ended.
THEOREM AtMostOneRunner == Spec => OneRunner
<1>1. Inv /\ [Next]_vars => [owner' # owner => owner = None \/ owner' = None]_vars
  <2> SUFFICES ASSUME Inv, Next PROVE owner' # owner => owner = None \/ owner' = None
    OBVIOUS
  <2>1. ASSUME NEW j \in Jobs, NEW u \in BOOLEAN, Delegate(j, u)
        PROVE  owner' # owner => owner = None
    BY <2>1 DEF Delegate, StartRunner, Inv, Accounted
  <2>2. ASSUME NEW j \in Jobs, RunJobNow(j) PROVE owner' = owner
    BY <2>2 DEF RunJobNow, runnerVars
  <2>3. CASE Runner
    BY <2>3 DEF Runner, Scan, Wake, Leave, Return, PluginDone, RoundDone, Plugin, Execute,
           Executed
  <2>4. ASSUME NEW d \in Devices, Tick(d) \/ Reconnect(d) PROVE owner' = owner
    BY <2>4 DEF Tick, Reconnect, runnerVars
  <2> QED
    BY <2>1, <2>2, <2>3, <2>4 DEF Next
<1> QED
  BY <1>1, Invariance, PTL DEF Spec, OneRunner

-----------------------------------------------------------------------------
(***************************************************************************)
(* Folds.  A set of naturals that has 0, and with each element the next,   *)
(* has them all, since the least that it lacked would follow one that it   *)
(* has.  So the folds of the library, whose index sets are taken from the  *)
(* greatest index down, make one step for each item of a sequence.         *)
(***************************************************************************)
\* A set of naturals that is not empty has a least element.
LEMMA NatLeast ==
  ASSUME NEW T, T \subseteq Nat, T # {} PROVE \E x \in T : \A y \in T : x <= y
<1>1. IsWellFoundedOn(OpToRel(<, Nat), Nat)
  BY NatLessThanWellFounded
<1>2. PICK x \in T : \A y \in T : ~ (<<y, x>> \in OpToRel(<, Nat))
  BY <1>1, WFMin
<1>3. ASSUME NEW y \in T PROVE x <= y
  <2> SUFFICES ASSUME y < x PROVE FALSE
    OBVIOUS
  <2> QED
    BY <1>2 DEF OpToRel
<1> QED
  BY <1>3

\* The set of the naturals that something holds of has all of them.
LEMMA Counting ==
  ASSUME NEW T, 0 \in T, \A n \in Nat : n \in T => n + 1 \in T PROVE \A n \in Nat : n \in T
<1> SUFFICES ASSUME Nat \ T # {} PROVE FALSE
  OBVIOUS
<1>1. PICK x \in Nat \ T : \A y \in Nat \ T : x <= y
  BY NatLeast
<1>2. x - 1 \in Nat /\ x - 1 \in T
  BY <1>1
<1> QED
  BY <1>1, <1>2

\* A fold over 1 .. n takes the greatest index that is left.
LEMMA MaxIn ==
  ASSUME NEW n \in Nat, NEW s \in SUBSET (1 .. n), s # {}
  PROVE  /\ Max(s) \in s /\ \A x \in s : x <= Max(s)
         /\ s \ {Max(s)} \in SUBSET (1 .. n)
<1> DEFINE T == {m \in Nat : \A x \in s : x <= m}
<1>1. n \in T
  OBVIOUS
<1>2. PICK m \in T : \A y \in T : m <= y
  BY <1>1, NatLeast
<1>3. m \in s
  <2> SUFFICES ASSUME m \notin s PROVE FALSE
    OBVIOUS
  <2>1. m \in Nat /\ \A x \in s : x <= m /\ x # m /\ x \in Nat /\ x > 0
    BY <1>2
  <2>2. PICK x \in s : TRUE
    OBVIOUS
  <2>4. m - 1 \in Nat
    BY <2>1, <2>2
  <2>5. ASSUME NEW y \in s PROVE y <= m - 1
    BY <2>1
  <2>3. m - 1 \in T
    BY <2>4, <2>5
  <2> QED
    BY <1>2, <2>1, <2>2, <2>3, <2>4
<1>4. \E x \in s : \A y \in s : x >= y
  BY <1>2, <1>3
<1> QED
  BY <1>4 DEF Max

LEMMA MaxOf == ASSUME NEW n \in Nat PROVE Max(1 .. n + 1) = n + 1 /\ (1 .. n + 1) \ {n + 1} = 1 .. n
<1>1. (1 .. n + 1) \in SUBSET (1 .. n + 1) /\ (1 .. n + 1) # {}
  OBVIOUS
<1>2. Max(1 .. n + 1) \in 1 .. n + 1 /\ \A x \in 1 .. n + 1 : x <= Max(1 .. n + 1)
  BY <1>1, MaxIn
<1> QED
  BY <1>2

\* What the library folds by, F given as a function: g of a set of indices is F of
\* g of the set without its greatest one.
Iterate(g, n, a, F) ==
  \A s \in SUBSET (1 .. n) : g[s] = IF s = {} THEN a ELSE F[<<g[s \ {Max(s)}], Max(s)>>]

HasIterate(m, S, a, F) == \E g \in [SUBSET (1 .. m) -> S] : Iterate(g, m, a, F)

\* There is one for every n: the CHOOSE of the library has something to choose.
LEMMA Iterates ==
  ASSUME NEW n \in Nat, NEW S, NEW a \in S, NEW F \in [S \X (1 .. n) -> S]
  PROVE  HasIterate(n, S, a, F)
<1> DEFINE T == {m \in Nat : m <= n => HasIterate(m, S, a, F)}
<1>1. 0 \in T
  <2> DEFINE g == [s \in SUBSET (1 .. 0) |-> a]
  <2>1. \A s \in SUBSET (1 .. 0) : s = {}
    OBVIOUS
  <2>2. g \in [SUBSET (1 .. 0) -> S] /\ Iterate(g, 0, a, F)
    BY <2>1 DEF Iterate
  <2> QED
    BY <2>2 DEF HasIterate
<1>2. ASSUME NEW m \in Nat, m \in T PROVE m + 1 \in T
  <2> SUFFICES ASSUME m + 1 <= n PROVE HasIterate(m + 1, S, a, F)
    OBVIOUS
  <2>0. HasIterate(m, S, a, F)
    BY <1>2
  <2>1. PICK g \in [SUBSET (1 .. m) -> S] : Iterate(g, m, a, F)
    BY <2>0 DEF HasIterate
  <2> DEFINE h == [s \in SUBSET (1 .. m + 1) |->
                     IF m + 1 \in s THEN F[<<g[s \ {m + 1}], m + 1>>] ELSE g[s]]
  <2>2. ASSUME NEW s \in SUBSET (1 .. m + 1), m + 1 \in s
        PROVE  /\ s \ {m + 1} \in SUBSET (1 .. m)
               /\ Max(s) = m + 1
               /\ h[s] = F[<<g[s \ {m + 1}], m + 1>>]
               /\ h[s \ {m + 1}] = g[s \ {m + 1}]
               /\ h[s] \in S
    <3>1. s \ {m + 1} \in SUBSET (1 .. m) /\ s # {}
      BY <2>2
    <3>2. Max(s) = m + 1
      <4>1. Max(s) \in s /\ \A x \in s : x <= Max(s)
        BY <3>1, MaxIn
      <4>2. Max(s) \in 1 .. m + 1 /\ m + 1 <= Max(s)
        BY <4>1, <2>2
      <4> QED
        BY <4>2
    <3>3. g[s \ {m + 1}] \in S /\ m + 1 \in 1 .. n
      BY <3>1
    <3> QED
      BY <2>2, <3>1, <3>2, <3>3
  <2>3. ASSUME NEW s \in SUBSET (1 .. m + 1), m + 1 \notin s
        PROVE  s \in SUBSET (1 .. m) /\ h[s] = g[s] /\ h[s] \in S
               /\ (s # {} => Max(s) \in s /\ h[s \ {Max(s)}] = g[s \ {Max(s)}])
    <3>1. s \in SUBSET (1 .. m)
      BY <2>3
    <3>2. h[s] = g[s] /\ h[s] \in S
      BY <2>3, <3>1
    <3>3. ASSUME s # {} PROVE Max(s) \in s /\ h[s \ {Max(s)}] = g[s \ {Max(s)}]
      <4>1. Max(s) \in s /\ s \ {Max(s)} \in SUBSET (1 .. m)
        BY <3>1, <3>3, MaxIn
      <4>2. s \ {Max(s)} \in SUBSET (1 .. m + 1) /\ m + 1 \notin s \ {Max(s)}
        BY <2>3
      <4> QED
        BY <4>1, <4>2
    <3> QED
      BY <3>1, <3>2, <3>3
  <2>4. h \in [SUBSET (1 .. m + 1) -> S]
    BY <2>2, <2>3
  <2>5. ASSUME NEW s \in SUBSET (1 .. m + 1)
        PROVE  h[s] = IF s = {} THEN a ELSE F[<<h[s \ {Max(s)}], Max(s)>>]
    <3> HIDE DEF h
    <3>1. CASE m + 1 \in s
      BY <3>1, <2>2
    <3>2. CASE m + 1 \notin s
      BY <3>2, <2>3, <2>1 DEF Iterate
    <3> QED
      BY <3>1, <3>2
  <2> QED
    BY <2>4, <2>5 DEF Iterate, HasIterate
<1>3. n \in T
  BY <1>1, <1>2, Counting
<1> QED
  BY <1>3

(***************************************************************************)
(* CommonInventory for any numbers of streams, types, objects, versions and *)
(* upserts of a message, and any init messages: first its operators on     *)
(* accumulators.                                                           *)
(***************************************************************************)
\* The accumulators, those with n items held back, and those that start a pass.
Accs == [cache : [Keys -> 0 .. MaxVersion], missing : Seq(Items), ups : Seq(Items),
         still : Nat, panic : BOOLEAN]
Having(n) == {a \in Accs : Len(a.missing) = n /\ a.still <= n}
Fresh == {a \in Accs : a.still = 0}

Peers == /\ msg \in [Streams -> InitMessages]
         /\ peer \in [Streams -> [Objects -> [Rels -> 1 .. PerType]]]

\* The keys that the object of a key relates to, and whether one of them has a version.
To(k) == {Related(k, r) : r \in {q \in Relations(k) : RelType[q] # NoType}}
Ready(c, k) == Relations(k) = {} \/ \E y \in To(k) : c[y] # 0

LEMMA FreshHas ==
  ASSUME NEW a \in Fresh PROVE a \in Accs /\ Len(a.missing) \in Nat /\ a \in Having(Len(a.missing))
<1>1. a \in Accs /\ a.still = 0 /\ a.missing \in Seq(Items)
  BY DEF Fresh, Accs
<1>2. Len(a.missing) \in Nat
  BY <1>1
<1> QED
  BY <1>1, <1>2 DEF Having

LEMMA RelationsIn ==
  ASSUME Peers, NEW k \in Keys
  PROVE  /\ Relations(k) \subseteq Rels /\ To(k) \subseteq Keys
         /\ \A R \in SUBSET Relations(k) : Cardinality(R) \in Nat
<1>1. /\ k[1] \in Streams /\ k[2] \in Types /\ k[3] \in 1 .. PerType
      /\ <<k[2], k[3]>> \in Objects
  BY DEF Keys, Objects
<1>2. Relations(k) \subseteq Rels
  BY <1>1 DEF Relations, Peers, InitMessages
<1>3. ASSUME NEW r \in Relations(k), RelType[r] # NoType PROVE Related(k, r) \in Keys
  <2>1. RelType[r] \in Types
    BY <1>2, <1>3, CommonInventoryAssumption
  <2>2. peer[k[1]][<<k[2], k[3]>>][r] \in 1 .. PerType
    BY <1>1, <1>2, <1>3 DEF Peers
  <2> QED
    BY <1>1, <2>1, <2>2 DEF Related, Keys
<1>4. \A R \in SUBSET Relations(k) : Cardinality(R) \in Nat
  BY <1>2, CommonInventoryAssumption, FS_Subset, FS_CardinalityType
<1> QED
  BY <1>2, <1>3, <1>4 DEF To

\* Of the relationships that resolve.
LEMMA FoundIs ==
  ASSUME NEW c, NEW k
  PROVE  /\ Found(c, k) \subseteq Relations(k)
         /\ Found(c, k) # {} <=> \E y \in To(k) : c[y] # 0
         /\ Resolves(c, k) => Ready(c, k)
         /\ ~Resolves(c, k) => Relations(k) # {}
BY DEF Found, To, Resolves, Ready

LEMMA PutIs ==
  ASSUME NEW a \in Accs, NEW x \in Items
  PROVE  /\ Put(a, x) \in Accs
         /\ Put(a, x).cache = [a.cache EXCEPT ![x[1]] = x[2]]
         /\ Put(a, x).missing = a.missing
         /\ Put(a, x).ups = Append(a.ups, x)
         /\ Put(a, x).still = a.still /\ Put(a, x).panic = a.panic
<1>1. /\ x[1] \in Keys /\ x[2] \in 0 .. MaxVersion
      /\ a.cache \in [Keys -> 0 .. MaxVersion] /\ a.ups \in Seq(Items)
  BY CommonInventoryAssumption DEF Accs, Items
<1>2. [a.cache EXCEPT ![x[1]] = x[2]] \in [Keys -> 0 .. MaxVersion]
  BY <1>1
<1>3. Append(a.ups, x) \in Seq(Items)
  BY <1>1
<1> QED
  BY <1>2, <1>3 DEF Accs, Put

LEMMA HoldIs ==
  ASSUME NEW a \in Accs, NEW x \in Items
  PROVE  /\ Hold(a, x) \in Accs
         /\ Hold(a, x).cache = a.cache
         /\ Hold(a, x).missing = Append(a.missing, x)
         /\ Hold(a, x).ups = a.ups
         /\ Hold(a, x).still = a.still /\ Hold(a, x).panic = a.panic
<1>1. Append(a.missing, x) \in Seq(Items)
  BY DEF Accs
<1> QED
  BY <1>1 DEF Accs, Hold

LEMMA UpsertIs ==
  ASSUME NEW a \in Accs, NEW x \in Items
  PROVE  /\ Upsert(a, x) = IF ~Resolves(a.cache, x[1]) THEN Hold(a, x)
                           ELSE IF a.cache[x[1]] # x[2] THEN Put(a, x) ELSE a
         /\ Upsert(a, x) \in Accs
         /\ Upsert(a, x).still = a.still /\ Upsert(a, x).panic = a.panic
<1>1. Upsert(a, x) = IF ~Resolves(a.cache, x[1]) THEN Hold(a, x)
                     ELSE IF a.cache[x[1]] # x[2] THEN Put(a, x) ELSE a
  BY DEF Upsert
<1> DEFINE Same(b) == b \in Accs /\ b.still = a.still /\ b.panic = a.panic
<1>2. ASSUME Upsert(a, x) = Hold(a, x) PROVE Same(Upsert(a, x))
  BY <1>2, HoldIs
<1>3. ASSUME Upsert(a, x) = Put(a, x) PROVE Same(Upsert(a, x))
  BY <1>3, PutIs
<1>4. ASSUME Upsert(a, x) = a PROVE Same(Upsert(a, x))
  BY <1>4
<1>5. Upsert(a, x) \in {Hold(a, x), Put(a, x), a}
  BY <1>1
<1> QED
  BY <1>1, <1>2, <1>3, <1>4, <1>5

\* Items that are kept take the places from still on, or it panics.
LEMMA KeepIs ==
  ASSUME NEW a \in Accs, NEW x \in Items, NEW n \in Nat
  PROVE  LET b == Keep(a, x, n)
         IN /\ b \in Accs /\ b.cache = a.cache /\ b.ups = a.ups
            /\ Len(b.missing) = Len(a.missing)
            /\ \A j \in 1 .. Len(a.missing) : b.missing[j] =
                 IF j \in a.still + 1 .. a.still + n /\ a.still + n <= Len(a.missing)
                 THEN x ELSE a.missing[j]
            /\ a.still + n > Len(a.missing) => b.still = a.still
            /\ a.still + n <= Len(a.missing) => b.still = a.still + n /\ b.panic = a.panic
<1> DEFINE m == [j \in DOMAIN a.missing |->
                   IF j \in a.still + 1 .. a.still + n THEN x ELSE a.missing[j]]
<1>1. a.missing \in Seq(Items) /\ a.still \in Nat /\ a.panic \in BOOLEAN
  BY DEF Accs
<1>2. Len(a.missing) \in Nat /\ DOMAIN a.missing = 1 .. Len(a.missing)
  BY <1>1
<1>3. \A j \in 1 .. Len(a.missing) : a.missing[j] \in Items
  BY <1>1
<1>4. m \in Seq(Items) /\ Len(m) = Len(a.missing)
  BY <1>2, <1>3
<1>5. \A j \in 1 .. Len(a.missing) :
        m[j] = IF j \in a.still + 1 .. a.still + n THEN x ELSE a.missing[j]
  BY <1>2
<1>6. CASE a.still + n > Len(a.missing)
  <2>1. Keep(a, x, n) = [a EXCEPT !.panic = TRUE]
    BY <1>6 DEF Keep
  <2>2. /\ Keep(a, x, n).missing = a.missing /\ Keep(a, x, n).cache = a.cache
        /\ Keep(a, x, n).ups = a.ups /\ Keep(a, x, n).still = a.still
    BY <2>1 DEF Accs
  <2>3. Keep(a, x, n) \in Accs
    BY <2>1 DEF Accs
  <2> QED
    BY <1>1, <1>2, <1>6, <2>2, <2>3
<1>7. CASE ~(a.still + n > Len(a.missing))
  <2>1. Keep(a, x, n) = [a EXCEPT !.still = a.still + n, !.missing = m]
    BY <1>7 DEF Keep
  <2> HIDE DEF m
  <2>2. /\ Keep(a, x, n).still = a.still + n /\ Keep(a, x, n).missing = m
        /\ Keep(a, x, n).cache = a.cache /\ Keep(a, x, n).ups = a.ups
        /\ Keep(a, x, n).panic = a.panic
    BY <2>1 DEF Accs
  <2>4. m \in Seq(Items) /\ a.still + n \in Nat
    BY <1>1, <1>4
  <2>3. Keep(a, x, n) \in Accs
    BY <2>1, <2>4 DEF Accs
  <2> QED
    BY <1>1, <1>2, <1>4, <1>5, <1>7, <2>2, <2>3
<1> QED
  BY <1>6, <1>7

\* An item that is retried is kept, or put at a relationship that resolves.
Kept(a, b, x, n) ==
  \/ b = a /\ a.panic
  \/ ~a.panic /\ Found(a.cache, x[1]) = {} /\ b = Keep(a, x, n)
     /\ n = Cardinality(Relations(x[1]))
  \/ ~a.panic /\ Found(a.cache, x[1]) # {} /\ b = Put(Keep(a, x, n), x)
     /\ n <= Cardinality(Relations(x[1]) \ Found(a.cache, x[1]))

LEMMA RetryIs ==
  ASSUME Peers, NEW m \in Nat, NEW a \in Having(m), NEW i \in 1 .. m, NEW b \in Retry(a, i)
  PROVE  /\ b \in Having(m) /\ a.missing[i] \in Items
         /\ \E n \in Nat : Kept(a, b, a.missing[i], n)
<1> DEFINE x == a.missing[i]
           found == Found(a.cache, x[1])
           u == Cardinality(Relations(x[1]) \ found)
<1>1. /\ a \in Accs /\ Len(a.missing) = m /\ a.still <= m
      /\ a.missing \in Seq(Items) /\ a.still \in Nat /\ a.panic \in BOOLEAN
  BY DEF Having, Accs
<1>2. x \in Items /\ x[1] \in Keys
  BY <1>1 DEF Items
<1>3. u \in Nat
  BY <1>2, RelationsIn
<1>4. \/ a.panic /\ b = a
      \/ ~a.panic /\ found = {} /\ b = Keep(a, x, u)
      \/ ~a.panic /\ found # {} /\ \E n \in 0 .. u : b = Put(Keep(a, x, n), x)
  BY <1>1 DEF Retry
<1>5. found = {} => Relations(x[1]) \ found = Relations(x[1])
  OBVIOUS
<1> HIDE DEF x, found
<1>6. \E n \in Nat : Kept(a, b, x, n)
  <2>1. CASE a.panic /\ b = a
    <3>1. Kept(a, b, x, 0)
      BY <2>1 DEF Kept
    <3> QED
      BY <3>1
  <2>2. CASE ~a.panic /\ found = {} /\ b = Keep(a, x, u)
    <3>1. Kept(a, b, x, u)
      BY <1>5, <2>2 DEF Kept, found
    <3> QED
      BY <1>3, <3>1
  <2>3. ASSUME ~a.panic, found # {}, NEW n \in 0 .. u, b = Put(Keep(a, x, n), x)
        PROVE  \E h \in Nat : Kept(a, b, x, h)
    <3>1. n \in Nat /\ n <= u
      BY <1>3, <2>3
    <3>2. Kept(a, b, x, n)
      BY <2>3, <3>1 DEF Kept, found
    <3> QED
      BY <3>1, <3>2
  <2> QED
    BY <1>4, <2>1, <2>2, <2>3
<1>7. b \in Having(m)
  <2> SUFFICES ASSUME NEW n \in Nat, Kept(a, b, x, n) PROVE b \in Having(m)
    BY <1>6
  <2>1. /\ Keep(a, x, n) \in Accs /\ Len(Keep(a, x, n).missing) = m
        /\ Keep(a, x, n).still <= m
    BY <1>1, <1>2, KeepIs
  <2>2. /\ Put(Keep(a, x, n), x) \in Accs /\ Len(Put(Keep(a, x, n), x).missing) = m
        /\ Put(Keep(a, x, n), x).still <= m
    BY <1>2, <2>1, PutIs
  <2> QED
    BY <2>1, <2>2 DEF Kept, Having
<1> QED
  BY <1>2, <1>6, <1>7 DEF x

\* A fold goes through the items one by one.
Run(f, a, q, b) == f \in [0 .. Len(q) -> Accs] /\ f[0] = a /\ f[Len(q)] = b

\* Of any function h that a fold may choose, from the empty set up.
Follows(f, n, a, h, F) ==
  /\ f[0] = a /\ f[n] = h[1 .. n]
  /\ \A i \in 1 .. n : f[i] = F[<<f[i - 1], i>>]

\* Along the sets 1 .. i it is a sequence of accumulators.
LEMMA Chain ==
  ASSUME NEW n \in Nat, NEW S, NEW a \in S, NEW F \in [S \X (1 .. n) -> S],
         NEW h, h[{}] = a,
         \A s \in SUBSET (1 .. n) : s # {} /\ h[s \ {Max(s)}] \in S =>
           h[s] = F[<<h[s \ {Max(s)}], Max(s)>>]
  PROVE  \E f \in [0 .. n -> S] : Follows(f, n, a, h, F)
<1> DEFINE f == [i \in 0 .. n |-> h[1 .. i]]
<1>1. f[0] = a
  <2>1. 1 .. 0 = {}
    OBVIOUS
  <2> QED
    BY <2>1
<1>2. ASSUME NEW i \in 0 .. n, i + 1 \in 1 .. n, f[i] \in S
      PROVE  f[i + 1] = F[<<f[i], i + 1>>] /\ f[i + 1] \in S
  <2>1. i \in Nat /\ i + 1 <= n
    BY <1>2
  <2>2. Max(1 .. i + 1) = i + 1 /\ (1 .. i + 1) \ {i + 1} = 1 .. i
    BY <2>1, MaxOf
  <2>3. 1 .. i + 1 \subseteq 1 .. n /\ 1 \in 1 .. i + 1
    BY <2>1
  <2>4. (1 .. i + 1) \in SUBSET (1 .. n) /\ (1 .. i + 1) # {}
    BY <2>3
  <2>5. h[1 .. i + 1] = F[<<h[1 .. i], i + 1>>]
    BY <1>2, <2>2, <2>4
  <2> QED
    BY <1>2, <2>5
<1> HIDE DEF f
<1>3. \A i \in 0 .. n : f[i] \in S
  <2> DEFINE T == {i \in Nat : i <= n => f[i] \in S}
  <2>1. 0 \in T
    BY <1>1
  <2>2. ASSUME NEW i \in Nat, i \in T PROVE i + 1 \in T
    <3> SUFFICES ASSUME i + 1 <= n PROVE f[i + 1] \in S
      OBVIOUS
    <3>1. i \in 0 .. n /\ i + 1 \in 1 .. n /\ f[i] \in S
      BY <2>2
    <3> QED
      BY <3>1, <1>2
  <2>3. \A i \in Nat : i \in T
    BY <2>1, <2>2, Counting
  <2> QED
    BY <2>3
<1>4. f \in [0 .. n -> S] /\ f[n] = h[1 .. n]
  BY <1>3 DEF f
<1>5. ASSUME NEW i \in 1 .. n PROVE f[i] = F[<<f[i - 1], i>>]
  <2>1. i - 1 \in 0 .. n /\ (i - 1) + 1 = i
    OBVIOUS
  <2> QED
    BY <1>2, <1>3, <2>1
<1> QED
  BY <1>1, <1>4, <1>5 DEF Follows

\* The folds over items that are retried and over the items of a report.
LEMMA UpsertRuns ==
  ASSUME NEW a \in Accs, NEW q \in Seq(Items)
  PROVE  \E f : /\ Run(f, a, q, FoldLeft(Upsert, a, q))
                /\ \A i \in 1 .. Len(q) : f[i] = Upsert(f[i - 1], q[i])
<1> DEFINE n == Len(q)
           F == [p \in Accs \X (1 .. n) |-> Upsert(p[1], q[p[2]])]
           G(g) == [s \in SUBSET DOMAIN q |->
                      IF s = {} THEN a ELSE Upsert(g[s \ {Max(s)}], q[Max(s)])]
           h == CHOOSE g : g = G(g)
<1>1. n \in Nat /\ DOMAIN q = 1 .. n /\ \A i \in 1 .. n : q[i] \in Items
  OBVIOUS
<1>2. FoldLeft(Upsert, a, q) = h[DOMAIN q]
  BY DEF FoldLeft, MapThenFoldSet
<1>3. F \in [Accs \X (1 .. n) -> Accs]
  BY <1>1, UpsertIs
<1>4. PICK g \in [SUBSET (1 .. n) -> Accs] : Iterate(g, n, a, F)
  BY <1>1, <1>3, Iterates DEF HasIterate
<1>5. g = G(g)
  <2>1. ASSUME NEW s \in SUBSET (1 .. n), s # {}
        PROVE  g[s] = Upsert(g[s \ {Max(s)}], q[Max(s)])
    <3>1. Max(s) \in 1 .. n /\ s \ {Max(s)} \in SUBSET (1 .. n)
      BY <1>1, <2>1, MaxIn
    <3>2. g[s] = F[<<g[s \ {Max(s)}], Max(s)>>]
      BY <1>4, <2>1 DEF Iterate
    <3>3. <<g[s \ {Max(s)}], Max(s)>> \in Accs \X (1 .. n)
      BY <1>4, <3>1
    <3> QED
      BY <3>2, <3>3
  <2>2. g[{}] = a
    BY <1>4 DEF Iterate
  <2> QED
    BY <1>1, <1>4, <2>1, <2>2
<1>6. h = G(h)
  <2> HIDE DEF G
  <2> QED
    BY <1>5
<1> HIDE DEF h
<1>7. h[{}] = a
  BY <1>6
<1>8. ASSUME NEW s \in SUBSET (1 .. n), s # {}, h[s \ {Max(s)}] \in Accs
      PROVE  h[s] = F[<<h[s \ {Max(s)}], Max(s)>>]
  <2>1. Max(s) \in 1 .. n
    BY <1>1, <1>8, MaxIn
  <2>2. h[s] = Upsert(h[s \ {Max(s)}], q[Max(s)])
    BY <1>1, <1>6, <1>8
  <2> QED
    BY <1>8, <2>1, <2>2
<1>9. \E f \in [0 .. n -> Accs] : Follows(f, n, a, h, F)
  <2> HIDE DEF F
  <2> QED
    BY <1>1, <1>3, <1>7, <1>8, Chain
<1>10. PICK f \in [0 .. n -> Accs] : Follows(f, n, a, h, F)
  BY <1>9
<1>11. ASSUME NEW i \in 1 .. n PROVE f[i] = Upsert(f[i - 1], q[i])
  <2>1. i - 1 \in 0 .. n
    BY <1>1
  <2>2. <<f[i - 1], i>> \in Accs \X (1 .. n)
    BY <2>1
  <2> QED
    BY <1>10, <2>2 DEF Follows
<1> QED
  BY <1>1, <1>2, <1>10, <1>11 DEF Run, Follows

LEMMA Upto ==
  ASSUME NEW n \in Nat, NEW T, 0 \in T,
         \A i \in 1 .. n : i - 1 \in T => i \in T
  PROVE  n \in T
<1> DEFINE U == {i \in Nat : i <= n => i \in T}
<1>1. ASSUME NEW i \in Nat, i \in U PROVE i + 1 \in U
  <2> SUFFICES ASSUME i + 1 <= n PROVE i + 1 \in T
    OBVIOUS
  <2>1. i + 1 \in 1 .. n /\ (i + 1) - 1 = i /\ i \in T
    BY <1>1
  <2> QED
    BY <2>1
<1>2. n \in U
  BY <1>1, Counting
<1> QED
  BY <1>2


\* A fold whose steps may choose ends where some run of the steps R ends.
Reaches(R, X, n, a, b) ==
  \E f \in [0 .. n -> X] : f[0] = a /\ f[n] = b /\ \A i \in 1 .. n : f[i] \in R[<<f[i - 1], i>>]

LEMMA ReachesOne ==
  ASSUME NEW n \in Nat, NEW X, NEW R \in [X \X (1 .. n) -> SUBSET X], NEW a \in X,
         NEW i \in 1 .. n, NEW x \in X, Reaches(R, X, i - 1, a, x), NEW y \in R[<<x, i>>]
  PROVE  Reaches(R, X, i, a, y) /\ y \in X
<1>1. PICK f \in [0 .. i - 1 -> X] :
        f[0] = a /\ f[i - 1] = x /\ \A j \in 1 .. i - 1 : f[j] \in R[<<f[j - 1], j>>]
  BY DEF Reaches
<1> DEFINE g == [j \in 0 .. i |-> IF j = i THEN y ELSE f[j]]
<1>2. y \in X
  OBVIOUS
<1>3. \A j \in 0 .. i - 1 : g[j] = f[j]
  OBVIOUS
<1>4. g \in [0 .. i -> X] /\ g[i] = y /\ g[0] = a
  BY <1>1, <1>2
<1> HIDE DEF g
<1>5. ASSUME NEW j \in 1 .. i PROVE g[j] \in R[<<g[j - 1], j>>]
  <2>1. CASE j = i
    <3>1. g[j - 1] = x
      BY <1>1, <1>3, <2>1
    <3> QED
      BY <1>4, <2>1, <3>1
  <2>2. CASE j # i
    <3>1. j \in 1 .. i - 1 /\ j \in 0 .. i - 1 /\ j - 1 \in 0 .. i - 1
      BY <2>2
    <3>2. g[j] = f[j] /\ g[j - 1] = f[j - 1]
      BY <1>3, <3>1
    <3> QED
      BY <1>1, <3>1, <3>2
  <2> QED
    BY <2>1, <2>2
<1> QED
  BY <1>2, <1>4, <1>5 DEF Reaches

\* What a set of accumulators becomes in one step.
Image(R, S, i) == UNION {R[<<x, i>>] : x \in S}

LEMMA InImage ==
  ASSUME NEW R, NEW S, NEW i, NEW y PROVE y \in Image(R, S, i) <=> \E x \in S : y \in R[<<x, i>>]
BY DEF Image

LEMMA ChainReaches ==
  ASSUME NEW n \in Nat, NEW X, NEW R \in [X \X (1 .. n) -> SUBSET X], NEW a \in X,
         NEW h, h[{}] = {a},
         \A s \in SUBSET (1 .. n) : s # {} /\ h[s \ {Max(s)}] \in SUBSET X =>
           h[s] = Image(R, h[s \ {Max(s)}], Max(s)),
         NEW b \in h[1 .. n]
  PROVE  Reaches(R, X, n, a, b)
<1> DEFINE S == SUBSET X
           F == [p \in S \X (1 .. n) |-> Image(R, p[1], p[2])]
<1>1. ASSUME NEW U \in S, NEW i \in 1 .. n PROVE Image(R, U, i) \in S
  BY DEF Image
<1>2. F \in [S \X (1 .. n) -> S]
  BY <1>1
<1>3. ASSUME NEW s \in SUBSET (1 .. n), s # {}, h[s \ {Max(s)}] \in S
      PROVE  h[s] = F[<<h[s \ {Max(s)}], Max(s)>>]
  <2>1. Max(s) \in 1 .. n
    BY <1>3, MaxIn
  <2> QED
    BY <1>3, <2>1
<1>4. {a} \in S
  OBVIOUS
<1> HIDE DEF S
<1>5. \E g \in [0 .. n -> S] : Follows(g, n, {a}, h, F)
  <2> HIDE DEF F
  <2> QED
    BY <1>2, <1>3, <1>4, Chain
<1>6. PICK g \in [0 .. n -> S] : Follows(g, n, {a}, h, F)
  BY <1>5
<1> DEFINE T == {i \in 0 .. n : \A y \in g[i] : y \in X /\ Reaches(R, X, i, a, y)}
<1>7. 0 \in T
  <2>1. g[0] = {a} /\ 0 \in 0 .. n
    BY <1>6 DEF Follows
  <2> DEFINE z == [j \in 0 .. 0 |-> a]
  <2>2. z \in [0 .. 0 -> X] /\ z[0] = a /\ \A i \in 1 .. 0 : z[i] \in R[<<z[i - 1], i>>]
    OBVIOUS
  <2>3. Reaches(R, X, 0, a, a)
    <3> HIDE DEF z
    <3> QED
      BY <2>2 DEF Reaches
  <2> QED
    BY <2>1, <2>3
<1>8. ASSUME NEW i \in 1 .. n, i - 1 \in T PROVE i \in T
  <2>1. i - 1 \in 0 .. n /\ i \in 0 .. n
    OBVIOUS
  <2>4. g[i] = F[<<g[i - 1], i>>]
    <3> HIDE DEF F
    <3> QED
      BY <1>6 DEF Follows
  <2>5. g[i - 1] \in S
    BY <2>1
  <2>2. g[i] = Image(R, g[i - 1], i)
    BY <2>4, <2>5
  <2>3. ASSUME NEW y \in g[i] PROVE y \in X /\ Reaches(R, X, i, a, y)
    <3>1. PICK x \in g[i - 1] : y \in R[<<x, i>>]
      BY <2>2, <2>3, InImage
    <3>2. x \in X /\ Reaches(R, X, i - 1, a, x)
      BY <1>8
    <3> QED
      BY <3>1, <3>2, ReachesOne
  <2> QED
    BY <2>1, <2>3
<1>9. n \in T
  <2> HIDE DEF T
  <2> QED
    BY <1>7, <1>8, Upto
<1>10. g[n] = h[1 .. n]
  BY <1>6 DEF Follows
<1> QED
  BY <1>9, <1>10

\* One pass, and the passes of reProcessMissingRelations.
Retried(a, m) == FoldLeft(RetryAll, {a}, [i \in 1 .. m |-> i])

LEMMA RetriesReach ==
  ASSUME Peers, NEW m \in Nat, NEW a \in Having(m), NEW b \in Retried(a, m)
  PROVE  \E f \in [0 .. m -> Having(m)] :
           f[0] = a /\ f[m] = b /\ \A i \in 1 .. m : f[i] \in Retry(f[i - 1], i)
<1> DEFINE q == [i \in 1 .. m |-> i]
           X == Having(m)
           R == [p \in X \X (1 .. m) |-> Retry(p[1], p[2])]
           F == [p \in (SUBSET X) \X (1 .. m) |-> RetryAll(p[1], p[2])]
           G(g) == [s \in SUBSET DOMAIN q |->
                      IF s = {} THEN {a} ELSE RetryAll(g[s \ {Max(s)}], q[Max(s)])]
           h == CHOOSE g : g = G(g)
<1>1. DOMAIN q = 1 .. m /\ \A i \in 1 .. m : q[i] = i
  OBVIOUS
<1>2. FoldLeft(RetryAll, {a}, q) = h[DOMAIN q]
  BY DEF FoldLeft, MapThenFoldSet
<1>3. ASSUME NEW x \in X, NEW i \in 1 .. m PROVE Retry(x, i) \in SUBSET X
  <2> HIDE DEF X
  <2>1. \A y \in Retry(x, i) : y \in X
    BY RetryIs DEF X
  <2> QED
    BY <2>1
<1>4. R \in [X \X (1 .. m) -> SUBSET X]
  BY <1>3
<1>5. ASSUME NEW U \in SUBSET X, NEW i \in 1 .. m
      PROVE  RetryAll(U, i) = Image(R, U, i) /\ RetryAll(U, i) \in SUBSET X
  <2>1. \A x \in U : x \in X /\ R[<<x, i>>] = Retry(x, i)
    OBVIOUS
  <2> HIDE DEF X, R
  <2>4. \A y : y \in RetryAll(U, i) <=> \E x \in U : y \in Retry(x, i)
    BY DEF RetryAll
  <2>5. \A y : y \in Image(R, U, i) <=> \E x \in U : y \in R[<<x, i>>]
    BY InImage
  <2>2. RetryAll(U, i) = Image(R, U, i)
    BY <2>1, <2>4, <2>5
  <2>3. RetryAll(U, i) \in SUBSET X
    BY <1>3, <2>1, <2>4
  <2> QED
    BY <2>2, <2>3
<1>6. F \in [(SUBSET X) \X (1 .. m) -> SUBSET X] /\ {a} \in SUBSET X
  BY <1>5
<1> HIDE DEF X
<1>7. PICK g \in [SUBSET (1 .. m) -> SUBSET X] : Iterate(g, m, {a}, F)
  BY <1>6, Iterates DEF HasIterate
<1>8. g = G(g)
  <2>1. ASSUME NEW s \in SUBSET (1 .. m), s # {}
        PROVE  g[s] = RetryAll(g[s \ {Max(s)}], q[Max(s)])
    <3>1. Max(s) \in 1 .. m /\ s \ {Max(s)} \in SUBSET (1 .. m)
      BY <2>1, MaxIn
    <3>2. g[s] = F[<<g[s \ {Max(s)}], Max(s)>>]
      BY <1>7, <2>1 DEF Iterate
    <3>3. <<g[s \ {Max(s)}], Max(s)>> \in (SUBSET X) \X (1 .. m)
      BY <1>7, <3>1
    <3> QED
      BY <1>1, <3>1, <3>2, <3>3
  <2>2. g[{}] = {a}
    BY <1>7 DEF Iterate
  <2> QED
    BY <1>1, <1>7, <2>1, <2>2
<1>9. h = G(h)
  <2> HIDE DEF G
  <2> QED
    BY <1>8
<1> HIDE DEF h
<1>10. h[{}] = {a}
  BY <1>9
<1>11. ASSUME NEW s \in SUBSET (1 .. m), s # {}, h[s \ {Max(s)}] \in SUBSET X
       PROVE  h[s] = Image(R, h[s \ {Max(s)}], Max(s))
  <2>1. Max(s) \in 1 .. m /\ q[Max(s)] = Max(s)
    BY <1>1, <1>11, MaxIn
  <2>2. h[s] = RetryAll(h[s \ {Max(s)}], q[Max(s)])
    BY <1>1, <1>9, <1>11
  <2> HIDE DEF q, R
  <2> QED
    BY <1>5, <1>11, <2>1, <2>2
<1>12. Reaches(R, X, m, a, b)
  <2>1. b \in h[1 .. m] /\ a \in X
    BY <1>1, <1>2 DEF X, Retried
  <2> HIDE DEF R, q
  <2> QED
    BY <1>4, <1>10, <1>11, <2>1, ChainReaches
<1>13. PICK f \in [0 .. m -> X] :
         f[0] = a /\ f[m] = b /\ \A i \in 1 .. m : f[i] \in R[<<f[i - 1], i>>]
  BY <1>12 DEF Reaches
<1>14. ASSUME NEW i \in 1 .. m PROVE f[i] \in Retry(f[i - 1], i)
  <2>1. i - 1 \in 0 .. m /\ f[i - 1] \in X
    BY <1>13
  <2> QED
    BY <1>13, <2>1
<1> QED
  BY <1>13, <1>14 DEF X

\* What a pass leaves of the items held back.
LEMMA RestIn ==
  ASSUME NEW b \in Accs, NEW q \in Seq(Items), NEW v \in Nat
  PROVE  [b EXCEPT !.missing = q, !.still = v] \in Accs
BY DEF Accs

LEMMA RestIs ==
  ASSUME NEW m \in Nat, NEW b \in Having(m)
  PROVE  /\ Rest(b) \in Fresh /\ Rest(b).cache = b.cache /\ Rest(b).ups = b.ups
         /\ Rest(b).panic = b.panic /\ Len(Rest(b).missing) = b.still
         /\ b.still \in 0 .. m /\ Rest(b).missing \in Seq(Items)
         /\ \A j \in 1 .. b.still : Rest(b).missing[j] = b.missing[j]
<1>1. b \in Accs /\ Len(b.missing) = m /\ b.still <= m /\ b.still \in Nat
      /\ b.missing \in Seq(Items)
  BY DEF Having, Accs
<1> DEFINE q == SubSeq(b.missing, 1, b.still)
<1>2. q \in Seq(Items) /\ Len(q) = b.still /\ \A j \in 1 .. b.still : q[j] = b.missing[j]
  BY <1>1
<1>3. Rest(b) = [b EXCEPT !.missing = q, !.still = 0]
  BY DEF Rest
<1> HIDE DEF q
<1>4. Rest(b) \in Accs
  <2>1. 0 \in Nat
    OBVIOUS
  <2>2. [b EXCEPT !.missing = q, !.still = 0] \in Accs
    BY <1>1, <1>2, <2>1, RestIn
  <2> QED
    BY <1>3, <2>2
<1>5. /\ Rest(b).cache = b.cache /\ Rest(b).ups = b.ups /\ Rest(b).panic = b.panic
      /\ Rest(b).missing = q /\ Rest(b).still = 0
  BY <1>1, <1>3 DEF Accs
<1> QED
  BY <1>1, <1>2, <1>4, <1>5 DEF Fresh

\* The steps of a pass.
Retries(a, f) ==
  /\ f \in [0 .. Len(a.missing) -> Having(Len(a.missing))] /\ f[0] = a
  /\ \A i \in 1 .. Len(a.missing) : f[i] \in Retry(f[i - 1], i)

LEMMA PassIs ==
  ASSUME Peers, NEW a \in Fresh, NEW c \in Pass(a)
  PROVE  c \in Fresh /\ \E f : Retries(a, f) /\ c = Rest(f[Len(a.missing)])
<1> DEFINE m == Len(a.missing)
           S == Retried(a, m)
<1>1. m \in Nat /\ a \in Having(m)
  BY FreshHas
<1>2. PICK b \in S : c = Rest(b)
  <2>1. Pass(a) = {Rest(b) : b \in S}
    BY DEF Pass, Retried
  <2> HIDE DEF S
  <2> QED
    BY <2>1
<1>3. PICK f \in [0 .. m -> Having(m)] :
        f[0] = a /\ f[m] = b /\ \A i \in 1 .. m : f[i] \in Retry(f[i - 1], i)
  BY <1>1, <1>2, RetriesReach
<1>4. Retries(a, f) /\ b \in Having(m)
  BY <1>1, <1>3 DEF Retries
<1> HIDE DEF m, S
<1>5. c \in Fresh
  BY <1>1, <1>2, <1>4, RestIs
<1> QED
  BY <1>2, <1>3, <1>4, <1>5 DEF m

LEMMA PassesReach ==
  ASSUME Peers, NEW a \in Fresh, NEW q \in Seq(Types), NEW b \in FoldLeft(PassAll, {a}, q)
  PROVE  \E f \in [0 .. Len(q) -> Fresh] :
           f[0] = a /\ f[Len(q)] = b /\ \A i \in 1 .. Len(q) : f[i] \in Pass(f[i - 1])
<1> DEFINE n == Len(q)
           X == Fresh
           R == [p \in X \X (1 .. n) |-> Pass(p[1])]
           F == [p \in (SUBSET X) \X (1 .. n) |-> PassAll(p[1], q[p[2]])]
           G(g) == [s \in SUBSET DOMAIN q |->
                      IF s = {} THEN {a} ELSE PassAll(g[s \ {Max(s)}], q[Max(s)])]
           h == CHOOSE g : g = G(g)
<1>1. n \in Nat /\ DOMAIN q = 1 .. n
  OBVIOUS
<1>2. FoldLeft(PassAll, {a}, q) = h[DOMAIN q]
  BY DEF FoldLeft, MapThenFoldSet
<1>3. ASSUME NEW x \in X PROVE Pass(x) \in SUBSET X
  <2>1. \A y \in Pass(x) : y \in X
    BY PassIs
  <2> QED
    BY <2>1
<1>4. R \in [X \X (1 .. n) -> SUBSET X]
  BY <1>3
<1>5. ASSUME NEW U \in SUBSET X, NEW i \in 1 .. n
      PROVE  PassAll(U, q[i]) = Image(R, U, i) /\ PassAll(U, q[i]) \in SUBSET X
  <2>1. \A x \in U : x \in X /\ R[<<x, i>>] = Pass(x)
    OBVIOUS
  <2> HIDE DEF X, R
  <2>4. \A y : y \in PassAll(U, q[i]) <=> \E x \in U : y \in Pass(x)
    BY DEF PassAll
  <2>5. \A y : y \in Image(R, U, i) <=> \E x \in U : y \in R[<<x, i>>]
    BY InImage
  <2>2. PassAll(U, q[i]) = Image(R, U, i)
    BY <2>1, <2>4, <2>5
  <2>3. PassAll(U, q[i]) \in SUBSET X
    BY <1>3, <2>1, <2>4
  <2> QED
    BY <2>2, <2>3
<1>6. F \in [(SUBSET X) \X (1 .. n) -> SUBSET X] /\ {a} \in SUBSET X
  BY <1>5
<1> HIDE DEF X
<1>7. PICK g \in [SUBSET (1 .. n) -> SUBSET X] : Iterate(g, n, {a}, F)
  BY <1>1, <1>6, Iterates DEF HasIterate
<1>8. g = G(g)
  <2>1. ASSUME NEW s \in SUBSET (1 .. n), s # {}
        PROVE  g[s] = PassAll(g[s \ {Max(s)}], q[Max(s)])
    <3>1. Max(s) \in 1 .. n /\ s \ {Max(s)} \in SUBSET (1 .. n)
      BY <1>1, <2>1, MaxIn
    <3>2. g[s] = F[<<g[s \ {Max(s)}], Max(s)>>]
      BY <1>7, <2>1 DEF Iterate
    <3>3. <<g[s \ {Max(s)}], Max(s)>> \in (SUBSET X) \X (1 .. n)
      BY <1>7, <3>1
    <3> QED
      BY <3>2, <3>3
  <2>2. g[{}] = {a}
    BY <1>7 DEF Iterate
  <2> QED
    BY <1>1, <1>7, <2>1, <2>2
<1>9. h = G(h)
  <2> HIDE DEF G
  <2> QED
    BY <1>8
<1> HIDE DEF h
<1>10. h[{}] = {a}
  BY <1>9
<1>11. ASSUME NEW s \in SUBSET (1 .. n), s # {}, h[s \ {Max(s)}] \in SUBSET X
       PROVE  h[s] = Image(R, h[s \ {Max(s)}], Max(s))
  <2>1. Max(s) \in 1 .. n
    BY <1>1, <1>11, MaxIn
  <2>2. h[s] = PassAll(h[s \ {Max(s)}], q[Max(s)])
    BY <1>1, <1>9, <1>11
  <2> HIDE DEF R
  <2> QED
    BY <1>5, <1>11, <2>1, <2>2
<1>12. Reaches(R, X, n, a, b)
  <2>1. b \in h[1 .. n] /\ a \in X
    BY <1>1, <1>2 DEF X
  <2> HIDE DEF R
  <2> QED
    BY <1>1, <1>4, <1>10, <1>11, <2>1, ChainReaches
<1>13. PICK f \in [0 .. n -> X] :
         f[0] = a /\ f[n] = b /\ \A i \in 1 .. n : f[i] \in R[<<f[i - 1], i>>]
  BY <1>12 DEF Reaches
<1>14. ASSUME NEW i \in 1 .. n PROVE f[i] \in Pass(f[i - 1])
  <2>1. i - 1 \in 0 .. n /\ f[i - 1] \in X
    BY <1>1, <1>13
  <2> QED
    BY <1>13, <2>1
<1> QED
  BY <1>13, <1>14 DEF X

\* reProcessMissingRelations makes a pass for each type that is held back.
MissingTypes(a) == {x[1][2] : x \in ToSet(a.missing)}
Passes(a) == Cardinality(MissingTypes(a))

LEMMA MissingTypesIn ==
  ASSUME NEW a \in Accs
  PROVE  /\ MissingTypes(a) \subseteq Types /\ IsFiniteSet(MissingTypes(a))
         /\ SetToSeq(MissingTypes(a)) \in Seq(Types)
         /\ Len(SetToSeq(MissingTypes(a))) = Cardinality(MissingTypes(a))
         /\ Cardinality(MissingTypes(a)) \in Nat
<1> DEFINE M == MissingTypes(a)
<1>1. M \subseteq Types
  <2>1. a.missing \in Seq(Items)
    BY DEF Accs
  <2>2. \A x \in ToSet(a.missing) : x \in Items
    BY <2>1 DEF ToSet
  <2> QED
    BY <2>2 DEF MissingTypes, Items, Keys
<1> HIDE DEF M
<1>2. IsFiniteSet(M) /\ Cardinality(M) \in Nat
  BY <1>1, CommonInventoryAssumption, FS_Subset, FS_CardinalityType
<1>3. \E g : ExistsBijection(1 .. Cardinality(M), M)
  BY <1>2, FS_CardinalityType
<1>4. \E g \in [1 .. Cardinality(M) -> M] : IsInjective(g)
  BY <1>3 DEF ExistsBijection, Bijection, Injection, IsInjective
<1>5. SetToSeq(M) \in [1 .. Cardinality(M) -> M]
  BY <1>4 DEF SetToSeq
<1>6. SetToSeq(M) \in Seq(Types) /\ Len(SetToSeq(M)) = Cardinality(M)
  BY <1>1, <1>2, <1>5
<1> QED
  BY <1>1, <1>2, <1>6 DEF M

LEMMA MissingType ==
  ASSUME NEW a \in Accs, NEW j \in 1 .. Len(a.missing)
  PROVE  a.missing[j][1][2] \in MissingTypes(a)
<1>1. a.missing \in Seq(Items)
  BY DEF Accs
<1>2. a.missing[j] \in ToSet(a.missing)
  BY <1>1 DEF ToSet
<1> QED
  BY <1>2 DEF MissingTypes

LEMMA ReProcessReach ==
  ASSUME Peers, NEW a \in Fresh, NEW b \in ReProcess(a)
  PROVE  \E f \in [0 .. Passes(a) -> Fresh] :
           f[0] = a /\ f[Passes(a)] = b /\ \A i \in 1 .. Passes(a) : f[i] \in Pass(f[i - 1])
<1> DEFINE q == SetToSeq(MissingTypes(a))
<1>1. q \in Seq(Types) /\ Len(q) = Passes(a)
  BY MissingTypesIn, FreshHas DEF Passes
<1>2. ReProcess(a) = FoldLeft(PassAll, {a}, q)
  BY DEF ReProcess, MissingTypes
<1> HIDE DEF q
<1> QED
  BY <1>1, <1>2, PassesReach

(***************************************************************************)
(* What a report makes of an accumulator is sound: each upsert is in the   *)
(* cache, and follows one that it relates to.                              *)
(***************************************************************************)
\* All items of q are in V, in which a key has one version.
Of(q, V) == \A i \in 1 .. Len(q) : q[i] \in V
Agree(V) == \A x, y \in V : x[1] = y[1] => x[2] = y[2]

\* An upsert follows one that it relates to, unless such a one is in the cache c.
Follower(u, i) == \E y \in To(u[i][1]) : \E j \in 1 .. i - 1 : u[j][1] = y
Ordered(c, u) == \A i \in 1 .. Len(u) : Ready(c, u[i][1]) \/ Follower(u, i)

\* The cache of an accumulator is c with the upserts put into it.
Written(c, a) ==
  /\ \A i \in 1 .. Len(a.ups) : a.cache[a.ups[i][1]] = a.ups[i][2]
  /\ \A k \in Keys : a.cache[k] # c[k] => \E i \in 1 .. Len(a.ups) : a.ups[i][1] = k
  /\ \A k \in Keys : c[k] # 0 => a.cache[k] # 0

Sound(V, c, a) == Of(a.ups, V) /\ Of(a.missing, V) /\ Written(c, a) /\ Ordered(c, a.ups)

\* An upsert is put only after what it relates to.
LEMMA SoundPut ==
  ASSUME Peers, NEW V \in SUBSET Items, Agree(V), NEW c \in [Keys -> 0 .. MaxVersion],
         NEW a \in Accs, Sound(V, c, a), NEW x \in V, Ready(a.cache, x[1])
  PROVE  Sound(V, c, Put(a, x))
<1> DEFINE b == Put(a, x)
           n == Len(a.ups)
<1>1. /\ b \in Accs /\ b.cache = [a.cache EXCEPT ![x[1]] = x[2]]
      /\ b.missing = a.missing /\ b.ups = Append(a.ups, x)
  BY PutIs
<1> HIDE DEF b
<1>2. /\ a.cache \in [Keys -> 0 .. MaxVersion] /\ a.ups \in Seq(Items) /\ n \in Nat
      /\ x \in Items /\ x[1] \in Keys /\ x[2] \in 1 .. MaxVersion
  BY DEF Accs, Items
<1>3. /\ Len(b.ups) = n + 1 /\ b.ups[n + 1] = x
      /\ \A i \in 1 .. n : b.ups[i] = a.ups[i] /\ b.ups[i] \in V /\ b.ups[i] \in Items
  BY <1>1, <1>2 DEF Sound, Of
<1>4. Of(b.ups, V) /\ Of(b.missing, V)
  BY <1>1, <1>2, <1>3 DEF Sound, Of
<1>5. \A k \in Keys : b.cache[k] = IF k = x[1] THEN x[2] ELSE a.cache[k]
  BY <1>1, <1>2
<1>6. Written(c, b)
  <2>1. ASSUME NEW i \in 1 .. n + 1 PROVE b.cache[b.ups[i][1]] = b.ups[i][2]
    <3>1. CASE i = n + 1
      BY <1>2, <1>3, <1>5, <3>1
    <3>2. CASE i \in 1 .. n
      <4>1. b.ups[i] \in V /\ b.ups[i] = a.ups[i] /\ b.ups[i][1] \in Keys
        BY <1>3, <3>2 DEF Items
      <4>2. a.cache[b.ups[i][1]] = b.ups[i][2]
        BY <3>2, <4>1 DEF Sound, Written
      <4> QED
        BY <4>1, <4>2, <1>5 DEF Agree
    <3> QED
      BY <1>2, <3>1, <3>2
  <2>2. ASSUME NEW k \in Keys, b.cache[k] # c[k]
        PROVE  \E i \in 1 .. n + 1 : b.ups[i][1] = k
    <3>1. CASE k = x[1]
      BY <1>2, <1>3, <3>1
    <3>2. CASE k # x[1]
      <4>1. PICK i \in 1 .. n : a.ups[i][1] = k
        BY <1>5, <2>2, <3>2 DEF Sound, Written
      <4>2. i \in 1 .. n + 1
        BY <1>2
      <4> QED
        BY <1>3, <4>1, <4>2
    <3> QED
      BY <3>1, <3>2
  <2>3. \A k \in Keys : c[k] # 0 => b.cache[k] # 0
    BY <1>2, <1>5 DEF Sound, Written
  <2> QED
    BY <1>3, <2>1, <2>2, <2>3 DEF Written
<1>7. Ordered(c, b.ups)
  <2> SUFFICES ASSUME NEW i \in 1 .. n + 1
               PROVE  Ready(c, b.ups[i][1]) \/ Follower(b.ups, i)
    BY <1>3 DEF Ordered
  <2>1. CASE i \in 1 .. n
    <3>1. b.ups[i] = a.ups[i] /\ \A j \in 1 .. i - 1 : b.ups[j] = a.ups[j]
      BY <1>2, <1>3, <2>1
    <3> QED
      BY <2>1, <3>1 DEF Sound, Ordered, Follower
  <2>2. CASE i = n + 1
    <3>1. b.ups[i] = x /\ i - 1 = n
      BY <1>2, <1>3, <2>2
    <3> SUFFICES ASSUME ~Ready(c, x[1])
                 PROVE  \E y \in To(x[1]) : \E j \in 1 .. n : a.ups[j][1] = y
      BY <1>3, <3>1 DEF Follower
    <3>2. PICK y \in To(x[1]) : a.cache[y] # c[y]
      BY DEF Ready
    <3>3. y \in Keys
      BY <1>2, RelationsIn
    <3> QED
      BY <3>2, <3>3 DEF Sound, Written
  <2> QED
    BY <1>2, <2>1, <2>2
<1> QED
  BY <1>4, <1>6, <1>7 DEF Sound, b

LEMMA SoundHold ==
  ASSUME NEW V \in SUBSET Items, NEW c, NEW a \in Accs, Sound(V, c, a), NEW x \in V
  PROVE  Sound(V, c, Hold(a, x))
<1>1. /\ Hold(a, x).cache = a.cache /\ Hold(a, x).ups = a.ups
      /\ Hold(a, x).missing = Append(a.missing, x)
  BY HoldIs
<1>2. a.missing \in Seq(Items)
  BY DEF Accs
<1>3. Of(Append(a.missing, x), V)
  BY <1>2 DEF Sound, Of
<1> QED
  BY <1>1, <1>3 DEF Sound, Written

LEMMA SoundKeep ==
  ASSUME NEW V \in SUBSET Items, NEW c, NEW a \in Accs, Sound(V, c, a), NEW x \in V, NEW n \in Nat
  PROVE  Keep(a, x, n) \in Accs /\ Sound(V, c, Keep(a, x, n)) /\ Keep(a, x, n).cache = a.cache
<1> DEFINE b == Keep(a, x, n)
<1>1. /\ b \in Accs /\ b.cache = a.cache /\ b.ups = a.ups /\ Len(b.missing) = Len(a.missing)
      /\ \A j \in 1 .. Len(a.missing) : b.missing[j] \in {x, a.missing[j]}
  BY KeepIs
<1> HIDE DEF b
<1>2. Of(b.missing, V)
  BY <1>1 DEF Sound, Of
<1> QED
  BY <1>1, <1>2 DEF Sound, Written, b

LEMMA SoundRetry ==
  ASSUME Peers, NEW V \in SUBSET Items, Agree(V), NEW c \in [Keys -> 0 .. MaxVersion],
         NEW m \in Nat, NEW a \in Having(m), Sound(V, c, a), NEW i \in 1 .. m, NEW b \in Retry(a, i)
  PROVE  Sound(V, c, b)
<1> DEFINE x == a.missing[i]
<1>1. a \in Accs /\ x \in V
  BY DEF Having, Sound, Of
<1>2. PICK n \in Nat : Kept(a, b, x, n)
  BY RetryIs
<1> HIDE DEF x
<1>3. /\ Keep(a, x, n) \in Accs /\ Sound(V, c, Keep(a, x, n))
      /\ Keep(a, x, n).cache = a.cache
  BY <1>1, SoundKeep
<1>4. ASSUME Found(a.cache, x[1]) # {} PROVE Sound(V, c, Put(Keep(a, x, n), x))
  <2>1. Ready(Keep(a, x, n).cache, x[1])
    BY <1>3, <1>4, FoundIs DEF Ready
  <2> QED
    BY <1>1, <1>3, <2>1, SoundPut
<1> QED
  BY <1>2, <1>3, <1>4 DEF Kept

LEMMA SoundUpsert ==
  ASSUME Peers, NEW V \in SUBSET Items, Agree(V), NEW c \in [Keys -> 0 .. MaxVersion],
         NEW a \in Accs, Sound(V, c, a), NEW x \in V
  PROVE  Sound(V, c, Upsert(a, x))
<1>1. ASSUME Resolves(a.cache, x[1]) PROVE Ready(a.cache, x[1])
  BY <1>1, FoundIs
<1>2. x \in Items
  OBVIOUS
<1>3. Upsert(a, x) = IF ~Resolves(a.cache, x[1]) THEN Hold(a, x)
                     ELSE IF a.cache[x[1]] # x[2] THEN Put(a, x) ELSE a
  BY <1>2, UpsertIs
<1> QED
  BY <1>1, <1>3, SoundPut, SoundHold

\* A report, a pass and the passes keep an accumulator sound.
LEMMA SoundUpserts ==
  ASSUME Peers, NEW V \in SUBSET Items, Agree(V), NEW c \in [Keys -> 0 .. MaxVersion],
         NEW a \in Accs, Sound(V, c, a), NEW q \in Seq(Items), Of(q, V)
  PROVE  FoldLeft(Upsert, a, q) \in Accs /\ Sound(V, c, FoldLeft(Upsert, a, q))
<1>1. PICK f : /\ Run(f, a, q, FoldLeft(Upsert, a, q))
               /\ \A i \in 1 .. Len(q) : f[i] = Upsert(f[i - 1], q[i])
  BY UpsertRuns
<1> DEFINE T == {i \in 0 .. Len(q) : Sound(V, c, f[i])}
<1>2. Len(q) \in Nat /\ f \in [0 .. Len(q) -> Accs]
  BY <1>1 DEF Run
<1>3. 0 \in T
  BY <1>1, <1>2 DEF Run
<1>4. ASSUME NEW i \in 1 .. Len(q), i - 1 \in T PROVE i \in T
  <2>1. q[i] \in V /\ f[i - 1] \in Accs /\ f[i] = Upsert(f[i - 1], q[i])
    BY <1>1, <1>2, <1>4 DEF Of
  <2> QED
    BY <1>4, <2>1, SoundUpsert
<1>5. Len(q) \in T
  <2> HIDE DEF T
  <2> QED
    BY <1>2, <1>3, <1>4, Upto
<1> QED
  BY <1>1, <1>2, <1>5 DEF Run

LEMMA SoundPass ==
  ASSUME Peers, NEW V \in SUBSET Items, Agree(V), NEW c \in [Keys -> 0 .. MaxVersion],
         NEW a \in Fresh, Sound(V, c, a), NEW b \in Pass(a)
  PROVE  Sound(V, c, b)
<1> DEFINE m == Len(a.missing)
<1>1. m \in Nat /\ a \in Having(m)
  BY FreshHas
<1>2. PICK f : Retries(a, f) /\ b = Rest(f[m])
  BY PassIs
<1>3. /\ f \in [0 .. m -> Having(m)] /\ f[0] = a
      /\ \A i \in 1 .. m : f[i] \in Retry(f[i - 1], i)
  BY <1>2 DEF Retries
<1> HIDE DEF m
<1> DEFINE T == {i \in 0 .. m : Sound(V, c, f[i])}
<1>4. 0 \in T
  BY <1>1, <1>3
<1>5. ASSUME NEW i \in 1 .. m, i - 1 \in T PROVE i \in T
  <2>1. f[i - 1] \in Having(m) /\ f[i] \in Retry(f[i - 1], i)
    BY <1>1, <1>3, <1>5
  <2> QED
    BY <1>1, <1>5, <2>1, SoundRetry
<1>6. m \in T
  <2> HIDE DEF T
  <2> QED
    BY <1>1, <1>4, <1>5, Upto
<1> DEFINE d == f[m]
<1>7. Sound(V, c, d) /\ d \in Having(m)
  BY <1>1, <1>3, <1>6
<1> HIDE DEF d
<1>8. /\ b.cache = d.cache /\ b.ups = d.ups /\ Len(b.missing) = d.still /\ d.still \in 0 .. m
      /\ \A j \in 1 .. d.still : b.missing[j] = d.missing[j]
  BY <1>1, <1>2, <1>7, RestIs DEF d
<1>9. Len(d.missing) = m
  BY <1>7 DEF Having
<1>10. Of(b.missing, V)
  BY <1>1, <1>7, <1>8, <1>9 DEF Sound, Of
<1> QED
  BY <1>7, <1>8, <1>10 DEF Sound, Written

LEMMA SoundReProcess ==
  ASSUME Peers, NEW V \in SUBSET Items, Agree(V), NEW c \in [Keys -> 0 .. MaxVersion],
         NEW a \in Fresh, Sound(V, c, a), NEW b \in ReProcess(a)
  PROVE  b \in Fresh /\ Sound(V, c, b)
<1> DEFINE n == Passes(a)
<1>1. PICK f \in [0 .. n -> Fresh] :
        f[0] = a /\ f[n] = b /\ \A i \in 1 .. n : f[i] \in Pass(f[i - 1])
  BY ReProcessReach
<1>2. n \in Nat
  BY MissingTypesIn, FreshHas DEF Passes
<1> HIDE DEF n
<1> DEFINE T == {i \in 0 .. n : Sound(V, c, f[i])}
<1>3. 0 \in T
  BY <1>1, <1>2
<1>4. ASSUME NEW i \in 1 .. n, i - 1 \in T PROVE i \in T
  <2>1. f[i - 1] \in Fresh /\ f[i] \in Pass(f[i - 1])
    BY <1>1, <1>2, <1>4
  <2> QED
    BY <1>4, <2>1, SoundPass
<1>5. n \in T
  <2> HIDE DEF T
  <2> QED
    BY <1>2, <1>3, <1>4, Upto
<1> QED
  BY <1>1, <1>2, <1>5

(***************************************************************************)
(* Of a stream whose relationships are plain it is complete as well, once  *)
(* it has been processed as often as types are held back.                  *)
(***************************************************************************)
\* Every key of K has a version in the cache or is held back.
Covers(K, a) == \A k \in K :
  a.cache[k] # 0 \/ \E i \in 1 .. Len(a.missing) : a.missing[i][1] = k

\* What an item of a report does to an accumulator.
Grows(a, b, x) ==
  /\ \A k \in Keys : a.cache[k] # 0 => b.cache[k] # 0
  /\ \/ b.missing = a.missing /\ b.cache[x[1]] # 0
     \/ b.missing = Append(a.missing, x) /\ ~Resolves(a.cache, x[1])

\* Covering grows with each item.
LEMMA PutGrows ==
  ASSUME NEW a \in Accs, NEW x \in Items PROVE Grows(a, Put(a, x), x)
<1>1. /\ Put(a, x).cache = [a.cache EXCEPT ![x[1]] = x[2]]
      /\ Put(a, x).missing = a.missing
  BY PutIs
<1>2. a.cache \in [Keys -> 0 .. MaxVersion] /\ x[1] \in Keys /\ x[2] # 0
  BY DEF Accs, Items
<1> QED
  BY <1>1, <1>2 DEF Grows

LEMMA UpsertGrows ==
  ASSUME NEW a \in Accs, NEW x \in Items PROVE Grows(a, Upsert(a, x), x)
<1>1. CASE ~Resolves(a.cache, x[1])
  BY <1>1, UpsertIs, HoldIs DEF Grows
<1>2. CASE Resolves(a.cache, x[1]) /\ a.cache[x[1]] # x[2]
  BY <1>2, UpsertIs, PutGrows
<1>3. CASE Resolves(a.cache, x[1]) /\ a.cache[x[1]] = x[2]
  <2>1. x[2] # 0
    BY DEF Items
  <2> QED
    BY <1>3, <2>1, UpsertIs DEF Grows
<1> QED
  BY <1>1, <1>2, <1>3

LEMMA GrowsCovers ==
  ASSUME NEW a \in Accs, NEW b \in Accs, NEW x \in Items, Grows(a, b, x),
         NEW K \in SUBSET Keys, Covers(K, a)
  PROVE  Covers(K \cup {x[1]}, b)
<1>1. a.missing \in Seq(Items) /\ b.missing \in Seq(Items)
  BY DEF Accs
<1>2. ASSUME NEW i \in 1 .. Len(a.missing)
      PROVE  i \in 1 .. Len(b.missing) /\ b.missing[i] = a.missing[i]
  BY <1>1, <1>2 DEF Grows
<1>3. ASSUME NEW k \in K, b.cache[k] = 0
      PROVE  \E i \in 1 .. Len(b.missing) : b.missing[i][1] = k
  <2>1. PICK i \in 1 .. Len(a.missing) : a.missing[i][1] = k
    BY <1>3 DEF Grows, Covers
  <2> QED
    BY <1>2, <2>1
<1>4. ASSUME b.cache[x[1]] = 0
      PROVE  \E i \in 1 .. Len(b.missing) : b.missing[i][1] = x[1]
  <2>1. b.missing = Append(a.missing, x)
    BY <1>4 DEF Grows
  <2>2. Len(b.missing) \in 1 .. Len(b.missing) /\ b.missing[Len(b.missing)] = x
    BY <1>1, <2>1
  <2> QED
    BY <2>2
<1> QED
  BY <1>3, <1>4 DEF Covers

KeysOf(q) == {q[i][1] : i \in 1 .. Len(q)}
FirstKeys(q, n) == {q[i][1] : i \in 1 .. n}

LEMMA FirstKeysStep ==
  ASSUME NEW q \in Seq(Items), NEW i \in 1 .. Len(q)
  PROVE  /\ FirstKeys(q, i) = FirstKeys(q, i - 1) \cup {q[i][1]}
         /\ FirstKeys(q, i - 1) \subseteq Keys
<1>1. \A j \in 1 .. Len(q) : q[j] \in Items /\ q[j][1] \in Keys
  BY DEF Items
<1>2. 1 .. i = (1 .. i - 1) \cup {i}
  OBVIOUS
<1>3. 1 .. i - 1 \subseteq 1 .. Len(q)
  OBVIOUS
<1> QED
  BY <1>1, <1>2, <1>3 DEF FirstKeys

\* A report covers the keys of its items and what was covered before.
LEMMA UpsertsCover ==
  ASSUME NEW a \in Accs, NEW q \in Seq(Items), NEW K \in SUBSET Keys, Covers(K, a)
  PROVE  Covers(K \cup KeysOf(q), FoldLeft(Upsert, a, q))
<1>1. PICK f : /\ Run(f, a, q, FoldLeft(Upsert, a, q))
               /\ \A i \in 1 .. Len(q) : f[i] = Upsert(f[i - 1], q[i])
  BY UpsertRuns
<1> DEFINE T == {i \in 0 .. Len(q) : Covers(K \cup FirstKeys(q, i), f[i])}
<1>2. Len(q) \in Nat /\ f \in [0 .. Len(q) -> Accs] /\ f[0] = a
  BY <1>1 DEF Run
<1>3. 0 \in T
  BY <1>2 DEF FirstKeys, Covers
<1>4. ASSUME NEW i \in 1 .. Len(q), i - 1 \in T PROVE i \in T
  <2>1. /\ q[i] \in Items /\ f[i - 1] \in Accs /\ f[i] = Upsert(f[i - 1], q[i])
        /\ f[i] \in Accs /\ i \in 0 .. Len(q)
    BY <1>1, <1>2, <1>4
  <2>2. /\ K \cup FirstKeys(q, i - 1) \in SUBSET Keys
        /\ K \cup FirstKeys(q, i) = (K \cup FirstKeys(q, i - 1)) \cup {q[i][1]}
    BY FirstKeysStep
  <2>3. Grows(f[i - 1], f[i], q[i])
    BY <2>1, UpsertGrows
  <2>4. Covers(K \cup FirstKeys(q, i - 1), f[i - 1])
    BY <1>4
  <2>5. Covers(K \cup FirstKeys(q, i), f[i])
    BY <2>1, <2>2, <2>3, <2>4, GrowsCovers
  <2> QED
    BY <2>1, <2>5
<1>5. Len(q) \in T
  <2> HIDE DEF T
  <2> QED
    BY <1>2, <1>3, <1>4, Upto
<1> QED
  BY <1>1, <1>5 DEF Run, KeysOf, FirstKeys

\* It holds back only objects that have relationships.
LEMMA UpsertsWait ==
  ASSUME NEW V, NEW a \in Accs, Of(a.missing, V), NEW q \in Seq(Items),
         \A i \in 1 .. Len(q) : q[i] \in V \/ Relations(q[i][1]) = {}
  PROVE  Of(FoldLeft(Upsert, a, q).missing, V)
<1>1. PICK f : /\ Run(f, a, q, FoldLeft(Upsert, a, q))
               /\ \A i \in 1 .. Len(q) : f[i] = Upsert(f[i - 1], q[i])
  BY UpsertRuns
<1> DEFINE T == {i \in 0 .. Len(q) : Of(f[i].missing, V)}
<1>2. Len(q) \in Nat /\ f \in [0 .. Len(q) -> Accs] /\ f[0] = a
  BY <1>1 DEF Run
<1>3. 0 \in T
  BY <1>2
<1>4. ASSUME NEW i \in 1 .. Len(q), i - 1 \in T PROVE i \in T
  <2>1. /\ q[i] \in Items /\ f[i - 1] \in Accs /\ f[i] = Upsert(f[i - 1], q[i])
        /\ i \in 0 .. Len(q) /\ Of(f[i - 1].missing, V)
    BY <1>1, <1>2, <1>4
  <2>2. f[i - 1].missing \in Seq(Items)
    BY <2>1 DEF Accs
  <2>3. Grows(f[i - 1], f[i], q[i])
    BY <2>1, UpsertGrows
  <2>4. CASE f[i].missing = f[i - 1].missing
    BY <2>1, <2>4
  <2>5. CASE f[i].missing = Append(f[i - 1].missing, q[i]) /\ ~Resolves(f[i - 1].cache, q[i][1])
    <3>1. q[i] \in V
      BY <2>5, FoundIs
    <3>2. Of(f[i].missing, V)
      BY <2>1, <2>2, <2>5, <3>1 DEF Of
    <3> QED
      BY <2>1, <3>2
  <2> QED
    BY <2>3, <2>4, <2>5 DEF Grows
<1>5. Len(q) \in T
  <2> HIDE DEF T
  <2> QED
    BY <1>2, <1>3, <1>4, Upto
<1> QED
  BY <1>1, <1>5 DEF Run

KeysOfStream(s) == {k \in Keys : k[1] = s}

\* The items of a stream that may be held back.
Waiting(s) == {x \in Items : x[1][1] = s /\ Relations(x[1]) # {}}

\* What Plain says of a stream.
Ranked(s, rank) ==
  /\ rank \in [Types -> 0 .. Cardinality(Types)]
  /\ \A t \in Types : \A r \in msg[s].rels[t] :
       msg[s].rels[t] = {r} /\ RelType[r] # NoType /\ rank[RelType[r]] < rank[t]

LEMMA PlainIs ==
  ASSUME Peers, NEW s \in Streams, NEW rank, Ranked(s, rank), NEW x \in Waiting(s), NEW c
  PROVE  /\ \E y \in KeysOfStream(s) :
              rank[y[2]] < rank[x[1][2]] /\ (Found(c, x[1]) = {} <=> c[y] = 0)
         /\ Found(c, x[1]) # {} => Relations(x[1]) \ Found(c, x[1]) = {}
         /\ Cardinality(Relations(x[1])) = 1
<1> DEFINE k == x[1]
<1>1. k \in Keys /\ k[1] = s /\ k[2] \in Types /\ Relations(k) # {}
  BY DEF Waiting, Items, Keys
<1>2. Relations(k) = msg[s].rels[k[2]]
  BY <1>1 DEF Relations
<1>3. PICK r \in Relations(k) : Relations(k) = {r} /\ RelType[r] # NoType
                                /\ rank[RelType[r]] < rank[k[2]]
  BY <1>1, <1>2 DEF Ranked
<1> HIDE DEF k
<1> DEFINE y == Related(k, r)
<1>4. y \in To(k) /\ y[1] = s /\ y[2] = RelType[r]
  BY <1>1, <1>3 DEF To, Related
<1>5. y \in KeysOfStream(s)
  BY <1>1, <1>4, RelationsIn DEF KeysOfStream
<1>6. Found(c, k) = {q \in {r} : c[y] # 0}
  BY <1>3 DEF Found
<1> HIDE DEF y
<1>7. Cardinality({r}) = 1
  BY FS_Singleton
<1> QED
  BY <1>3, <1>4, <1>5, <1>6, <1>7 DEF k

\* A retried item of such a stream is put, or kept once in the place of one before.
LEMMA PlainRetry ==
  ASSUME Peers, NEW s \in Streams, NEW rank, Ranked(s, rank), NEW m \in Nat,
         NEW a \in Having(m), NEW i \in 1 .. m, a.missing[i] \in Waiting(s),
         ~a.panic, a.still <= i - 1, NEW b \in Retry(a, i)
  PROVE  /\ ~b.panic /\ \A k \in Keys : a.cache[k] # 0 => b.cache[k] # 0
         /\ \/ /\ b.cache[a.missing[i][1]] # 0 /\ b.still = a.still
               /\ \A j \in 1 .. m : b.missing[j] = a.missing[j]
            \/ /\ Found(a.cache, a.missing[i][1]) = {} /\ b.still = a.still + 1
               /\ \A j \in 1 .. m : b.missing[j] = IF j = b.still THEN a.missing[i]
                                                   ELSE a.missing[j]
<1> DEFINE x == a.missing[i]
<1>1. /\ a \in Accs /\ Len(a.missing) = m /\ a.still \in Nat
      /\ a.cache \in [Keys -> 0 .. MaxVersion]
  BY DEF Having, Accs
<1>2. x \in Items /\ x[1] \in Keys /\ x[2] # 0
  BY DEF Waiting, Items
<1>3. PICK n \in Nat : Kept(a, b, x, n)
  BY RetryIs
<1>4. /\ Found(a.cache, x[1]) # {} => Relations(x[1]) \ Found(a.cache, x[1]) = {}
      /\ Cardinality(Relations(x[1])) = 1
  BY PlainIs
<1>5. x \in Waiting(s)
  OBVIOUS
<1> HIDE DEF x
<1> DEFINE d == Keep(a, x, n)
<1>6. /\ d \in Accs /\ d.cache = a.cache
      /\ \A j \in 1 .. m : d.missing[j] =
           IF j \in a.still + 1 .. a.still + n /\ a.still + n <= m THEN x ELSE a.missing[j]
      /\ a.still + n <= m => d.still = a.still + n /\ d.panic = a.panic
  BY <1>1, <1>2, KeepIs
<1> HIDE DEF d
<1>7. CASE Found(a.cache, x[1]) = {} /\ b = d /\ n = Cardinality(Relations(x[1]))
  <2>1. n = 1 /\ a.still + n <= m
    BY <1>1, <1>4, <1>7
  <2>3. b.still = a.still + 1 /\ b.panic = a.panic /\ b.cache = a.cache
    BY <1>1, <1>6, <1>7, <2>1
  <2>4. \A j \in 1 .. m : j \in a.still + 1 .. a.still + n <=> j = a.still + 1
    BY <1>1, <2>1
  <2>2. \A j \in 1 .. m : b.missing[j] = IF j = b.still THEN x ELSE a.missing[j]
    <3>1. \A j \in 1 .. m :
            d.missing[j] = IF j \in a.still + 1 .. a.still + n THEN x ELSE a.missing[j]
      BY <1>6, <2>1
    <3> QED
      BY <1>7, <2>3, <2>4, <3>1
  <2> QED
    BY <1>7, <2>2, <2>3 DEF x
<1>8. CASE Found(a.cache, x[1]) # {} /\ b = Put(d, x)
           /\ n <= Cardinality(Relations(x[1]) \ Found(a.cache, x[1]))
  <2>1. Cardinality({}) = 0
    BY FS_EmptySet
  <2>6. Cardinality(Relations(x[1]) \ Found(a.cache, x[1])) = 0
    BY <1>4, <1>8, <2>1, Zenon
  <2>2. n = 0 /\ a.still + n <= m
    BY <1>1, <1>8, <2>6
  <2>7. d.still = a.still /\ d.panic = a.panic /\ d.cache = a.cache
    BY <1>1, <1>6, <2>2
  <2>3. /\ b.cache = [a.cache EXCEPT ![x[1]] = x[2]] /\ b.missing = d.missing
        /\ b.still = a.still /\ b.panic = a.panic
    <3>1. /\ Put(d, x).cache = [d.cache EXCEPT ![x[1]] = x[2]]
          /\ Put(d, x).missing = d.missing
          /\ Put(d, x).still = d.still /\ Put(d, x).panic = d.panic
      BY <1>2, <1>6, PutIs
    <3>2. b = Put(d, x)
      BY <1>8
    <3> QED
      BY <2>7, <3>1, <3>2
  <2>4. \A j \in 1 .. m : b.missing[j] = a.missing[j]
    BY <1>1, <1>6, <2>2, <2>3
  <2>5. b.cache[x[1]] # 0 /\ \A k \in Keys : a.cache[k] # 0 => b.cache[k] # 0
    BY <1>1, <1>2, <2>3
  <2> QED
    BY <2>3, <2>4, <2>5 DEF x
<1> QED
  BY <1>3, <1>7, <1>8 DEF Kept, d

\* Of a pass over the items of a: those so far are in the cache, or kept among the
\* first, and V holds each that is kept.
Going(a, V, b, i) ==
  /\ ~b.panic /\ b.still <= i
  /\ \A k \in Keys : a.cache[k] # 0 => b.cache[k] # 0
  /\ \A j \in i + 1 .. Len(a.missing) : b.missing[j] = a.missing[j]
  /\ \A j \in 1 .. i : \/ b.cache[a.missing[j][1]] # 0
                       \/ \E l \in 1 .. b.still : b.missing[l] = a.missing[j]
  /\ \A l \in 1 .. b.still : b.missing[l] \in V

LEMMA FoundGrows ==
  ASSUME Peers, NEW c, NEW e, NEW k \in Keys, \A y \in Keys : c[y] # 0 => e[y] # 0,
         Found(c, k) # {}
  PROVE  Found(e, k) # {}
<1>1. \A y \in To(k) : y \in Keys
  BY RelationsIn
<1> QED
  BY <1>1, FoundIs

LEMMA GoesOn ==
  ASSUME Peers, NEW s \in Streams, NEW rank, Ranked(s, rank),
         NEW m \in Nat, NEW a \in Having(m), Of(a.missing, Waiting(s)), NEW V,
         \A j \in 1 .. m : a.missing[j] \in V \/ Found(a.cache, a.missing[j][1]) # {},
         NEW d \in Having(m), NEW i \in 1 .. m, Going(a, V, d, i - 1), NEW b \in Retry(d, i)
  PROVE  Going(a, V, b, i)
<1> DEFINE x == a.missing[i]
<1>0. b \in Having(m)
  BY RetryIs
<1>1. /\ Len(a.missing) = m /\ d.still \in Nat /\ b \in Having(m) /\ b.still \in Nat
  BY <1>0 DEF Having, Accs
<1>2. x \in Waiting(s) /\ x[1] \in Keys
  BY <1>1 DEF Of, Waiting, Items
<1>3. d.missing[i] = x /\ ~d.panic /\ d.still <= i - 1
  BY <1>1 DEF Going
<1>4. x \in V \/ Found(a.cache, x[1]) # {}
  OBVIOUS
<1>5. \A j \in i + 1 .. m : d.missing[j] = a.missing[j]
  BY <1>1 DEF Going
<1>6. \A j \in 1 .. i - 1 : \/ d.cache[a.missing[j][1]] # 0
                            \/ \E l \in 1 .. d.still : d.missing[l] = a.missing[j]
  BY DEF Going
<1>7. \A l \in 1 .. d.still : d.missing[l] \in V
  BY DEF Going
<1>8. \A j \in 1 .. i - 1 : a.missing[j][1] \in Keys
  BY <1>1 DEF Of, Waiting, Items
<1> HIDE DEF x
<1>14. d.missing[i] \in Waiting(s)
  BY <1>2, <1>3
<1>9. /\ ~b.panic /\ \A k \in Keys : d.cache[k] # 0 => b.cache[k] # 0
      /\ \/ /\ b.cache[x[1]] # 0 /\ b.still = d.still
            /\ \A j \in 1 .. m : b.missing[j] = d.missing[j]
         \/ /\ Found(d.cache, x[1]) = {} /\ b.still = d.still + 1
            /\ \A j \in 1 .. m : b.missing[j] = IF j = b.still THEN x ELSE d.missing[j]
  <2>1. /\ ~b.panic /\ \A k \in Keys : d.cache[k] # 0 => b.cache[k] # 0
        /\ \/ /\ b.cache[d.missing[i][1]] # 0 /\ b.still = d.still
              /\ \A j \in 1 .. m : b.missing[j] = d.missing[j]
           \/ /\ Found(d.cache, d.missing[i][1]) = {} /\ b.still = d.still + 1
              /\ \A j \in 1 .. m : b.missing[j] = IF j = b.still THEN d.missing[i]
                                                  ELSE d.missing[j]
    BY <1>3, <1>14, PlainRetry
  <2> QED
    BY <1>3, <2>1
<1>10. \A k \in Keys : a.cache[k] # 0 => d.cache[k] # 0
  BY DEF Going
<1>11. \A k \in Keys : a.cache[k] # 0 => b.cache[k] # 0
  BY <1>9, <1>10
<1>12. CASE /\ b.cache[x[1]] # 0 /\ b.still = d.still
            /\ \A j \in 1 .. m : b.missing[j] = d.missing[j]
  <2>1. \A j \in i + 1 .. m : b.missing[j] = a.missing[j]
    BY <1>5, <1>12
  <2>2. \A l \in 1 .. b.still : l \in 1 .. m /\ b.missing[l] = d.missing[l] /\ b.missing[l] \in V
    BY <1>1, <1>3, <1>7, <1>12
  <2>3. ASSUME NEW j \in 1 .. i
        PROVE  \/ b.cache[a.missing[j][1]] # 0
               \/ \E l \in 1 .. b.still : b.missing[l] = a.missing[j]
    <3>1. CASE j = i
      BY <1>12, <3>1 DEF x
    <3>2. CASE j # i
      <4>1. j \in 1 .. i - 1
        BY <3>2
      <4> QED
        BY <1>6, <1>8, <1>9, <1>12, <2>2, <4>1
    <3> QED
      BY <3>1, <3>2
  <2> QED
    BY <1>1, <1>3, <1>9, <1>11, <1>12, <2>1, <2>2, <2>3 DEF Going
<1>13. CASE /\ Found(d.cache, x[1]) = {} /\ b.still = d.still + 1
            /\ \A j \in 1 .. m : b.missing[j] = IF j = b.still THEN x ELSE d.missing[j]
  <2>1. b.still <= i /\ b.still \in 1 .. m /\ b.missing[b.still] = x
    BY <1>1, <1>3, <1>13
  <2>2. \A j \in i + 1 .. m : b.missing[j] = a.missing[j]
    BY <1>1, <1>5, <1>13, <2>1
  <2>3. x \in V
    BY <1>2, <1>4, <1>10, <1>13, FoundGrows
  <2>4. \A l \in 1 .. d.still : l \in 1 .. b.still /\ b.missing[l] = d.missing[l]
    BY <1>1, <1>3, <1>13
  <2>5. \A l \in 1 .. b.still : b.missing[l] \in V
    <3> TAKE l \in 1 .. b.still
    <3>1. l = b.still \/ l \in 1 .. d.still
      BY <1>1, <1>13
    <3> QED
      BY <1>7, <2>1, <2>3, <2>4, <3>1
  <2>6. ASSUME NEW j \in 1 .. i
        PROVE  \/ b.cache[a.missing[j][1]] # 0
               \/ \E l \in 1 .. b.still : b.missing[l] = a.missing[j]
    <3>1. CASE j = i
      <4>1. b.still \in 1 .. b.still
        BY <2>1
      <4> QED
        BY <2>1, <3>1, <4>1 DEF x
    <3>2. CASE j # i
      <4>1. j \in 1 .. i - 1
        BY <3>2
      <4> QED
        BY <1>6, <1>8, <1>9, <2>4, <4>1
    <3> QED
      BY <3>1, <3>2
  <2> QED
    BY <1>1, <1>9, <1>11, <2>1, <2>2, <2>5, <2>6 DEF Going
<1> QED
  BY <1>9, <1>12, <1>13

\* A pass over them covers what was covered, and keeps none that resolved before it.
LEMMA PassCovers ==
  ASSUME Peers, NEW s \in Streams, NEW rank, Ranked(s, rank), NEW a \in Fresh, ~a.panic,
         Of(a.missing, Waiting(s)), NEW K \in SUBSET Keys, Covers(K, a), NEW V,
         \A j \in 1 .. Len(a.missing) :
           a.missing[j] \in V \/ Found(a.cache, a.missing[j][1]) # {},
         NEW b \in Pass(a)
  PROVE  b \in Fresh /\ ~b.panic /\ Covers(K, b) /\ Of(b.missing, V)
<1> DEFINE m == Len(a.missing)
<1>1. m \in Nat /\ a \in Having(m) /\ a.still = 0
  BY FreshHas DEF Fresh
<1>2. PICK f : Retries(a, f) /\ b = Rest(f[m])
  BY PassIs
<1>3. /\ f \in [0 .. m -> Having(m)] /\ f[0] = a
      /\ \A i \in 1 .. m : f[i] \in Retry(f[i - 1], i)
  BY <1>2 DEF Retries
<1>4. \A j \in 1 .. m : a.missing[j] \in V \/ Found(a.cache, a.missing[j][1]) # {}
  OBVIOUS
<1>5. Going(a, V, a, 0)
  BY <1>1 DEF Going
<1>6. \A k \in K : a.cache[k] # 0 \/ \E j \in 1 .. m : a.missing[j][1] = k
  BY DEF Covers
<1>7. Len(a.missing) = m
  OBVIOUS
<1> HIDE DEF m
<1> DEFINE T == {i \in 0 .. m : Going(a, V, f[i], i)}
<1>8. 0 \in T
  BY <1>1, <1>3, <1>5
<1>9. ASSUME NEW i \in 1 .. m, i - 1 \in T PROVE i \in T
  <2>1. f[i - 1] \in Having(m) /\ f[i] \in Retry(f[i - 1], i) /\ Going(a, V, f[i - 1], i - 1)
    BY <1>1, <1>3, <1>9
  <2>2. Going(a, V, f[i], i)
    BY <1>1, <1>4, <2>1, GoesOn
  <2> QED
    BY <2>2
<1>10. m \in T
  <2> HIDE DEF T
  <2> QED
    BY <1>1, <1>8, <1>9, Upto
<1> DEFINE d == f[m]
<1>11. d \in Having(m) /\ Going(a, V, d, m)
  BY <1>1, <1>3, <1>10
<1> HIDE DEF d
<1>12. /\ b \in Fresh /\ b.cache = d.cache /\ b.panic = d.panic
       /\ Len(b.missing) = d.still /\ \A j \in 1 .. d.still : b.missing[j] = d.missing[j]
  BY <1>1, <1>2, <1>11, RestIs DEF d
<1>13. ~b.panic /\ Of(b.missing, V)
  BY <1>11, <1>12 DEF Going, Of
<1>14. ASSUME NEW k \in K, b.cache[k] = 0
       PROVE  \E l \in 1 .. Len(b.missing) : b.missing[l][1] = k
  <2>1. a.cache[k] = 0
    BY <1>11, <1>12, <1>14 DEF Going
  <2>2. PICK j \in 1 .. m : a.missing[j][1] = k
    BY <1>6, <2>1
  <2>3. PICK l \in 1 .. d.still : d.missing[l] = a.missing[j]
    BY <1>11, <1>12, <1>14, <2>2 DEF Going
  <2> QED
    BY <1>12, <2>2, <2>3
<1>15. Covers(K, b)
  BY <1>14 DEF Covers
<1> QED
  BY <1>12, <1>13, <1>15

\* Of the types held back one relates to none of them.
LEMMA LeastType ==
  ASSUME NEW s, NEW rank, Ranked(s, rank), NEW M \in SUBSET Types, M # {}
  PROVE  \E t \in M : \A u \in M : ~(rank[u] < rank[t])
<1> DEFINE R == {rank[t] : t \in M}
<1>0. Cardinality(Types) \in Nat
  BY CommonInventoryAssumption, FS_CardinalityType
<1>1. R \subseteq Nat /\ R # {}
  BY <1>0 DEF Ranked
<1>2. PICK r \in R : \A y \in R : r <= y
  BY <1>1, NatLeast
<1>3. PICK t \in M : rank[t] = r
  BY <1>2
<1>4. ASSUME NEW u \in M PROVE ~(rank[u] < rank[t])
  <2>1. rank[u] \in R /\ rank[u] \in Nat /\ rank[t] \in Nat
    BY <1>1, <1>3
  <2>2. r <= rank[u]
    BY <1>2, <2>1
  <2> QED
    BY <1>3, <2>1, <2>2
<1> QED
  BY <1>4

\* A pass resolves such a type: fewer types are held back after it.
LEMMA PassShrinks ==
  ASSUME Peers, NEW s \in Streams, NEW rank, Ranked(s, rank), NEW a \in Fresh, ~a.panic,
         Of(a.missing, Waiting(s)), Covers(KeysOfStream(s), a), MissingTypes(a) # {},
         NEW b \in Pass(a)
  PROVE  /\ b \in Fresh /\ ~b.panic
         /\ Covers(KeysOfStream(s), b) /\ Of(b.missing, Waiting(s))
         /\ \E t \in MissingTypes(a) : MissingTypes(b) \subseteq MissingTypes(a) \ {t}
<1>1. a \in Accs /\ a.missing \in Seq(Items) /\ MissingTypes(a) \subseteq Types
  BY MissingTypesIn DEF Fresh, Accs
<1>2. PICK t \in MissingTypes(a) : \A u \in MissingTypes(a) : ~(rank[u] < rank[t])
  BY <1>1, LeastType
<1> DEFINE V == {x \in Waiting(s) : x[1][2] \in MissingTypes(a) \ {t}}
<1>3. \A j \in 1 .. Len(a.missing) : a.missing[j][1][2] \in MissingTypes(a)
  BY <1>1, MissingType
<1>4. ASSUME NEW j \in 1 .. Len(a.missing), a.missing[j] \notin V
      PROVE  Found(a.cache, a.missing[j][1]) # {}
  <2> DEFINE x == a.missing[j]
  <2>1. x \in Waiting(s)
    BY DEF Of
  <2>2. x[1][2] = t
    BY <1>3, <1>4, <2>1
  <2> HIDE DEF x
  <2>3. PICK y \in KeysOfStream(s) :
          rank[y[2]] < rank[x[1][2]] /\ (Found(a.cache, x[1]) = {} <=> a.cache[y] = 0)
    <3> DEFINE c == a.cache
    <3> HIDE DEF c
    <3>1. \E y \in KeysOfStream(s) :
            rank[y[2]] < rank[x[1][2]] /\ (Found(c, x[1]) = {} <=> c[y] = 0)
      BY <2>1, PlainIs
    <3> QED
      BY <3>1 DEF c
  <2>4. ASSUME NEW l \in 1 .. Len(a.missing), a.missing[l][1] = y PROVE FALSE
    <3>1. y[2] \in MissingTypes(a)
      BY <1>3, <2>4
    <3> QED
      BY <1>2, <2>2, <2>3, <3>1
  <2>5. a.cache[y] # 0
    BY <2>4 DEF Covers
  <2> QED
    BY <2>3, <2>5 DEF x
<1>5. KeysOfStream(s) \in SUBSET Keys
  BY DEF KeysOfStream
<1>6. b \in Fresh /\ ~b.panic /\ Covers(KeysOfStream(s), b) /\ Of(b.missing, V)
  <2>1. \A j \in 1 .. Len(a.missing) :
          a.missing[j] \in V \/ Found(a.cache, a.missing[j][1]) # {}
    BY <1>4
  <2> HIDE DEF V
  <2> QED
    BY <1>5, <2>1, PassCovers
<1>7. Of(b.missing, Waiting(s))
  BY <1>6 DEF Of
<1>8. MissingTypes(b) \subseteq MissingTypes(a) \ {t}
  <2>1. b.missing \in Seq(Items)
    BY <1>6 DEF Fresh, Accs
  <2>2. \A x \in ToSet(b.missing) : x \in V
    BY <1>6, <2>1 DEF ToSet, Of
  <2> QED
    BY <2>2 DEF MissingTypes
<1> QED
  BY <1>2, <1>6, <1>7, <1>8

\* As many passes as types are held back resolve them all.
LEMMA ReProcessCompletes ==
  ASSUME Peers, NEW s \in Streams, Plain(s), NEW a \in Fresh, ~a.panic,
         Of(a.missing, Waiting(s)), Covers(KeysOfStream(s), a), NEW b \in ReProcess(a)
  PROVE  \A k \in KeysOfStream(s) : b.cache[k] # 0
<1> DEFINE n == Passes(a)
<1>1. PICK f \in [0 .. n -> Fresh] :
        f[0] = a /\ f[n] = b /\ \A i \in 1 .. n : f[i] \in Pass(f[i - 1])
  BY ReProcessReach
<1>2. PICK rank : Ranked(s, rank)
  BY DEF Plain, Ranked
<1>3. n \in Nat /\ Cardinality(MissingTypes(a)) = n
  BY MissingTypesIn, FreshHas DEF Passes
<1>4. ASSUME NEW d \in Fresh
      PROVE  IsFiniteSet(MissingTypes(d)) /\ Cardinality(MissingTypes(d)) \in Nat
  BY MissingTypesIn, FreshHas
<1> DEFINE Goes(d, i) == /\ ~d.panic /\ Of(d.missing, Waiting(s)) /\ Covers(KeysOfStream(s), d)
                         /\ Cardinality(MissingTypes(d)) <= n - i
<1> HIDE DEF n
<1>5. Goes(a, 0)
  BY <1>3
<1>6. ASSUME NEW i \in 1 .. n, NEW d \in Fresh, Goes(d, i - 1), NEW e \in Pass(d) PROVE Goes(e, i)
  <2>1. e \in Fresh
    BY PassIs
  <2>2. /\ Cardinality(MissingTypes(d)) \in Nat /\ IsFiniteSet(MissingTypes(d))
        /\ Cardinality(MissingTypes(e)) \in Nat
    BY <1>4, <2>1
  <2>3. CASE MissingTypes(d) = {}
    <3>1. \A j \in 1 .. Len(d.missing) : FALSE
      BY <2>3, MissingType, FreshHas
    <3>2. KeysOfStream(s) \in SUBSET Keys
      BY DEF KeysOfStream
    <3>3. /\ ~d.panic /\ Of(d.missing, Waiting(s)) /\ Covers(KeysOfStream(s), d)
      BY <1>6
    <3>4. ~e.panic /\ Covers(KeysOfStream(s), e) /\ Of(e.missing, {})
      <4>1. \A j \in 1 .. Len(d.missing) :
              d.missing[j] \in {} \/ Found(d.cache, d.missing[j][1]) # {}
        BY <3>1
      <4> HIDE DEF Goes
      <4> QED
        BY <1>2, <3>2, <3>3, <4>1, PassCovers
    <3>5. Of(e.missing, Waiting(s))
      BY <3>4 DEF Of
    <3>6. MissingTypes(e) = {}
      <4>1. e.missing \in Seq(Items)
        BY <2>1 DEF Fresh, Accs
      <4> QED
        BY <3>4, <4>1 DEF Of, MissingTypes, ToSet
    <3>7. Cardinality(MissingTypes(e)) = 0 /\ 0 <= n - i
      BY <1>3, <3>6, FS_EmptySet
    <3> QED
      BY <3>4, <3>5, <3>7
  <2>4. CASE MissingTypes(d) # {}
    <3>1. /\ ~e.panic /\ Covers(KeysOfStream(s), e) /\ Of(e.missing, Waiting(s))
          /\ \E t \in MissingTypes(d) : MissingTypes(e) \subseteq MissingTypes(d) \ {t}
      BY <1>2, <1>6, <2>4, PassShrinks
    <3>2. PICK t \in MissingTypes(d) : MissingTypes(e) \subseteq MissingTypes(d) \ {t}
      BY <3>1
    <3>3. /\ IsFiniteSet(MissingTypes(d) \ {t})
          /\ Cardinality(MissingTypes(d) \ {t}) = Cardinality(MissingTypes(d)) - 1
      BY <2>2, FS_RemoveElement
    <3>4. Cardinality(MissingTypes(e)) <= Cardinality(MissingTypes(d) \ {t})
      BY <3>2, <3>3, FS_Subset
    <3>5. Cardinality(MissingTypes(d)) <= n - (i - 1)
      BY <1>6
    <3>6. Cardinality(MissingTypes(e)) <= n - i
      BY <1>3, <2>2, <3>3, <3>4, <3>5
    <3> QED
      BY <3>1, <3>6
  <2> QED
    BY <2>3, <2>4
<1> DEFINE T == {i \in 0 .. n : Goes(f[i], i)}
<1> HIDE DEF Goes
<1>7. 0 \in T
  BY <1>1, <1>3, <1>5
<1>8. ASSUME NEW i \in 1 .. n, i - 1 \in T PROVE i \in T
  <2>1. f[i - 1] \in Fresh /\ f[i] \in Pass(f[i - 1]) /\ Goes(f[i - 1], i - 1)
    BY <1>1, <1>3, <1>8
  <2>2. Goes(f[i], i)
    BY <1>6, <2>1
  <2> QED
    BY <2>2
<1>9. n \in T
  <2> HIDE DEF T
  <2> QED
    BY <1>3, <1>7, <1>8, Upto
<1>10. b \in Fresh /\ Covers(KeysOfStream(s), b) /\ Cardinality(MissingTypes(b)) <= 0
  BY <1>1, <1>3, <1>9 DEF Goes
<1>11. MissingTypes(b) = {}
  BY <1>4, <1>10, FS_EmptySet
<1>12. \A j \in 1 .. Len(b.missing) : FALSE
  BY <1>10, <1>11, MissingType, FreshHas
<1> QED
  BY <1>10, <1>12 DEF Covers

(***************************************************************************)
(* The inductive invariant.  CISafe holds of every stream, dead ones too;  *)
(* Feeding and Covering of the one that is up.                             *)
(***************************************************************************)
\* Streams are opened one after the other, when the context before is done.
Opened ==
  /\ \A s, r \in Streams : del[s] # "idle" /\ r < s => r \in done
  /\ \A s \in done : del[s] # "idle"
  /\ \A s \in Streams : del[s] # "idle" /\ s \notin done => current = s

\* What exists has an inventory.
Made ==
  /\ \A s \in Streams : del[s] # "idle" => current # 0
  /\ current # 0 => del[current] # "idle"
  /\ \A s \in Streams : col[s] # "none" => del[s] # "idle"
  /\ \A s \in Streams : col[s] = "types" => gen[s] # 0 /\ del[gen[s]] # "idle"
  /\ \A s \in Streams : \A o \in Objects : del[s] # "idle" => inventory[s][o] # 0

\* A processor counts in the wait group.
Works(s) == proc[s].at \in {"select", "send"}

\* The lock is held by who waits for the processors; the first processor has
\* cancel, and an empty cache.
Locked ==
  /\ mu # 0 => del[mu] = "wait"
  /\ \A s \in Streams : del[s] = "wait" => mu = s
  /\ \A s \in Streams : proc[s].at # "none" => del[s] = "started"
  /\ cancel = 0 => \A s \in Streams : proc[s].at = "none"
  /\ cancel = 0 => \A k \in Keys : cache[k] = 0

\* The full start of a stream has not been delivered.
Before(s) == /\ proc[s].full
             /\ \/ proc[s].type = "fullStart"
                \/ proc[s].at = "select" /\ col[s] = "start"

\* What the cloud keeps, of what it has, of the collection of stream s.
Got(s) == [k \in Keys |->
  IF Before(s) \/ (proc[s].full /\ k \notin seen) THEN 0 ELSE cloud[k]]

\* The keys of the types a collector has reported.
Reported(s) == {k \in KeysOfStream(s) : k[2] \notin todo[s]}

\* The cache is what the cloud keeps with the upserts that have not been sent.
Acc(s) == [cache |-> cache, missing |-> proc[s].missing, ups |-> proc[s].ups,
           still |-> 0, panic |-> FALSE]
PendingSound(s) == Written(Got(s), Acc(s)) /\ Ordered(Got(s), proc[s].ups)

\* What is held back was reported in this collection.
HeldBack(s) ==
  /\ Of(proc[s].missing, proc[s].keys \X (1 .. MaxVersion))
  /\ Agree(ToSet(proc[s].missing))

\* Where the collector and the processor of a stream that is up are, together.
Phase(s) ==
  /\ col[s] \in {"start", "types", "sleep"}
  /\ col[s] = "types" => gen[s] = s
  /\ proc[s].keys = IF col[s] = "types" THEN Reported(s) ELSE {}
  /\ proc[s].dels = {}
  /\ proc[s].at = "select" => proc[s].ups = <<>> /\ proc[s].type = "none"
  /\ proc[s].at = "send" => proc[s].type # "none"
  /\ proc[s].type = "fullStart" => proc[s].ups = <<>> /\ col[s] = "types"
  /\ proc[s].full /\ col[s] = "sleep" => proc[s].at = "send"
  /\ proc[s].full /\ proc[s].at = "send" /\ col[s] # "types" => proc[s].type = "fullEnd"

\* What was reported has a version or is held back, for its relationships, and nothing
\* is between two collections.
Covered(s) ==
  /\ Of(proc[s].missing, Waiting(s))
  /\ col[s] = "types" => Covers(Reported(s), Acc(s))
  /\ col[s] = "sleep" => \A k \in KeysOfStream(s) : cache[k] # 0

\* The cache has objects of stream s only.
Own(s) == \A k \in Keys : cache[k] # 0 => k[1] = s

Fed(s) == Own(s) /\ PendingSound(s) /\ HeldBack(s) /\ Phase(s)

Feeding == \A s \in Streams : ~crash /\ Live(s) /\ Works(s) => Fed(s)
Covering == \A s \in Streams : ~crash /\ Live(s) /\ Works(s) /\ Plain(s) => Covered(s)

\* The accumulator that a report starts with.
Held(s) == [cache |-> cache, missing |-> proc[s].missing, ups |-> <<>>,
            still |-> 0, panic |-> FALSE]

\* What may become of a report: the accumulators.
Taken(s, type, items) ==
  IF type = "fullEnd" THEN ReProcess(Upserts(proc[s], items)) ELSE {Upserts(proc[s], items)}

\* The keys reported, with those of this report.
AllKeys(s, items) == proc[s].keys \cup {x[1] : x \in ToSet(items)}

\* A processor has made b of a report, or has panicked.
Received(s, type, items, b) ==
  LET K == AllKeys(s, items)
      dels == Deleted(b, K, type)
  IN /\ b \in Taken(s, type, items) /\ ~b.panic
     /\ cache' = [k \in Keys |-> IF k \in dels THEN 0 ELSE b.cache[k]]
     /\ proc' = [proc EXCEPT ![s] = Processed(proc[s], b, K, dels, type)]
     /\ crash' = crash
Panicked == crash' = TRUE /\ UNCHANGED <<cache, proc>>

Reports == {"fullStart", "fullSegment", "fullEnd"}

ProcessorTypes == proc \in [Streams -> Processors]

LEMMA ProcessorIs ==
  ASSUME ProcessorTypes, NEW s \in Streams
  PROVE  /\ proc[s].at \in {"none", "select", "send", "gone"}
         /\ proc[s].missing \in Seq(Items) /\ proc[s].ups \in Seq(Items)
         /\ proc[s].keys \in SUBSET Keys /\ proc[s].dels \in SUBSET Keys
         /\ proc[s].full \in BOOLEAN /\ proc[s].type \in Messages
<1>1. proc[s] \in Processors
  BY DEF ProcessorTypes
<1> QED
  BY <1>1 DEF Processors

LEMMA HeldIs ==
  ASSUME CITypeOK, NEW s \in Streams PROVE Held(s) \in Fresh /\ Peers
<1>1. proc[s].missing \in Seq(Items)
  BY ProcessorIs DEF CITypeOK, ProcessorTypes
<1>2. cache \in [Keys -> 0 .. MaxVersion] /\ <<>> \in Seq(Items)
  BY DEF CITypeOK, CloudTypes
<1> QED
  BY <1>1, <1>2 DEF Held, Accs, Fresh, Peers, CITypeOK, InventoryTypes

LEMMA TakenIs ==
  ASSUME CITypeOK, NEW s \in Streams, NEW type, NEW items \in Seq(Items)
  PROVE  /\ Upserts(proc[s], items) = FoldLeft(Upsert, Held(s), items)
         /\ Upserts(proc[s], items) \in Fresh /\ ~Upserts(proc[s], items).panic
         /\ Taken(s, type, items) \subseteq Fresh
<1>1. Upserts(proc[s], items) = FoldLeft(Upsert, Held(s), items)
  BY DEF Upserts, Held
<1>2. PICK f : /\ Run(f, Held(s), items, FoldLeft(Upsert, Held(s), items))
               /\ \A i \in 1 .. Len(items) : f[i] = Upsert(f[i - 1], items[i])
  BY HeldIs, UpsertRuns DEF Fresh
<1>3. /\ Len(items) \in Nat /\ f \in [0 .. Len(items) -> Accs] /\ f[0] = Held(s)
      /\ f[Len(items)] = Upserts(proc[s], items)
  BY <1>1, <1>2 DEF Run
<1> DEFINE T == {i \in 0 .. Len(items) : f[i].still = 0 /\ f[i].panic = FALSE}
<1>4. 0 \in T
  BY <1>3 DEF Held
<1>5. ASSUME NEW i \in 1 .. Len(items), i - 1 \in T PROVE i \in T
  <2>1. f[i - 1] \in Accs /\ items[i] \in Items /\ f[i] = Upsert(f[i - 1], items[i])
    BY <1>2, <1>3, <1>5
  <2>2. f[i].still = f[i - 1].still /\ f[i].panic = f[i - 1].panic
    BY <2>1, UpsertIs
  <2> QED
    BY <1>5, <2>2
<1>6. Len(items) \in T
  <2> HIDE DEF T
  <2> QED
    BY <1>3, <1>4, <1>5, Upto
<1>7. Upserts(proc[s], items) \in Fresh /\ ~Upserts(proc[s], items).panic
  BY <1>3, <1>6 DEF Fresh
<1>8. \A b \in ReProcess(Upserts(proc[s], items)) : b \in Fresh
  <2> DEFINE a == Upserts(proc[s], items)
  <2>1. a \in Fresh /\ Peers
    BY <1>7, HeldIs
  <2> HIDE DEF a
  <2>2. ASSUME NEW b \in ReProcess(a) PROVE b \in Fresh
    <3>1. PICK g \in [0 .. Passes(a) -> Fresh] : g[Passes(a)] = b
      BY <2>1, ReProcessReach
    <3>2. Passes(a) \in Nat
      BY <2>1, MissingTypesIn, FreshHas DEF Passes
    <3> QED
      BY <3>1, <3>2
  <2> QED
    BY <2>2 DEF a
<1> QED
  BY <1>1, <1>7, <1>8 DEF Taken

\* A report, whatever its kind.
LEMMA ReceiveIs ==
  ASSUME NEW s, NEW type, NEW items, Receive(s, type, items)
  PROVE  /\ proc[s].at = "select"
         /\ UNCHANGED <<inventoryVars, del, lockVars, done, sink, cloudVars>>
         /\ Panicked \/ \E b : Received(s, type, items, b)
BY DEF Receive, Received, Panicked, Taken, AllKeys

LEMMA ReceivedIs ==
  ASSUME CITypeOK, NEW s \in Streams, NEW type \in Reports, NEW items \in Seq(Items), NEW b,
         Received(s, type, items, b)
  PROVE  LET K == AllKeys(s, items)
         IN /\ b \in Fresh /\ b \in Accs /\ K \in SUBSET Keys
            /\ Processed(proc[s], b, K, Deleted(b, K, type), type) \in Processors
<1> DEFINE K == AllKeys(s, items)
           dels == Deleted(b, K, type)
<1>1. b \in Fresh /\ b \in Accs
  BY TakenIs DEF Received, Fresh
<1>2. K \in SUBSET Keys
  <2>1. \A x \in ToSet(items) : x \in Items
    BY DEF ToSet
  <2>2. proc[s].keys \in SUBSET Keys
    BY ProcessorIs DEF CITypeOK, ProcessorTypes
  <2> QED
    BY <2>1, <2>2 DEF AllKeys, Items
<1>3. Processed(proc[s], b, K, dels, type) \in Processors
  <2> HIDE DEF K
  <2>1. b.missing \in Seq(Items) /\ b.ups \in Seq(Items) /\ <<>> \in Seq(Items)
    BY <1>1 DEF Accs
  <2>2. dels \in SUBSET Keys /\ proc[s].full \in BOOLEAN
    BY ProcessorIs DEF Deleted, CITypeOK, ProcessorTypes
  <2>3. type \in Messages /\ "none" \in Messages
    BY DEF Messages, Reports
  <2> HIDE DEF dels
  <2> QED
    BY <1>2, <2>1, <2>2, <2>3 DEF Processed, Processors
<1> QED
  BY <1>1, <1>2, <1>3

\* The report of a type.
Report(s, t) == [i \in 1 .. PerType |-> <<<<gen[s], t, i>>, inventory[gen[s]][<<t, i>>]>>]

LEMMA ReportIs ==
  ASSUME CITypeOK, Made, NEW s \in Streams, col[s] = "types", NEW t \in Types
  PROVE  Report(s, t) \in Seq(Items) /\ Len(Report(s, t)) = PerType
<1>1. PerType \in Nat
  BY CommonInventoryAssumption
<1>2. gen[s] \in Streams /\ del[gen[s]] # "idle"
  BY DEF CITypeOK, CollectorTypes, Made, Streams
<1>3. ASSUME NEW i \in 1 .. PerType
      PROVE  <<<<gen[s], t, i>>, inventory[gen[s]][<<t, i>>]>> \in Items
  <2>1. <<t, i>> \in Objects
    BY DEF Objects
  <2>2. inventory[gen[s]][<<t, i>>] \in 0 .. MaxVersion /\ inventory[gen[s]][<<t, i>>] # 0
    BY <1>2, <2>1 DEF CITypeOK, InventoryTypes, Made
  <2>3. inventory[gen[s]][<<t, i>>] \in 1 .. MaxVersion
    BY <2>2, CommonInventoryAssumption
  <2> QED
    BY <1>2, <2>3 DEF Items, Keys
<1>4. Report(s, t) \in [1 .. PerType -> Items]
  BY <1>3 DEF Report
<1> HIDE DEF Report
<1> QED
  BY <1>1, <1>4

UpsertKeys(ups) == {x[1] : x \in ToSet(ups)}

\* What the cloud has of a key after a message.
Delivered(type, ups, dels) ==
  /\ UpsertKeys(ups) \subseteq Keys
  /\ \A k \in UpsertKeys(ups) : \E i \in 1 .. Len(ups) :
       ups[i][1] = k /\ cloud'[k] = ups[i][2]
  /\ \A k \in Keys \ UpsertKeys(ups) : cloud'[k] =
       IF k \in dels \/ (type = "fullEnd" /\ k \notin seen) THEN 0 ELSE cloud[k]
  /\ seen' = IF type = "fullStart" THEN UpsertKeys(ups)
             ELSE IF type = "fullSegment" THEN seen \cup UpsertKeys(ups) ELSE {}

LEMMA DeliverIs ==
  ASSUME NEW type, NEW ups \in Seq(Items), NEW dels, Deliver(type, ups, dels), CloudTypes
  PROVE  /\ seen' \in SUBSET Keys /\ cloud' \in [Keys -> 0 .. MaxVersion]
         /\ Delivered(type, ups, dels)
<1> DEFINE U == UpsertKeys(ups)
           got == (IF type = "fullStart" THEN {} ELSE seen) \cup U
           gone == dels \cup IF type = "fullEnd" THEN Keys \ got ELSE {}
           V(k) == (CHOOSE x \in ToSet(ups) : x[1] = k)[2]
<1>1. U \subseteq Keys /\ \A x \in ToSet(ups) : \E i \in 1 .. Len(ups) : x = ups[i] /\ x \in Items
  BY DEF UpsertKeys, ToSet, Items
<1>2. /\ seen' = IF type \in {"fullStart", "fullSegment"} THEN got ELSE {}
      /\ cloud' = [k \in Keys |-> IF k \in U THEN V(k) ELSE IF k \in gone THEN 0 ELSE cloud[k]]
  BY DEF Deliver, UpsertKeys
<1>3. ASSUME NEW k \in U
      PROVE  \E i \in 1 .. Len(ups) : ups[i][1] = k /\ V(k) = ups[i][2] /\ V(k) \in 0 .. MaxVersion
  <2>1. \E x \in ToSet(ups) : x[1] = k
    BY DEF UpsertKeys
  <2> DEFINE y == CHOOSE x \in ToSet(ups) : x[1] = k
  <2>2. y \in ToSet(ups) /\ y[1] = k
    BY <2>1
  <2> HIDE DEF y
  <2>3. PICK i \in 1 .. Len(ups) : y = ups[i] /\ y \in Items
    BY <1>1, <2>2
  <2>4. y[2] \in 0 .. MaxVersion
    BY <2>3, CommonInventoryAssumption DEF Items
  <2> QED
    BY <2>2, <2>3, <2>4 DEF y
<1>4. seen \subseteq Keys /\ cloud \in [Keys -> 0 .. MaxVersion] /\ 0 \in 0 .. MaxVersion
  BY CommonInventoryAssumption DEF CloudTypes
<1> HIDE DEF V, U
<1>5. cloud' \in [Keys -> 0 .. MaxVersion]
  BY <1>2, <1>3, <1>4
<1>6. \A k \in U : \E i \in 1 .. Len(ups) : ups[i][1] = k /\ cloud'[k] = ups[i][2]
  BY <1>1, <1>2, <1>3
<1>7. \A k \in Keys \ U : cloud'[k] =
        IF k \in dels \/ (type = "fullEnd" /\ k \notin seen) THEN 0 ELSE cloud[k]
  BY <1>2
<1>8. seen' = IF type = "fullStart" THEN U ELSE IF type = "fullSegment" THEN seen \cup U ELSE {}
  BY <1>2
<1> QED
  BY <1>1, <1>2, <1>4, <1>5, <1>6, <1>7, <1>8 DEF U, Delivered

LEMMA StreamIs == \A s \in Streams : s \in Nat /\ s # 0 /\ s \in 0 .. MaxStreams
BY CommonInventoryAssumption DEF Streams

\* The actions keep the types, and what exists made.
LEMMA CreateTypes ==
  ASSUME CITypeOK, Made, NEW s \in Streams, Create(s)
  PROVE  CITypeOK' /\ Made'
<1>1. InventoryTypes'
  <2>1. current' \in 0 .. MaxStreams
    BY StreamIs DEF Create
  <2>2. [o \in Objects |-> 1] \in [Objects -> 0 .. MaxVersion]
    BY CommonInventoryAssumption
  <2>3. inventory' \in [Streams -> [Objects -> 0 .. MaxVersion]]
    BY <2>2 DEF CITypeOK, InventoryTypes, Create
  <2>4. peer' \in [Streams -> [Objects -> [Rels -> 1 .. PerType]]]
    BY DEF CITypeOK, InventoryTypes, Create
  <2>5. msg' \in [Streams -> InitMessages]
    <3>1. PICK m \in Inits[s] : msg' = [msg EXCEPT ![s] = m]
      BY DEF Create
    <3>2. m \in InitMessages
      BY <3>1, CommonInventoryAssumption
    <3> QED
      BY <3>1, <3>2 DEF CITypeOK, InventoryTypes
  <2> QED
    BY <2>1, <2>3, <2>4, <2>5 DEF InventoryTypes
<1>2. LockTypes'
  BY DEF CITypeOK, LockTypes, Create, inventoryVars, lockVars, colVars, cloudVars
<1>3. CollectorTypes'
  BY DEF CITypeOK, CollectorTypes, Create, inventoryVars, lockVars, colVars, cloudVars
<1>4. CloudTypes'
  BY DEF CITypeOK, CloudTypes, Create, inventoryVars, lockVars, colVars, cloudVars
<1>5. ProcessorTypes'
  BY DEF CITypeOK, ProcessorTypes, Create, inventoryVars, lockVars, colVars, cloudVars
<1>6. Made'
  <2>1. /\ current' = s /\ del'[s] = "lock" /\ col' = col /\ gen' = gen
        /\ \A r \in Streams : r # s => del'[r] = del[r] /\ inventory'[r] = inventory[r]
        /\ \A o \in Objects : inventory'[s][o] = 1
    BY DEF Create, colVars, CITypeOK, LockTypes, InventoryTypes
  <2>2. s # 0
    BY StreamIs
  <2>3. \A r \in Streams : col'[r] # "none" => del'[r] # "idle"
    BY <2>1 DEF Made
  <2>4. \A r \in Streams : col'[r] = "types" => gen'[r] # 0 /\ del'[gen'[r]] # "idle"
    <3> SUFFICES ASSUME NEW r \in Streams, col[r] = "types"
                 PROVE  gen[r] # 0 /\ del'[gen[r]] # "idle"
      BY <2>1
    <3>1. gen[r] # 0 /\ del[gen[r]] # "idle" /\ gen[r] \in 0 .. MaxStreams
      BY DEF Made, CITypeOK, CollectorTypes
    <3>2. gen[r] \in Streams
      BY <3>1, CommonInventoryAssumption DEF Streams
    <3> QED
      BY <2>1, <3>1, <3>2
  <2>5. \A r \in Streams : \A o \in Objects : del'[r] # "idle" => inventory'[r][o] # 0
    BY <2>1 DEF Made
  <2> QED
    BY <2>1, <2>2, <2>3, <2>4, <2>5 DEF Made
<1> QED
  BY <1>1, <1>2, <1>3, <1>4, <1>5, <1>6 DEF CITypeOK, ProcessorTypes

LEMMA FirstTypes ==
  ASSUME CITypeOK, Made, NEW s \in Streams, First(s)
  PROVE  CITypeOK' /\ Made'
<1>1. InventoryTypes'
  BY DEF CITypeOK, InventoryTypes, First, Start, inventoryVars, lockVars, colVars, cloudVars
<1>2. LockTypes'
  BY StreamIs DEF CITypeOK, LockTypes, First, Start, lockVars
<1>3. CollectorTypes'
  BY DEF CITypeOK, CollectorTypes, First, Start, inventoryVars, lockVars, colVars, cloudVars
<1>4. CloudTypes'
  BY DEF CITypeOK, CloudTypes, First, Start, inventoryVars, lockVars, colVars, cloudVars
<1>5. ProcessorTypes'
  <2>1. Processor("select") \in Processors
    BY DEF Processor, Processors, Messages
  <2> QED
    BY <2>1 DEF CITypeOK, ProcessorTypes, First, Start
<1>6. Made'
  <2>1. /\ inventory' = inventory /\ current' = current /\ gen' = gen
        /\ \A r \in Streams : del'[r] = "idle" <=> del[r] = "idle"
        /\ \A r \in Streams : col'[r] # "none" => del'[r] # "idle"
        /\ \A r \in Streams : col'[r] = "types" => col[r] = "types"
    BY DEF First, Start, colVars, inventoryVars, CITypeOK, LockTypes, CollectorTypes, Made
  <2>2. current \in 0 .. MaxStreams /\ \A r \in Streams : gen[r] \in 0 .. MaxStreams
    BY DEF CITypeOK, InventoryTypes, CollectorTypes
  <2>3. \A r \in 0 .. MaxStreams : r # 0 => r \in Streams
    BY CommonInventoryAssumption DEF Streams
  <2> QED
    BY <2>1, <2>2, <2>3 DEF Made
<1> QED
  BY <1>1, <1>2, <1>3, <1>4, <1>5, <1>6 DEF CITypeOK, ProcessorTypes

LEMMA LockTypesKept ==
  ASSUME CITypeOK, Made, NEW s \in Streams, Lock(s)
  PROVE  CITypeOK' /\ Made'
<1>1. InventoryTypes'
  BY DEF CITypeOK, InventoryTypes, Lock, inventoryVars, lockVars, colVars, cloudVars
<1>2. LockTypes'
  <2>1. cancel \in Streams
    BY CommonInventoryAssumption DEF CITypeOK, LockTypes, Lock, Streams
  <2> QED
    BY <2>1, StreamIs DEF CITypeOK, LockTypes, Lock, lockVars
<1>3. CollectorTypes'
  BY DEF CITypeOK, CollectorTypes, Lock, inventoryVars, lockVars, colVars, cloudVars
<1>4. CloudTypes'
  BY DEF CITypeOK, CloudTypes, Lock, inventoryVars, lockVars, colVars, cloudVars
<1>5. ProcessorTypes'
  BY DEF CITypeOK, ProcessorTypes, Lock, inventoryVars, lockVars, colVars, cloudVars
<1>6. Made'
  <2>1. /\ inventory' = inventory /\ current' = current /\ gen' = gen
        /\ \A r \in Streams : del'[r] = "idle" <=> del[r] = "idle"
        /\ \A r \in Streams : col'[r] # "none" => del'[r] # "idle"
        /\ \A r \in Streams : col'[r] = "types" => col[r] = "types"
    BY DEF Lock, colVars, inventoryVars, CITypeOK, LockTypes, CollectorTypes, Made
  <2>2. current \in 0 .. MaxStreams /\ \A r \in Streams : gen[r] \in 0 .. MaxStreams
    BY DEF CITypeOK, InventoryTypes, CollectorTypes
  <2>3. \A r \in 0 .. MaxStreams : r # 0 => r \in Streams
    BY CommonInventoryAssumption DEF Streams
  <2> QED
    BY <2>1, <2>2, <2>3 DEF Made
<1> QED
  BY <1>1, <1>2, <1>3, <1>4, <1>5, <1>6 DEF CITypeOK, ProcessorTypes

LEMMA ReplaceTypes ==
  ASSUME CITypeOK, Made, NEW s \in Streams, Replace(s)
  PROVE  CITypeOK' /\ Made'
<1>1. InventoryTypes'
  BY DEF CITypeOK, InventoryTypes, Replace, Start, inventoryVars, lockVars, colVars, cloudVars
<1>2. LockTypes'
  <2>1. mu' = 0 /\ cancel' = s /\ 0 \in 0 .. MaxStreams /\ s \in 0 .. MaxStreams
    BY StreamIs, CommonInventoryAssumption DEF Replace, Start
  <2>2. /\ cancelled' \subseteq Streams /\ done' \subseteq Streams
        /\ del' \in [Streams -> {"idle", "lock", "wait", "started"}]
    BY DEF CITypeOK, LockTypes, Replace, Start
  <2> QED
    BY <2>1, <2>2 DEF LockTypes
<1>3. CollectorTypes'
  BY DEF CITypeOK, CollectorTypes, Replace, Start, inventoryVars, lockVars, colVars, cloudVars
<1>4. CloudTypes'
  <2>1. [k \in Keys |-> 0] \in [Keys -> 0 .. MaxVersion]
    BY CommonInventoryAssumption
  <2> QED
    BY <2>1 DEF CITypeOK, CloudTypes, Replace, Start, cloudVars
<1>5. ProcessorTypes'
  <2>1. Processor("select") \in Processors
    BY DEF Processor, Processors, Messages
  <2> QED
    BY <2>1 DEF CITypeOK, ProcessorTypes, Replace, Start
<1>6. Made'
  <2>1. /\ inventory' = inventory /\ current' = current /\ gen' = gen
        /\ \A r \in Streams : del'[r] = "idle" <=> del[r] = "idle"
        /\ \A r \in Streams : col'[r] # "none" => del'[r] # "idle"
        /\ \A r \in Streams : col'[r] = "types" => col[r] = "types"
    BY DEF Replace, Start, colVars, inventoryVars, CITypeOK, LockTypes, CollectorTypes, Made
  <2>2. current \in 0 .. MaxStreams /\ \A r \in Streams : gen[r] \in 0 .. MaxStreams
    BY DEF CITypeOK, InventoryTypes, CollectorTypes
  <2>3. \A r \in 0 .. MaxStreams : r # 0 => r \in Streams
    BY CommonInventoryAssumption DEF Streams
  <2> QED
    BY <2>1, <2>2, <2>3 DEF Made
<1> QED
  BY <1>1, <1>2, <1>3, <1>4, <1>5, <1>6 DEF CITypeOK, ProcessorTypes

LEMMA ModifyMade ==
  ASSUME CITypeOK, Made, NEW s \in Streams, col[s] # "none" PROVE current \in Streams
<1>1. current # 0 /\ current \in 0 .. MaxStreams
  BY DEF Made, CITypeOK, InventoryTypes
<1> QED
  BY <1>1, CommonInventoryAssumption DEF Streams

LEMMA ModifyTypes ==
  ASSUME CITypeOK, Made, NEW s \in Streams, Modify(s)
  PROVE  CITypeOK' /\ Made'
<1>1. InventoryTypes'
  <2>1. PICK S \in SUBSET {o \in msg[s].volatile \X (1 .. PerType) :
                          inventory[current][o] < MaxVersion} :
          inventory' = [inventory EXCEPT ![current] = Modified(inventory[current], S)]
    BY DEF Modify
  <2>2. current \in Streams
    BY ModifyMade DEF Modify
  <2>3. inventory[current] \in [Objects -> 0 .. MaxVersion]
    BY <2>2 DEF CITypeOK, InventoryTypes
  <2>4. \A o \in S : inventory[current][o] < MaxVersion
    BY <2>1
  <2>5. Modified(inventory[current], S) \in [Objects -> 0 .. MaxVersion]
    BY <2>3, <2>4, CommonInventoryAssumption DEF Modified
  <2>6. inventory' \in [Streams -> [Objects -> 0 .. MaxVersion]]
    BY <2>1, <2>2, <2>5 DEF CITypeOK, InventoryTypes
  <2> QED
    BY <2>6 DEF CITypeOK, InventoryTypes, Modify
<1>2. LockTypes'
  BY DEF CITypeOK, LockTypes, Modify, inventoryVars, lockVars, colVars, cloudVars
<1>3. CollectorTypes'
  BY DEF CITypeOK, CollectorTypes, Modify, inventoryVars, lockVars, colVars, cloudVars
<1>4. CloudTypes'
  BY DEF CITypeOK, CloudTypes, Modify, inventoryVars, lockVars, colVars, cloudVars
<1>5. ProcessorTypes'
  BY DEF CITypeOK, ProcessorTypes, Modify, inventoryVars, lockVars, colVars, cloudVars
<1>6. Made'
  <2>1. PICK S \in SUBSET {o \in msg[s].volatile \X (1 .. PerType) :
                          inventory[current][o] < MaxVersion} :
          inventory' = [inventory EXCEPT ![current] = Modified(inventory[current], S)]
    BY DEF Modify
  <2>2. current \in Streams
    BY ModifyMade DEF Modify
  <2>3. ASSUME NEW r \in Streams, NEW o \in Objects, inventory[r][o] # 0
        PROVE  inventory'[r][o] # 0
    <3>1. inventory[r][o] \in 0 .. MaxVersion
      BY DEF CITypeOK, InventoryTypes
    <3>2. inventory'[r][o] \in {inventory[r][o], inventory[r][o] + 1}
      BY <2>1, <2>2 DEF CITypeOK, InventoryTypes, Modified
    <3> QED
      BY <2>3, <3>1, <3>2
  <2>4. /\ del' = del /\ current' = current /\ gen' = gen
        /\ \A r \in Streams : col'[r] # "none" => col[r] # "none"
        /\ \A r \in Streams : col'[r] = "types" => col[r] = "types"
    BY DEF Modify, CITypeOK, CollectorTypes
  <2> QED
    BY <2>3, <2>4 DEF Made
<1> QED
  BY <1>1, <1>2, <1>3, <1>4, <1>5, <1>6 DEF CITypeOK, ProcessorTypes

LEMMA CollectorEndsTypes ==
  ASSUME CITypeOK, Made, NEW s \in Streams, CollectorEnds(s)
  PROVE  CITypeOK' /\ Made'
<1>1. InventoryTypes'
  BY DEF CITypeOK, InventoryTypes, CollectorEnds, inventoryVars, lockVars, colVars, cloudVars
<1>2. LockTypes'
  BY DEF CITypeOK, LockTypes, CollectorEnds, inventoryVars, lockVars, colVars, cloudVars
<1>3. CollectorTypes'
  BY DEF CITypeOK, CollectorTypes, CollectorEnds, inventoryVars, lockVars, colVars, cloudVars
<1>4. CloudTypes'
  BY DEF CITypeOK, CloudTypes, CollectorEnds, inventoryVars, lockVars, colVars, cloudVars
<1>5. ProcessorTypes'
  BY DEF CITypeOK, ProcessorTypes, CollectorEnds, inventoryVars, lockVars, colVars, cloudVars
<1>6. Made'
  <2>1. /\ inventory' = inventory /\ current' = current /\ gen' = gen
        /\ \A r \in Streams : del'[r] = "idle" <=> del[r] = "idle"
        /\ \A r \in Streams : col'[r] # "none" => del'[r] # "idle"
        /\ \A r \in Streams : col'[r] = "types" => col[r] = "types"
    BY DEF CollectorEnds, colVars, inventoryVars, CITypeOK, LockTypes, CollectorTypes, Made
  <2>2. current \in 0 .. MaxStreams /\ \A r \in Streams : gen[r] \in 0 .. MaxStreams
    BY DEF CITypeOK, InventoryTypes, CollectorTypes
  <2>3. \A r \in 0 .. MaxStreams : r # 0 => r \in Streams
    BY CommonInventoryAssumption DEF Streams
  <2> QED
    BY <2>1, <2>2, <2>3 DEF Made
<1> QED
  BY <1>1, <1>2, <1>3, <1>4, <1>5, <1>6 DEF CITypeOK, ProcessorTypes

LEMMA SinkEndsTypes ==
  ASSUME CITypeOK, Made, NEW s \in Streams, SinkEnds(s)
  PROVE  CITypeOK' /\ Made'
<1>1. InventoryTypes'
  BY DEF CITypeOK, InventoryTypes, SinkEnds, inventoryVars, lockVars, colVars, cloudVars
<1>2. LockTypes'
  BY DEF CITypeOK, LockTypes, SinkEnds, inventoryVars, lockVars, colVars, cloudVars
<1>3. CollectorTypes'
  BY DEF CITypeOK, CollectorTypes, SinkEnds, inventoryVars, lockVars, colVars, cloudVars
<1>4. CloudTypes'
  BY DEF CITypeOK, CloudTypes, SinkEnds, inventoryVars, lockVars, colVars, cloudVars
<1>5. ProcessorTypes'
  BY DEF CITypeOK, ProcessorTypes, SinkEnds, inventoryVars, lockVars, colVars, cloudVars
<1>6. Made'
  <2>1. /\ inventory' = inventory /\ current' = current /\ gen' = gen
        /\ \A r \in Streams : del'[r] = "idle" <=> del[r] = "idle"
        /\ \A r \in Streams : col'[r] # "none" => del'[r] # "idle"
        /\ \A r \in Streams : col'[r] = "types" => col[r] = "types"
    BY DEF SinkEnds, colVars, inventoryVars, CITypeOK, LockTypes, CollectorTypes, Made
  <2>2. current \in 0 .. MaxStreams /\ \A r \in Streams : gen[r] \in 0 .. MaxStreams
    BY DEF CITypeOK, InventoryTypes, CollectorTypes
  <2>3. \A r \in 0 .. MaxStreams : r # 0 => r \in Streams
    BY CommonInventoryAssumption DEF Streams
  <2> QED
    BY <2>1, <2>2, <2>3 DEF Made
<1> QED
  BY <1>1, <1>2, <1>3, <1>4, <1>5, <1>6 DEF CITypeOK, ProcessorTypes

LEMMA CancelTypes ==
  ASSUME CITypeOK, Made, NEW s \in Streams, Cancel(s)
  PROVE  CITypeOK' /\ Made'
<1>1. InventoryTypes'
  BY DEF CITypeOK, InventoryTypes, Cancel, inventoryVars, lockVars, colVars, cloudVars
<1>2. LockTypes'
  BY DEF CITypeOK, LockTypes, Cancel, lockVars
<1>3. CollectorTypes'
  BY DEF CITypeOK, CollectorTypes, Cancel, inventoryVars, lockVars, colVars, cloudVars
<1>4. CloudTypes'
  BY DEF CITypeOK, CloudTypes, Cancel, inventoryVars, lockVars, colVars, cloudVars
<1>5. ProcessorTypes'
  BY DEF CITypeOK, ProcessorTypes, Cancel, inventoryVars, lockVars, colVars, cloudVars
<1>6. Made'
  <2>1. /\ inventory' = inventory /\ current' = current /\ gen' = gen
        /\ \A r \in Streams : del'[r] = "idle" <=> del[r] = "idle"
        /\ \A r \in Streams : col'[r] # "none" => del'[r] # "idle"
        /\ \A r \in Streams : col'[r] = "types" => col[r] = "types"
    BY DEF Cancel, colVars, inventoryVars, CITypeOK, LockTypes, CollectorTypes, Made
  <2>2. current \in 0 .. MaxStreams /\ \A r \in Streams : gen[r] \in 0 .. MaxStreams
    BY DEF CITypeOK, InventoryTypes, CollectorTypes
  <2>3. \A r \in 0 .. MaxStreams : r # 0 => r \in Streams
    BY CommonInventoryAssumption DEF Streams
  <2> QED
    BY <2>1, <2>2, <2>3 DEF Made
<1> QED
  BY <1>1, <1>2, <1>3, <1>4, <1>5, <1>6 DEF CITypeOK, ProcessorTypes

LEMMA ProcessorEndsTypes ==
  ASSUME CITypeOK, Made, Locked, NEW s \in Streams, ProcessorEnds(s)
  PROVE  CITypeOK' /\ Made'
<1>1. InventoryTypes'
  BY DEF CITypeOK, InventoryTypes, ProcessorEnds, inventoryVars, lockVars, colVars, cloudVars
<1>2. LockTypes'
  BY DEF CITypeOK, LockTypes, ProcessorEnds, inventoryVars, lockVars, colVars, cloudVars
<1>3. CollectorTypes'
  <2>1. 0 \in 0 .. MaxStreams
    BY CommonInventoryAssumption
  <2> QED
    BY <2>1 DEF CITypeOK, CollectorTypes, ProcessorEnds
<1>4. CloudTypes'
  BY DEF CITypeOK, CloudTypes, ProcessorEnds, inventoryVars, lockVars, colVars, cloudVars
<1>5. ProcessorTypes'
  <2>1. Processor("gone") \in Processors
    BY DEF Processor, Processors, Messages
  <2> QED
    BY <2>1 DEF CITypeOK, ProcessorTypes, ProcessorEnds
<1>6. Made'
  <2>1. del[s] # "idle"
    BY DEF ProcessorEnds, Locked
  <2>2. /\ inventory' = inventory /\ current' = current /\ del' = del
        /\ \A r \in Streams : col'[r] # "none" => del'[r] # "idle"
        /\ \A r \in Streams : col'[r] = "types" => col[r] = "types" /\ gen'[r] = gen[r]
    BY <2>1 DEF ProcessorEnds, inventoryVars, CITypeOK, CollectorTypes, Made
  <2> QED
    BY <2>2 DEF Made
<1> QED
  BY <1>1, <1>2, <1>3, <1>4, <1>5, <1>6 DEF CITypeOK, ProcessorTypes

\* Both kinds of report.
ReportTaken(s, type, items) ==
  /\ type \in Reports /\ items \in Seq(Items) /\ Receive(s, type, items)
  /\ \/ /\ col[s] = "start" /\ type = "fullStart" /\ items = <<>>
        /\ col' = [col EXCEPT ![s] = "types"]
        /\ todo' = [todo EXCEPT ![s] = Types]
        /\ gen' = [gen EXCEPT ![s] = current]
     \/ \E t \in todo[s] :
          /\ col[s] = "types" /\ items = Report(s, t)
          /\ todo' = [todo EXCEPT ![s] = todo[s] \ {t}]
          /\ \/ /\ todo[s] # {t} /\ type = "fullSegment"
                /\ col' = [col EXCEPT ![s] = "types"] /\ gen' = gen
             \/ /\ todo[s] = {t} /\ type = "fullEnd"
                /\ col' = [col EXCEPT ![s] = "sleep"]
                /\ gen' = [gen EXCEPT ![s] = 0]

LEMMA CollectIs ==
  ASSUME CITypeOK, Made, NEW s \in Streams, Collect(s)
  PROVE  \E type, items : ReportTaken(s, type, items)
<1>1. CASE CollectStart(s)
  <2>1. <<>> \in Seq(Items) /\ "fullStart" \in Reports
    BY DEF Reports
  <2> QED
    BY <1>1, <2>1 DEF CollectStart, ReportTaken
<1>2. ASSUME NEW t \in Types, CollectType(s, t) PROVE \E type, items : ReportTaken(s, type, items)
  <2> DEFINE type == IF todo[s] = {t} THEN "fullEnd" ELSE "fullSegment"
  <2>1. Receive(s, type, Report(s, t)) /\ col[s] = "types" /\ t \in todo[s]
    BY <1>2 DEF CollectType, Report
  <2>2. type \in Reports /\ Report(s, t) \in Seq(Items)
    BY <2>1, ReportIs DEF Reports
  <2>3. CASE todo[s] = {t}
    BY <1>2, <2>1, <2>2, <2>3 DEF CollectType, ReportTaken
  <2>4. CASE todo[s] # {t}
    BY <1>2, <2>1, <2>2, <2>4 DEF CollectType, ReportTaken
  <2> QED
    BY <2>3, <2>4
<1> QED
  BY <1>1, <1>2 DEF Collect

LEMMA CollectTypes ==
  ASSUME CITypeOK, Made, NEW s \in Streams, Collect(s)
  PROVE  CITypeOK' /\ Made'
<1>1. PICK type, items : ReportTaken(s, type, items)
  BY CollectIs
<1>2. /\ UNCHANGED <<inventoryVars, del, lockVars, done, sink, cloudVars>>
      /\ Panicked \/ \E b : Received(s, type, items, b)
  BY <1>1, ReceiveIs DEF ReportTaken
<1>3. InventoryTypes' /\ LockTypes'
  BY <1>2 DEF CITypeOK, InventoryTypes, LockTypes, inventoryVars, lockVars
<1>4. ProcessorTypes' /\ cache' \in [Keys -> 0 .. MaxVersion] /\ crash' \in BOOLEAN
  <2>1. CASE Panicked
    BY <2>1 DEF Panicked, CITypeOK, CloudTypes, ProcessorTypes
  <2>2. ASSUME NEW b, Received(s, type, items, b)
        PROVE  /\ ProcessorTypes' /\ cache' \in [Keys -> 0 .. MaxVersion]
               /\ crash' \in BOOLEAN
    <3> DEFINE dels == Deleted(b, AllKeys(s, items), type)
               q == Processed(proc[s], b, AllKeys(s, items), dels, type)
    <3>1. b \in Accs /\ q \in Processors
      BY <1>1, <2>2, ReceivedIs DEF ReportTaken
    <3>2. /\ cache' = [k \in Keys |-> IF k \in dels THEN 0 ELSE b.cache[k]]
          /\ proc' = [proc EXCEPT ![s] = q] /\ crash' = crash
      BY <2>2 DEF Received
    <3> HIDE DEF dels, q
    <3>3. b.cache \in [Keys -> 0 .. MaxVersion] /\ 0 \in 0 .. MaxVersion
      BY <3>1, CommonInventoryAssumption DEF Accs
    <3>4. cache' \in [Keys -> 0 .. MaxVersion]
      BY <3>2, <3>3
    <3>5. ProcessorTypes'
      BY <3>1, <3>2 DEF CITypeOK, ProcessorTypes
    <3> QED
      BY <3>2, <3>4, <3>5 DEF CITypeOK, CloudTypes
  <2> QED
    BY <1>2, <2>1, <2>2
<1>5. CloudTypes'
  BY <1>2, <1>4 DEF CITypeOK, CloudTypes, cloudVars
<1>6. col[s] # "none"
  BY <1>1 DEF ReportTaken
<1>7. current \in Streams /\ del[current] # "idle" /\ current # 0 /\ current \in 0 .. MaxStreams
  BY <1>6, ModifyMade, StreamIs DEF Made
<1>8. CollectorTypes'
  <2>0. \E c \in {"types", "sleep"} : col' = [col EXCEPT ![s] = c]
    BY <1>1 DEF ReportTaken
  <2>1. col' \in [Streams -> {"none", "start", "types", "sleep", "gone"}]
    BY <2>0 DEF CITypeOK, CollectorTypes
  <2>2. todo' \in [Streams -> SUBSET Types]
    <3>1. todo \in [Streams -> SUBSET Types] /\ Types \in SUBSET Types
      BY DEF CITypeOK, CollectorTypes
    <3>2. todo[s] \in SUBSET Types
      BY <3>1
    <3>3. \E T \in SUBSET Types : todo' = [todo EXCEPT ![s] = T]
      BY <1>1, <3>1, <3>2 DEF ReportTaken
    <3> QED
      BY <3>1, <3>3
  <2>3. 0 \in 0 .. MaxStreams
    BY CommonInventoryAssumption
  <2>4. gen' \in [Streams -> 0 .. MaxStreams]
    BY <1>1, <1>7, <2>3 DEF ReportTaken, CITypeOK, CollectorTypes
  <2> QED
    BY <2>1, <2>2, <2>4 DEF CollectorTypes
<1>9. Made'
  <2>1. inventory' = inventory /\ current' = current /\ del' = del
    BY <1>2 DEF inventoryVars
  <2>2. \A r \in Streams : col'[r] # "none" => col[r] # "none"
    BY <1>1, <1>6 DEF ReportTaken, CITypeOK, CollectorTypes
  <2>3. ASSUME NEW r \in Streams, col'[r] = "types"
        PROVE  gen'[r] # 0 /\ del[gen'[r]] # "idle"
    <3>1. CASE r # s
      <4>1. col[r] = "types" /\ gen'[r] = gen[r]
        BY <1>1, <2>3, <3>1 DEF ReportTaken, CITypeOK, CollectorTypes
      <4> QED
        BY <4>1 DEF Made
    <3>2. CASE r = s
      <4>1. \/ gen'[s] = current
            \/ col[s] = "types" /\ gen'[s] = gen[s]
        BY <1>1, <2>3, <3>2 DEF ReportTaken, CITypeOK, CollectorTypes
      <4> QED
        BY <1>7, <3>2, <4>1 DEF Made
    <3> QED
      BY <3>1, <3>2
  <2> QED
    BY <2>1, <2>2, <2>3 DEF Made
<1> QED
  BY <1>3, <1>4, <1>5, <1>8, <1>9 DEF CITypeOK, ProcessorTypes

\* A message takes so many of the upserts.
Taking(s) == IF Len(proc[s].ups) > Batch THEN Batch ELSE Len(proc[s].ups)
Message(s) == SubSeq(proc[s].ups, 1, Taking(s))
MessageType(s) ==
  IF ~proc[s].full THEN "incremental"
  ELSE IF Len(proc[s].ups) > Batch THEN "fullSegment" ELSE proc[s].type

LEMMA MessageIs ==
  ASSUME ProcessorTypes, NEW s \in Streams
  PROVE  /\ Taking(s) \in 0 .. Len(proc[s].ups)
         /\ Message(s) \in Seq(Items) /\ Len(Message(s)) = Taking(s)
         /\ \A i \in 1 .. Taking(s) : i \in 1 .. Len(proc[s].ups) /\ Message(s)[i] = proc[s].ups[i]
<1>1. proc[s].ups \in Seq(Items) /\ Len(proc[s].ups) \in Nat /\ Batch \in Nat
  BY ProcessorIs, CommonInventoryAssumption
<1>2. Taking(s) \in 0 .. Len(proc[s].ups)
  BY <1>1 DEF Taking
<1> QED
  BY <1>1, <1>2 DEF Message

LEMMA SendIs ==
  ASSUME CITypeOK, NEW s \in Streams, Send(s)
  PROVE  /\ proc[s].at = "send" /\ sink[s] = "recv"
         /\ proc' \in [Streams -> Processors]
         /\ \A r \in Streams : r # s => proc'[r] = proc[r]
         /\ proc'[s].ups \in Seq(Items)
         /\ Len(proc'[s].ups) = Len(proc[s].ups) - Taking(s)
         /\ \A i \in 1 .. Len(proc'[s].ups) :
              /\ i + Taking(s) \in 1 .. Len(proc[s].ups)
              /\ proc'[s].ups[i] = proc[s].ups[i + Taking(s)]
         /\ proc'[s].missing = proc[s].missing /\ proc'[s].keys = proc[s].keys
         /\ \/ /\ Len(proc[s].ups) > Batch
               /\ proc'[s].at = "send" /\ proc'[s].dels = proc[s].dels
               /\ proc'[s].type = proc[s].type /\ proc'[s].full = proc[s].full
            \/ /\ Len(proc[s].ups) <= Batch
               /\ proc'[s].at = "select" /\ proc'[s].dels = {} /\ proc'[s].ups = <<>>
               /\ proc'[s].type = "none"
               /\ proc'[s].full = (proc[s].full /\ proc[s].type # "fullEnd")
         /\ \/ Deliver(MessageType(s), Message(s), proc[s].dels)
            \/ s \in done /\ UNCHANGED cloudVars
         /\ UNCHANGED <<inventoryVars, del, lockVars, done, colVars, sink, cache, crash>>
<1> DEFINE p == proc[s]
           more == Len(p.ups) > Batch
<1>1. /\ p.at = "send" /\ sink[s] = "recv"
      /\ proc' = [proc EXCEPT ![s] =
          IF more THEN [p EXCEPT !.ups = SubSeq(p.ups, Batch + 1, Len(p.ups))]
          ELSE [p EXCEPT !.at = "select", !.ups = <<>>, !.dels = {}, !.type = "none",
                         !.full = p.full /\ p.type # "fullEnd"]]
      /\ UNCHANGED <<inventoryVars, del, lockVars, done, colVars, sink, cache, crash>>
  BY DEF Send
<1>2. \/ Deliver(MessageType(s), Message(s), proc[s].dels)
      \/ s \in done /\ UNCHANGED cloudVars
  BY DEF Send, MessageType, Message, Taking
<1>3. ProcessorTypes
  BY DEF CITypeOK, ProcessorTypes
<1>4. p.ups \in Seq(Items) /\ Len(p.ups) \in Nat /\ Batch \in Nat \ {0}
  BY <1>3, ProcessorIs, CommonInventoryAssumption
<1>5. p \in Processors
  BY <1>3 DEF ProcessorTypes
<1>6. CASE more
  <2> DEFINE u == SubSeq(p.ups, Batch + 1, Len(p.ups))
  <2>1. /\ u \in Seq(Items) /\ Len(u) = Len(p.ups) - Batch
        /\ \A i \in 1 .. Len(u) : i + Batch \in 1 .. Len(p.ups) /\ u[i] = p.ups[i + Batch]
    BY <1>4, <1>6
  <2> HIDE DEF u
  <2>2. [p EXCEPT !.ups = u] \in Processors
    BY <1>5, <2>1 DEF Processors
  <2>3. proc' = [proc EXCEPT ![s] = [p EXCEPT !.ups = u]]
    BY <1>1, <1>6 DEF u
  <2>4. proc' \in [Streams -> Processors] /\ \A r \in Streams : r # s => proc'[r] = proc[r]
    BY <1>3, <2>2, <2>3 DEF ProcessorTypes
  <2>5. proc'[s] = [p EXCEPT !.ups = u]
    BY <1>3, <2>3 DEF ProcessorTypes
  <2>6. /\ proc'[s].ups = u /\ proc'[s].missing = p.missing /\ proc'[s].keys = p.keys
        /\ proc'[s].at = "send" /\ proc'[s].dels = p.dels
        /\ proc'[s].type = p.type /\ proc'[s].full = p.full
    <3>1. /\ [p EXCEPT !.ups = u].ups = u /\ [p EXCEPT !.ups = u].missing = p.missing
          /\ [p EXCEPT !.ups = u].keys = p.keys /\ [p EXCEPT !.ups = u].at = p.at
          /\ [p EXCEPT !.ups = u].dels = p.dels /\ [p EXCEPT !.ups = u].type = p.type
          /\ [p EXCEPT !.ups = u].full = p.full
      BY <1>5 DEF Processors
    <3> QED
      BY <1>1, <2>5, <3>1
  <2>7. Taking(s) = Batch
    BY <1>6 DEF Taking
  <2>8. /\ proc'[s].ups \in Seq(Items)
        /\ Len(proc'[s].ups) = Len(proc[s].ups) - Taking(s)
        /\ \A i \in 1 .. Len(proc'[s].ups) :
             /\ i + Taking(s) \in 1 .. Len(proc[s].ups)
             /\ proc'[s].ups[i] = proc[s].ups[i + Taking(s)]
    BY <2>1, <2>6, <2>7
  <2> QED
    BY <1>1, <1>2, <1>6, <2>4, <2>6, <2>8
<1>7. CASE ~more
  <2> DEFINE q == [p EXCEPT !.at = "select", !.ups = <<>>, !.dels = {}, !.type = "none",
                            !.full = p.full /\ p.type # "fullEnd"]
  <2>1. <<>> \in Seq(Items) /\ "none" \in Messages
    BY DEF Messages
  <2>2. q \in Processors
    BY <1>5, <2>1 DEF Processors
  <2>3. /\ q.ups = <<>> /\ q.missing = p.missing /\ q.keys = p.keys /\ q.at = "select"
        /\ q.dels = {} /\ q.type = "none" /\ q.full = (p.full /\ p.type # "fullEnd")
    BY <1>5 DEF Processors
  <2>4. proc' = [proc EXCEPT ![s] = q]
    BY <1>1, <1>7
  <2> HIDE DEF q
  <2>5. /\ proc' \in [Streams -> Processors] /\ proc'[s] = q
        /\ \A r \in Streams : r # s => proc'[r] = proc[r]
    BY <1>3, <2>2, <2>4 DEF ProcessorTypes
  <2>6. Taking(s) = Len(p.ups) /\ Len(p.ups) <= Batch
    BY <1>4, <1>7 DEF Taking
  <2>7. Len(q.ups) = 0 /\ q.ups \in Seq(Items)
    BY <2>1, <2>3
  <2> QED
    BY <1>1, <1>2, <1>4, <2>3, <2>5, <2>6, <2>7
<1> QED
  BY <1>6, <1>7

LEMMA SendTypes ==
  ASSUME CITypeOK, Made, NEW s \in Streams, Send(s)
  PROVE  CITypeOK' /\ Made'
<1>1. proc' \in [Streams -> Processors]
  BY SendIs
<1>2. UNCHANGED <<inventoryVars, del, lockVars, done, colVars, sink, cache, crash>>
  BY SendIs
<1>3. InventoryTypes' /\ LockTypes' /\ CollectorTypes'
  BY <1>2 DEF CITypeOK, InventoryTypes, LockTypes, CollectorTypes, inventoryVars, lockVars, colVars
<1>4. Made'
  BY <1>2 DEF Made, inventoryVars, colVars
<1>5. CloudTypes'
  <2>1. CASE Deliver(MessageType(s), Message(s), proc[s].dels)
    <3>1. Message(s) \in Seq(Items)
      BY MessageIs DEF CITypeOK, ProcessorTypes
    <3>2. seen' \in SUBSET Keys /\ cloud' \in [Keys -> 0 .. MaxVersion]
      BY <2>1, <3>1, DeliverIs DEF CITypeOK
    <3> QED
      BY <1>2, <3>2 DEF CITypeOK, CloudTypes
  <2>2. CASE UNCHANGED cloudVars
    BY <1>2, <2>2 DEF CITypeOK, CloudTypes, cloudVars
  <2> QED
    BY <2>1, <2>2, SendIs
<1> QED
  BY <1>1, <1>3, <1>4, <1>5 DEF CITypeOK

(***************************************************************************)
(* One processor, and one stream that is up.                               *)
(***************************************************************************)
\* Most steps leave the lock alone, and no processor starts in them.
QuietStep ==
  /\ mu' = mu /\ cancel' = cancel
  /\ \A r \in Streams : del'[r] = "wait" <=> del[r] = "wait"
  /\ \A r \in Streams : del[r] = "started" => del'[r] = "started"
  /\ \A r \in Streams : proc'[r].at # "none" => proc[r].at # "none"
  /\ \A r \in Streams : Works(r)' => Works(r)
  /\ cache' = cache \/ cancel # 0

LEMMA QuietLocked ==
  ASSUME CITypeOK, Locked, OneProcessor, QuietStep PROVE Locked' /\ OneProcessor'
<1>1. mu # 0 => mu \in Streams
  BY CommonInventoryAssumption DEF CITypeOK, LockTypes, Streams
<1>2. Locked'
  BY <1>1 DEF Locked, QuietStep
<1>3. OneProcessor'
  BY DEF OneProcessor, QuietStep, Works
<1> QED
  BY <1>2, <1>3

LEMMA QuietSteps ==
  ASSUME CITypeOK, Made, Locked, NEW s \in Streams,
         Create(s) \/ Collect(s) \/ Modify(s) \/ CollectorEnds(s)
         \/ Send(s) \/ ProcessorEnds(s) \/ SinkEnds(s) \/ Cancel(s)
  PROVE  QuietStep
<1>1. CASE Create(s)
  BY <1>1 DEF Create, CITypeOK, LockTypes, QuietStep, lockVars, Works
<1>2. CASE Collect(s)
  <2>1. PICK type, items : ReportTaken(s, type, items)
    BY <1>2, CollectIs
  <2>2. /\ proc[s].at = "select"
        /\ UNCHANGED <<inventoryVars, del, lockVars, done, sink, cloudVars>>
        /\ Panicked \/ \E b : Received(s, type, items, b)
    BY <2>1, ReceiveIs DEF ReportTaken
  <2>3. cancel # 0
    BY <2>2 DEF Locked
  <2>4. \A r \in Streams : r # s => proc'[r] = proc[r]
    BY <2>2 DEF CITypeOK, Panicked, Received
  <2>5. proc[s].at # "none" /\ Works(s)
    BY <2>2 DEF Works
  <2> QED
    BY <2>2, <2>3, <2>4, <2>5 DEF QuietStep, lockVars, Works
<1>3. CASE Modify(s) \/ CollectorEnds(s) \/ SinkEnds(s) \/ Cancel(s)
  BY <1>3 DEF Modify, CollectorEnds, SinkEnds, Cancel, QuietStep, lockVars, Works
<1>4. CASE Send(s)
  <2>1. /\ proc[s].at = "send" /\ \A r \in Streams : r # s => proc'[r] = proc[r]
        /\ UNCHANGED <<inventoryVars, del, lockVars, done, colVars, sink, cache, crash>>
    BY <1>4, SendIs
  <2> QED
    BY <2>1 DEF QuietStep, lockVars, Works
<1>5. CASE ProcessorEnds(s)
  <2>1. proc[s].at = "select" /\ proc' = [proc EXCEPT ![s] = Processor("gone")]
    BY <1>5 DEF ProcessorEnds
  <2>2. proc'[s].at = "gone" /\ \A r \in Streams : r # s => proc'[r] = proc[r]
    BY <2>1 DEF CITypeOK, Processor
  <2> QED
    BY <1>5, <2>1, <2>2 DEF ProcessorEnds, QuietStep, lockVars, Works
<1> QED
  BY <1>1, <1>2, <1>3, <1>4, <1>5

LEMMA StartIs ==
  ASSUME CITypeOK, NEW s \in Streams, Start(s)
  PROVE  /\ del'[s] = "started" /\ mu' = 0 /\ cancel' = s
         /\ col'[s] = "start" /\ sink'[s] = "recv"
         /\ proc'[s] = Processor("select") /\ proc'[s].at = "select"
         /\ \A r \in Streams : r # s => proc'[r] = proc[r] /\ del'[r] = del[r] /\ col'[r] = col[r]
BY DEF Start, CITypeOK, LockTypes, CollectorTypes, CloudTypes, Processor

\* A processor is started when none works.
LEMMA LockSteps ==
  ASSUME CITypeOK, Locked, OneProcessor, NEW s \in Streams, StreamDelegate(s)
  PROVE  Locked' /\ OneProcessor'
<1>1. s # 0
  BY StreamIs
<1>2. CASE First(s)
  <2>1. /\ mu = 0 /\ cancel = 0 /\ Start(s)
    BY <1>2 DEF First
  <2>2. \A r \in Streams : proc[r].at = "none" /\ del[r] # "wait"
    BY <2>1, StreamIs DEF Locked
  <2> QED
    BY <1>1, <2>1, <2>2, StartIs DEF Locked, OneProcessor
<1>3. CASE Lock(s)
  <2>1. /\ del[s] = "lock" /\ mu = 0 /\ cancel # 0 /\ mu' = s /\ cancel' = cancel
        /\ proc' = proc /\ del'[s] = "wait" /\ \A r \in Streams : r # s => del'[r] = del[r]
    BY <1>3 DEF Lock, CITypeOK, LockTypes
  <2>2. \A r \in Streams : del[r] # "wait"
    BY <2>1, StreamIs DEF Locked
  <2> QED
    BY <1>1, <2>1, <2>2 DEF Locked, OneProcessor
<1>4. CASE Replace(s)
  <2>1. del[s] = "wait" /\ ~Working /\ Start(s)
    BY <1>4 DEF Replace
  <2>2. mu = s
    BY <2>1 DEF Locked
  <2>3. \A r \in Streams : r # s => del[r] # "wait"
    BY <2>2 DEF Locked
  <2>4. \A r \in Streams : proc[r].at \notin {"select", "send"}
    BY <2>1 DEF Working
  <2>5. Locked'
    BY <1>1, <2>1, <2>3, StartIs DEF Locked
  <2>6. OneProcessor'
    BY <2>1, <2>4, StartIs DEF OneProcessor
  <2> QED
    BY <2>5, <2>6
<1> QED
  BY <1>2, <1>3, <1>4 DEF StreamDelegate

OpenedStep ==
  /\ current' = current /\ done \subseteq done'
  /\ \A r \in Streams : del'[r] = "idle" <=> del[r] = "idle"
  /\ \A r \in done' : r \in done \/ (r \in Streams /\ del[r] # "idle")

LEMMA KeptOpened ==
  ASSUME CITypeOK, Opened, OpenedStep PROVE Opened'
BY DEF CITypeOK, LockTypes, Opened, OpenedStep

LEMMA CreateOpened ==
  ASSUME CITypeOK, Opened, NEW s \in Streams, Create(s) PROVE Opened'
<1>1. /\ del[s] = "idle" /\ del'[s] = "lock" /\ current' = s /\ done' = done
      /\ \A r \in Streams : r < s => r \in done
      /\ \A r \in Streams : r # s => del'[r] = del[r]
  BY DEF Create, CITypeOK, LockTypes
<1>2. ASSUME NEW r \in Streams, del[r] # "idle", r \notin done PROVE FALSE
  <2>1. r < s \/ s < r \/ r = s
    BY StreamIs
  <2> QED
    BY <1>1, <1>2, <2>1 DEF Opened
<1>3. done \subseteq Streams
  BY DEF CITypeOK, LockTypes
<1>4. \A q, r \in Streams : del'[q] # "idle" /\ r < q => r \in done'
  BY <1>1 DEF Opened
<1>5. \A q \in done' : del'[q] # "idle"
  BY <1>1, <1>3 DEF Opened
<1>6. \A q \in Streams : del'[q] # "idle" /\ q \notin done' => current' = q
  BY <1>1, <1>2
<1> QED
  BY <1>4, <1>5, <1>6 DEF Opened

LEMMA OpenedSteps ==
  ASSUME CITypeOK, Made, Opened, NEW s \in Streams,
         StreamDelegate(s) \/ Collect(s) \/ Modify(s) \/ CollectorEnds(s)
         \/ Send(s) \/ ProcessorEnds(s) \/ SinkEnds(s) \/ Cancel(s)
  PROVE  Opened'
<1>1. CASE First(s)
  BY <1>1, StartIs, KeptOpened DEF First, OpenedStep, inventoryVars
<1>2. CASE Lock(s)
  BY <1>2, KeptOpened DEF Lock, OpenedStep, inventoryVars, CITypeOK, LockTypes
<1>3. CASE Replace(s)
  BY <1>3, StartIs, KeptOpened DEF Replace, OpenedStep, inventoryVars
<1>4. CASE Collect(s)
  <2>1. PICK type, items : ReportTaken(s, type, items)
    BY <1>4, CollectIs
  <2>2. UNCHANGED <<inventoryVars, del, lockVars, done, sink, cloudVars>>
    BY <2>1 DEF ReportTaken, Receive
  <2> QED
    BY <2>2, KeptOpened DEF OpenedStep, inventoryVars
<1>5. CASE Modify(s) \/ CollectorEnds(s) \/ SinkEnds(s) \/ ProcessorEnds(s)
  BY <1>5, KeptOpened DEF Modify, CollectorEnds, SinkEnds, ProcessorEnds, OpenedStep, inventoryVars
<1>6. CASE Send(s)
  <2>1. UNCHANGED <<inventoryVars, del, lockVars, done, colVars, sink, cache, crash>>
    BY <1>6, SendIs
  <2> QED
    BY <2>1, KeptOpened DEF OpenedStep, inventoryVars
<1>7. CASE Cancel(s)
  BY <1>7, KeptOpened DEF Cancel, OpenedStep, inventoryVars
<1> QED
  BY <1>1, <1>2, <1>3, <1>4, <1>5, <1>6, <1>7 DEF StreamDelegate

\* What holds whatever a stream does.
CISafe == CITypeOK /\ Made /\ Locked /\ OneProcessor /\ Opened

LEMMA CIInitSafe == CIInit => CISafe
<1> SUFFICES ASSUME CIInit PROVE CISafe
  OBVIOUS
<1>0. 0 \in 0 .. MaxStreams /\ 0 \in 0 .. MaxVersion /\ 1 \in 1 .. PerType
  BY CommonInventoryAssumption
<1>1. InventoryTypes /\ LockTypes
  <2>1. [rels |-> [t \in Types |-> {}], volatile |-> {}] \in InitMessages
    BY DEF InitMessages
  <2>2. msg \in [Streams -> InitMessages]
    BY <2>1 DEF CIInit
  <2>3. peer \in [Streams -> [Objects -> [Rels -> 1 .. PerType]]]
    BY <1>0 DEF CIInit
  <2>4. inventory \in [Streams -> [Objects -> 0 .. MaxVersion]] /\ current \in 0 .. MaxStreams
    BY <1>0 DEF CIInit
  <2> QED
    BY <1>0, <2>2, <2>3, <2>4 DEF CIInit, InventoryTypes, LockTypes
<1>2. CollectorTypes /\ CloudTypes
  BY <1>0 DEF CIInit, CollectorTypes, CloudTypes
<1>3. proc \in [Streams -> Processors]
  <2>1. Processor("none") \in Processors
    BY DEF Processor, Processors, Messages
  <2> QED
    BY <2>1 DEF CIInit
<1>4. Made /\ Opened
  BY DEF CIInit, Made, Opened
<1>5. Locked /\ OneProcessor
  BY DEF CIInit, Locked, OneProcessor, Processor
<1> QED
  BY <1>1, <1>2, <1>3, <1>4, <1>5 DEF CISafe, CITypeOK

LEMMA CINextSafe == CISafe /\ [CINext]_ciVars => CISafe'
<1> SUFFICES ASSUME CISafe, [CINext]_ciVars PROVE CISafe'
  OBVIOUS
<1>1. CASE UNCHANGED ciVars
  BY <1>1 DEF ciVars, inventoryVars, lockVars, colVars, cloudVars, CISafe, CITypeOK,
       InventoryTypes, LockTypes, CollectorTypes, CloudTypes, Made, Locked, OneProcessor, Opened
<1>2. ASSUME NEW s \in Streams,
        Create(s) \/ StreamDelegate(s) \/ Collect(s) \/ Modify(s) \/ CollectorEnds(s)
        \/ Send(s) \/ ProcessorEnds(s) \/ SinkEnds(s) \/ Cancel(s)
      PROVE CISafe'
  <2>1. CITypeOK' /\ Made'
    BY <1>2, CreateTypes, FirstTypes, LockTypesKept, ReplaceTypes, CollectTypes, ModifyTypes,
       CollectorEndsTypes, SendTypes, ProcessorEndsTypes, SinkEndsTypes, CancelTypes
       DEF CISafe, StreamDelegate
  <2>2. Locked' /\ OneProcessor'
    BY <1>2, QuietSteps, QuietLocked, LockSteps DEF CISafe
  <2>3. Opened'
    BY <1>2, CreateOpened, OpenedSteps DEF CISafe
  <2> QED
    BY <2>1, <2>2, <2>3 DEF CISafe
<1> QED
  BY <1>1, <1>2 DEF CINext

\* The type invariant of the inventory streams and what they share.
THEOREM InventoryTypeCorrect == CISpec => []CITypeOK
<1>1. CISafe => CITypeOK
  BY DEF CISafe
<1> QED
  BY <1>1, CIInitSafe, CINextSafe, PTL DEF CISpec

\* The processors of two streams, which share diffCache, never work at the
\* same time.
THEOREM ProcessorsTakeTurns == CISpec => []OneProcessor
<1>1. CISafe => OneProcessor
  BY DEF CISafe
<1> QED
  BY <1>1, CIInitSafe, CINextSafe, PTL DEF CISpec

(***************************************************************************)
(* The stream that is up: what its cloud has, what is pending, and what is *)
(* held back.                                                              *)
(***************************************************************************)
\* What an object relates to stays.
LEMMA OrderedStays ==
  ASSUME NEW s, NEW c, NEW u, Ordered(c, u), peer' = peer, msg' = msg,
         c = Got(s)', u = proc'[s].ups
  PROVE  Ordered(Got(s), proc[s].ups)'
<1>1. \A k : To(k)' = To(k) /\ Relations(k)' = Relations(k)
  BY DEF To, Relations, Related
<1> SUFFICES ASSUME NEW i \in 1 .. Len(u)
             PROVE  (Ready(Got(s), proc[s].ups[i][1]) \/ Follower(proc[s].ups, i))'
  BY DEF Ordered
<1>2. PICK k : k = u[i][1] /\ k = proc'[s].ups[i][1]
  OBVIOUS
<1>3. Ready(c, k) \/ \E y \in To(k) : \E j \in 1 .. i - 1 : u[j][1] = y
  BY <1>2 DEF Ordered, Follower
<1>4. CASE Ready(c, k)
  <2>1. Relations(k)' = {} \/ \E y \in To(k)' : c[y] # 0
    BY <1>1, <1>4 DEF Ready
  <2>2. Relations(k)' = {} \/ \E y \in To(k)' : Got(s)'[y] # 0
    BY <2>1
  <2>3. Ready(Got(s), k)'
    BY <2>2 DEF Ready
  <2> QED
    BY <1>2, <2>3 DEF Ready, Relations, To, Related
<1>5. CASE \E y \in To(k) : \E j \in 1 .. i - 1 : u[j][1] = y
  <2>1. \E y \in To(k)' : \E j \in 1 .. i - 1 : proc'[s].ups[j][1] = y
    BY <1>1, <1>5
  <2> QED
    BY <1>2, <2>1 DEF Follower, To, Relations, Related
<1> QED
  BY <1>3, <1>4, <1>5

LEMMA OrderedKept ==
  ASSUME NEW s \in Streams, Ordered(Got(s), proc[s].ups), peer' = peer, msg' = msg,
         Got(s)' = Got(s), proc'[s].ups = proc[s].ups
  PROVE  Ordered(Got(s), proc[s].ups)'
<1>1. PICK c, u : c = Got(s) /\ u = proc[s].ups
  OBVIOUS
<1>2. Ordered(c, u) /\ c = Got(s)' /\ u = proc'[s].ups
  BY <1>1
<1> QED
  BY <1>2, OrderedStays

\* A step of another stream.
LEMMA FedKept ==
  ASSUME NEW s \in Streams, Fed(s), proc'[s] = proc[s], col'[s] = col[s], todo'[s] = todo[s],
         gen'[s] = gen[s], cache' = cache, cloud' = cloud, seen' = seen, peer' = peer, msg' = msg
  PROVE  Fed(s)'
<1>1. Own(s)' /\ HeldBack(s)'
  BY DEF Fed, Own, HeldBack
<1>2. Phase(s)'
  BY DEF Fed, Phase, Reported
<1>3. Got(s)' = Got(s)
  BY DEF Got, Before
<1>4. Acc(s)' = Acc(s)
  BY DEF Acc
<1>5. PendingSound(s)'
  BY <1>3, <1>4, OrderedKept DEF Fed, PendingSound, Written
<1> QED
  BY <1>1, <1>2, <1>5 DEF Fed

\* Start leaves a processor and a collector at their beginning.
LEMMA StartFed ==
  ASSUME CITypeOK, NEW s \in Streams, Start(s), \A k \in Keys : cache'[k] = 0
  PROVE  Fed(s)'
<1> DEFINE p == proc'[s]
<1>1. /\ p.at = "select" /\ p.missing = <<>> /\ p.keys = {} /\ p.full = TRUE
      /\ p.type = "none" /\ p.ups = <<>> /\ p.dels = {} /\ col'[s] = "start"
  BY StartIs DEF Processor
<1>2. Own(s)' /\ Phase(s)'
  BY <1>1 DEF Own, Phase
<1>3. HeldBack(s)'
  <2>1. ToSet(<<>>) = {} /\ Len(<<>>) = 0
    BY DEF ToSet
  <2> QED
    BY <1>1, <2>1 DEF HeldBack, Of, Agree
<1>4. Got(s)' = [k \in Keys |-> 0]
  BY <1>1 DEF Got, Before
<1>5. PendingSound(s)'
  <2>1. Acc(s)'.cache = cache' /\ Acc(s)'.ups = <<>> /\ Len(<<>>) = 0
    BY <1>1 DEF Acc
  <2>2. Written([k \in Keys |-> 0], Acc(s)')
    BY <2>1 DEF Written
  <2>3. Ordered([k \in Keys |-> 0], <<>>)'
    BY <2>1 DEF Ordered
  <2>4. Written(Got(s), Acc(s))'
    BY <1>4, <2>2 DEF Written
  <2>5. Ordered(Got(s), proc[s].ups)'
    BY <1>1, <1>4, <2>1 DEF Ordered
  <2> QED
    BY <2>4, <2>5 DEF PendingSound
<1> QED
  BY <1>2, <1>3, <1>5 DEF Fed

LEMMA ModifyFed ==
  ASSUME CITypeOK, NEW s \in Streams, Fed(s), Works(s), Modify(s) PROVE Fed(s)'
<1>1. /\ col[s] = "sleep" /\ col'[s] = "start" /\ proc' = proc /\ peer' = peer /\ msg' = msg
      /\ cache' = cache /\ cloud' = cloud /\ seen' = seen /\ todo' = todo /\ gen' = gen
  BY DEF Modify, cloudVars, Works, CITypeOK, CollectorTypes
<1>2. Own(s)' /\ HeldBack(s)'
  BY <1>1 DEF Fed, Own, HeldBack
<1>3. proc[s].at \in {"select", "send"} /\ proc[s].full \in BOOLEAN
  BY ProcessorIs DEF Works, CITypeOK, ProcessorTypes
<1>4. proc[s].full => proc[s].at = "send" /\ proc[s].type = "fullEnd"
  BY <1>1 DEF Fed, Phase
<1>5. Phase(s)'
  BY <1>1, <1>4 DEF Fed, Phase
<1>6. Got(s)' = Got(s) /\ Acc(s)' = Acc(s)
  BY <1>1, <1>4 DEF Got, Before, Acc
<1>7. PendingSound(s)'
  BY <1>1, <1>6, OrderedKept DEF Fed, PendingSound, Written
<1> QED
  BY <1>2, <1>5, <1>7 DEF Fed

\* A message that is delivered adds its upserts to what the cloud keeps.
LEMMA SendGot ==
  ASSUME CITypeOK, NEW s \in Streams, Fed(s), Send(s), s \notin done
  PROVE  LET U == UpsertKeys(Message(s)) IN
         /\ U \subseteq Keys
         /\ \A k \in U : \E i \in 1 .. Taking(s) : proc[s].ups[i][1] = k
         /\ \A k \in U : Got(s)'[k] = cache[k] /\ cloud'[k] = cache[k] /\ cache[k] # 0
         /\ \A k \in Keys \ U : Got(s)'[k] = Got(s)[k]
         /\ \A k \in Keys : Got(s)'[k] # 0 => cloud'[k] = Got(s)'[k]
         /\ \A k \in Keys : cloud'[k] # 0 /\ cloud'[k] # cloud[k] => k \in U
         /\ \A i \in 1 .. Taking(s) : proc[s].ups[i][1] \in U
<1> DEFINE p == proc[s]
           U == UpsertKeys(Message(s))
<1>1. Deliver(MessageType(s), Message(s), p.dels) /\ p.at = "send" /\ cache' = cache /\ col' = col
  BY SendIs DEF colVars
<1>2. p.dels = {}
  BY DEF Fed, Phase
<1>3. /\ Message(s) \in Seq(Items) /\ Len(Message(s)) = Taking(s)
      /\ \A i \in 1 .. Taking(s) : i \in 1 .. Len(p.ups) /\ Message(s)[i] = p.ups[i]
      /\ p.ups \in Seq(Items) /\ p.full \in BOOLEAN /\ p.type \in Messages
  BY MessageIs, ProcessorIs DEF CITypeOK, ProcessorTypes
<1>4. /\ U \subseteq Keys
      /\ \A k \in U : \E i \in 1 .. Len(Message(s)) :
           Message(s)[i][1] = k /\ cloud'[k] = Message(s)[i][2]
      /\ \A k \in Keys \ U : cloud'[k] =
           IF k \in p.dels \/ (MessageType(s) = "fullEnd" /\ k \notin seen) THEN 0 ELSE cloud[k]
      /\ seen' = IF MessageType(s) = "fullStart" THEN U
                 ELSE IF MessageType(s) = "fullSegment" THEN seen \cup U ELSE {}
  <2>1. Delivered(MessageType(s), Message(s), p.dels)
    BY <1>1, <1>3, DeliverIs DEF CITypeOK
  <2> QED
    BY <2>1 DEF Delivered
<1>5. \A i \in 1 .. Taking(s) : p.ups[i][1] \in U
  BY <1>3 DEF UpsertKeys, ToSet
<1>6. ASSUME NEW k \in U PROVE \E i \in 1 .. Taking(s) : p.ups[i][1] = k /\ cloud'[k] = p.ups[i][2]
  BY <1>3, <1>4
<1> HIDE DEF U
<1>7. ASSUME NEW k \in U PROVE cloud'[k] = cache[k] /\ cache[k] # 0
  <2>1. PICK i \in 1 .. Taking(s) : p.ups[i][1] = k /\ cloud'[k] = p.ups[i][2]
    BY <1>6
  <2>2. i \in 1 .. Len(p.ups) /\ p.ups[i] \in Items
    BY <1>3
  <2>3. cache[k] = p.ups[i][2]
    BY <2>1, <2>2 DEF Fed, PendingSound, Written, Acc
  <2>4. p.ups[i][2] # 0
    BY <2>2 DEF Items
  <2> QED
    BY <2>1, <2>3, <2>4
<1>8. \A k \in Keys \ U : cloud'[k] =
        IF MessageType(s) = "fullEnd" /\ k \notin seen THEN 0 ELSE cloud[k]
  BY <1>2, <1>4
<1> DEFINE OutOf(k) == Before(s)' \/ (proc'[s].full /\ k \notin seen')
<1>9. \A k \in Keys : Got(s)'[k] = IF OutOf(k) THEN 0 ELSE cloud'[k]
  BY DEF Got
<1>10. \A k \in Keys : Got(s)[k] = IF Before(s) \/ (p.full /\ k \notin seen) THEN 0 ELSE cloud[k]
  BY DEF Got
<1>11. /\ \A k \in U : Got(s)'[k] = cache[k]
       /\ \A k \in Keys \ U : Got(s)'[k] = Got(s)[k]
  <2>1. CASE ~p.full
    <3>1. MessageType(s) = "incremental" /\ ~proc'[s].full /\ ~Before(s) /\ ~Before(s)'
      BY <2>1, SendIs DEF MessageType, Before
    <3> QED
      BY <1>4, <1>7, <1>8, <1>9, <1>10, <2>1, <3>1
  <2>2. CASE p.full /\ Len(p.ups) > Batch
    <3>1. p.type # "fullStart"
      <4>1. Len(<<>>) = 0
        OBVIOUS
      <4> QED
        BY <2>2, <4>1, CommonInventoryAssumption DEF Fed, Phase
    <3>2. /\ MessageType(s) = "fullSegment" /\ proc'[s].full
          /\ proc'[s].type = p.type /\ proc'[s].at = "send"
      BY <1>3, <2>2, SendIs, CommonInventoryAssumption DEF MessageType
    <3>3. ~Before(s) /\ ~Before(s)'
      BY <1>1, <3>1, <3>2 DEF Before
    <3>4. seen' = seen \cup U
      BY <1>4, <3>2
    <3> QED
      BY <1>4, <1>7, <1>8, <1>9, <1>10, <2>2, <3>2, <3>3, <3>4
  <2>3. CASE p.full /\ ~(Len(p.ups) > Batch)
    <3>0. /\ MessageType(s) = p.type /\ proc'[s].at = "select" /\ proc'[s].type = "none"
          /\ proc'[s].full = (p.type # "fullEnd")
      BY <1>3, <2>3, SendIs, CommonInventoryAssumption DEF MessageType
    <3>1. CASE p.type = "fullStart"
      <4>1. p.ups = <<>> /\ col'[s] = "types"
        BY <1>1, <3>1 DEF Fed, Phase
      <4>2. U = {}
        <5>1. Len(Message(s)) = 0
          BY <1>3, <4>1
        <5> QED
          BY <1>3, <5>1 DEF U, UpsertKeys, ToSet
      <4>3. Before(s) /\ ~Before(s)' /\ proc'[s].full /\ seen' = {}
        BY <1>4, <2>3, <3>0, <3>1, <4>1, <4>2 DEF Before
      <4> QED
        BY <1>9, <1>10, <4>2, <4>3
    <3>2. CASE p.type = "fullSegment"
      <4>1. col[s] = "types"
        BY <1>1, <2>3, <3>2 DEF Fed, Phase
      <4>2. ~Before(s) /\ ~Before(s)' /\ proc'[s].full /\ seen' = seen \cup U
        BY <1>1, <1>4, <3>0, <3>2, <4>1 DEF Before
      <4> QED
        BY <1>4, <1>7, <1>8, <1>9, <1>10, <2>3, <3>0, <3>2, <4>2
    <3>3. CASE p.type = "fullEnd"
      <4>1. ~Before(s) /\ ~Before(s)' /\ ~proc'[s].full
        BY <1>1, <3>0, <3>3 DEF Before
      <4> QED
        BY <1>4, <1>7, <1>8, <1>9, <1>10, <2>3, <3>0, <3>3, <4>1
    <3>4. p.type # "none"
      BY <1>1 DEF Fed, Phase
    <3> QED
      BY <1>3, <3>1, <3>2, <3>3, <3>4 DEF Messages
  <2> QED
    BY <2>1, <2>2, <2>3
<1>12. \A k \in Keys : cloud'[k] # 0 /\ cloud'[k] # cloud[k] => k \in U
  BY <1>8
<1>13. \A k \in Keys : Got(s)'[k] # 0 => cloud'[k] = Got(s)'[k]
  BY <1>9
<1> QED
  BY <1>4, <1>5, <1>6, <1>7, <1>11, <1>12, <1>13 DEF U

\* What has been sent is no longer pending, and the cloud keeps it.
LEMMA SendFed ==
  ASSUME CITypeOK, NEW s \in Streams, Fed(s), Send(s), s \notin done
  PROVE  Fed(s)'
<1> DEFINE p == proc[s]
           q == proc'[s]
           U == UpsertKeys(Message(s))
           m == Taking(s)
<1>1. /\ proc' \in [Streams -> Processors] /\ q.missing = p.missing /\ q.keys = p.keys
      /\ q.ups \in Seq(Items) /\ Len(q.ups) = Len(p.ups) - m
      /\ \A i \in 1 .. Len(q.ups) : i + m \in 1 .. Len(p.ups) /\ q.ups[i] = p.ups[i + m]
  BY SendIs
<1>2. /\ \/ q.at = "send" /\ q.dels = p.dels /\ q.type = p.type /\ q.full = p.full
         \/ /\ q.at = "select" /\ q.dels = {} /\ q.ups = <<>> /\ q.type = "none"
            /\ q.full = (p.full /\ p.type # "fullEnd")
      /\ p.at = "send"
  BY SendIs
<1>3. /\ inventory' = inventory /\ peer' = peer /\ msg' = msg /\ cache' = cache
      /\ col' = col /\ todo' = todo /\ gen' = gen
  BY SendIs DEF inventoryVars, colVars
<1>4. /\ p.ups \in Seq(Items) /\ m \in 0 .. Len(p.ups) /\ Len(p.ups) \in Nat
      /\ p.full \in BOOLEAN
  BY MessageIs, ProcessorIs DEF CITypeOK, ProcessorTypes
<1>5. Own(s)'
  BY <1>3 DEF Fed, Own
<1>6. HeldBack(s)'
  BY <1>1 DEF Fed, HeldBack
<1>7. Phase(s)'
  <2>1. Reported(s)' = Reported(s)
    BY <1>3 DEF Reported
  <2>2. Phase(s)
    BY DEF Fed
  <2>3. CASE q.at = "send" /\ q.dels = p.dels /\ q.type = p.type /\ q.full = p.full
    <3>1. p.type = "fullStart" => q.ups = <<>>
      <4> SUFFICES ASSUME p.type = "fullStart" PROVE q.ups = <<>>
        OBVIOUS
      <4>1. p.ups = <<>> /\ Len(<<>>) = 0
        BY <2>2 DEF Phase
      <4>2. Len(q.ups) = 0
        BY <1>1, <1>4, <4>1
      <4> QED
        BY <1>1, <4>2
    <3> QED
      BY <1>1, <1>2, <1>3, <2>1, <2>2, <2>3, <3>1 DEF Phase
  <2>4. CASE /\ q.at = "select" /\ q.dels = {} /\ q.ups = <<>> /\ q.type = "none"
             /\ q.full = (p.full /\ p.type # "fullEnd")
    <3>1. ~(q.full /\ col[s] = "sleep")
      BY <1>2, <2>2, <2>4 DEF Phase
    <3> QED
      BY <1>1, <1>3, <2>1, <2>2, <2>4, <3>1 DEF Phase
  <2> QED
    BY <1>2, <2>3, <2>4
<1>8. /\ U \subseteq Keys
      /\ \A k \in U : \E i \in 1 .. m : p.ups[i][1] = k
      /\ \A k \in U : Got(s)'[k] = cache[k] /\ cache[k] # 0
      /\ \A k \in Keys \ U : Got(s)'[k] = Got(s)[k]
      /\ \A i \in 1 .. m : p.ups[i][1] \in U
  BY SendGot
<1> HIDE DEF U, m
<1>9. /\ \A i \in 1 .. Len(p.ups) : cache[p.ups[i][1]] = p.ups[i][2]
      /\ \A k \in Keys : cache[k] # Got(s)[k] => \E i \in 1 .. Len(p.ups) : p.ups[i][1] = k
      /\ \A k \in Keys : Got(s)[k] # 0 => cache[k] # 0
      /\ Ordered(Got(s), p.ups)
  BY DEF Fed, PendingSound, Written, Acc
<1>10. \A k \in Keys : Got(s)[k] # 0 => Got(s)'[k] # 0
  BY <1>8
<1>11. \A i \in 1 .. Len(q.ups) : cache[q.ups[i][1]] = q.ups[i][2]
  <2> TAKE i \in 1 .. Len(q.ups)
  <2>1. i + m \in 1 .. Len(p.ups) /\ q.ups[i] = p.ups[i + m]
    BY <1>1
  <2>2. cache[p.ups[i + m][1]] = p.ups[i + m][2]
    BY <1>9, <2>1
  <2> QED
    BY <2>1, <2>2
<1>12. ASSUME NEW k \in Keys, cache[k] # Got(s)'[k]
       PROVE  \E i \in 1 .. Len(q.ups) : q.ups[i][1] = k
  <2>1. k \notin U /\ cache[k] # Got(s)[k]
    BY <1>8, <1>12
  <2>2. PICK j \in 1 .. Len(p.ups) : p.ups[j][1] = k
    BY <1>9, <2>1
  <2>3. ~(j \in 1 .. m)
    BY <1>8, <2>1, <2>2
  <2>4. j - m \in 1 .. Len(q.ups) /\ (j - m) + m = j
    BY <1>1, <1>4, <2>3
  <2> QED
    BY <1>1, <2>2, <2>4
<1>13. \A k \in Keys : Got(s)'[k] # 0 => cache[k] # 0
  BY <1>8, <1>9
<1>14. Written(Got(s), Acc(s))'
  <2>1. Acc(s)'.cache = cache /\ Acc(s)'.ups = q.ups
    BY <1>3 DEF Acc
  <2> QED
    BY <2>1, <1>11, <1>12, <1>13 DEF Written
<1>15. ASSUME NEW i \in 1 .. Len(q.ups), NEW k \in Keys, k = q.ups[i][1]
       PROVE  Ready(Got(s)', k) \/ \E y \in To(k) : \E j \in 1 .. i - 1 : q.ups[j][1] = y
  <2>1. /\ i + m \in 1 .. Len(p.ups) /\ k = p.ups[i + m][1]
        /\ i \in Nat /\ m \in Nat /\ i >= 1
    BY <1>1, <1>4, <1>15
  <2>2. Ready(Got(s), k) \/ \E y \in To(k) : \E j \in 1 .. (i + m) - 1 : p.ups[j][1] = y
    BY <1>9, <2>1 DEF Ordered, Follower
  <2>3. \A y \in To(k) : y \in Keys
    BY RelationsIn, HeldIs
  <2>4. CASE Ready(Got(s), k)
    BY <1>10, <2>3, <2>4 DEF Ready
  <2>5. ASSUME NEW y \in To(k), NEW j \in 1 .. (i + m) - 1, p.ups[j][1] = y
        PROVE  Got(s)'[y] # 0 \/ \E h \in 1 .. i - 1 : q.ups[h][1] = y
    <3>1. CASE j \in 1 .. m
      <4>1. y \in U
        BY <1>8, <2>5, <3>1
      <4> QED
        BY <1>8, <4>1
    <3>2. CASE j \notin 1 .. m
      <4>1. /\ j - m \in 1 .. i - 1 /\ (j - m) + m = j
            /\ j - m \in 1 .. Len(q.ups)
        <5>1. j \in Nat /\ m < j /\ j <= (i + m) - 1
          BY <2>1, <3>2
        <5>2. j - m \in Nat /\ 1 <= j - m /\ j - m <= i - 1 /\ (j - m) + m = j
          BY <2>1, <5>1
        <5>3. i <= Len(q.ups) /\ Len(q.ups) \in Nat
          BY <1>1
        <5> QED
          BY <2>1, <5>2, <5>3
      <4>2. q.ups[j - m] = p.ups[j]
        BY <1>1, <4>1
      <4> QED
        BY <2>5, <4>1, <4>2
    <3> QED
      BY <3>1, <3>2
  <2> QED
    BY <2>2, <2>4, <2>5 DEF Ready
<1>16. Ordered(Got(s), proc[s].ups)'
  <2>0. \A k \in Keys : To(k)' = To(k) /\ Relations(k)' = Relations(k)
    BY <1>3 DEF To, Relations, Related
  <2> SUFFICES ASSUME NEW i \in 1 .. Len(q.ups)
               PROVE  (Ready(Got(s), proc[s].ups[i][1]) \/ Follower(proc[s].ups, i))'
    BY DEF Ordered
  <2>1. q.ups[i] \in Items
    BY <1>1
  <2>2. PICK k \in Keys : k = q.ups[i][1]
    BY <2>1 DEF Items
  <2>3. Ready(Got(s)', k) \/ \E y \in To(k) : \E j \in 1 .. i - 1 : q.ups[j][1] = y
    BY <1>15, <2>2
  <2>4. CASE Ready(Got(s)', k)
    <3>1. Relations(k)' = {} \/ \E y \in To(k)' : Got(s)'[y] # 0
      BY <2>0, <2>4 DEF Ready
    <3>2. Ready(Got(s), k)'
      BY <3>1 DEF Ready
    <3> QED
      BY <2>2, <3>2 DEF Ready, Relations, To, Related
  <2>5. CASE \E y \in To(k) : \E j \in 1 .. i - 1 : q.ups[j][1] = y
    <3>1. \E y \in To(k)' : \E j \in 1 .. i - 1 : q.ups[j][1] = y
      BY <2>0, <2>5
    <3> QED
      BY <2>2, <3>1 DEF Follower, To, Relations, Related
  <2> QED
    BY <2>3, <2>4, <2>5
<1> QED
  BY <1>5, <1>6, <1>7, <1>14, <1>16 DEF Fed, PendingSound

\* RelationsFirst, of the step that sends.
LEMMA SendFirst ==
  ASSUME CITypeOK, NEW s \in Streams, Fed(s), Send(s), s \notin done,
         NEW k \in Keys, cloud'[k] # 0, cloud'[k] # cloud[k]
  PROVE  Relations(k) = {} \/ Found(cloud', k) # {}
<1> DEFINE p == proc[s]
           U == UpsertKeys(Message(s))
           m == Taking(s)
<1>1. /\ U \subseteq Keys
      /\ \A r \in U : \E i \in 1 .. m : p.ups[i][1] = r
      /\ \A r \in U : cloud'[r] = cache[r] /\ cache[r] # 0 /\ Got(s)'[r] = cache[r]
      /\ \A r \in Keys \ U : Got(s)'[r] = Got(s)[r]
      /\ \A r \in Keys : Got(s)'[r] # 0 => cloud'[r] = Got(s)'[r]
      /\ \A r \in Keys : cloud'[r] # 0 /\ cloud'[r] # cloud[r] => r \in U
      /\ \A i \in 1 .. m : p.ups[i][1] \in U
  BY SendGot
<1>2. m \in 0 .. Len(p.ups) /\ Len(p.ups) \in Nat
  BY MessageIs, ProcessorIs DEF CITypeOK, ProcessorTypes
<1> HIDE DEF U, m
<1>3. PICK i \in 1 .. m : p.ups[i][1] = k
  BY <1>1
<1>4. Ready(Got(s), k) \/ \E y \in To(k) : \E j \in 1 .. i - 1 : p.ups[j][1] = y
  <2>1. i \in 1 .. Len(p.ups)
    BY <1>2
  <2> QED
    BY <1>3, <2>1 DEF Fed, PendingSound, Ordered, Follower
<1> SUFFICES ASSUME Relations(k) # {} PROVE \E y \in To(k) : cloud'[y] # 0
  BY FoundIs
<1>5. \A y \in To(k) : y \in Keys
  BY RelationsIn, HeldIs
<1>6. ASSUME NEW y \in To(k), Got(s)[y] # 0 PROVE cloud'[y] # 0
  BY <1>1, <1>5, <1>6
<1>7. ASSUME NEW y \in To(k), NEW j \in 1 .. i - 1, p.ups[j][1] = y PROVE cloud'[y] # 0
  <2>1. j \in 1 .. m
    BY <1>2
  <2> QED
    BY <1>1, <1>7, <2>1
<1> QED
  BY <1>4, <1>6, <1>7 DEF Ready

\* A report has the objects of one type of the inventory of its own stream.
LEMMA ReportKeys ==
  ASSUME CITypeOK, Made, NEW s \in Streams, col[s] = "types", gen[s] = s, NEW t \in Types
  PROVE  /\ \A x \in ToSet(Report(s, t)) : x \in Items /\ x[1] \in KeysOfStream(s) /\ x[1][2] = t
         /\ \A k \in KeysOfStream(s) : k[2] = t => \E x \in ToSet(Report(s, t)) : x[1] = k
         /\ Agree(ToSet(Report(s, t)))
<1> DEFINE q == Report(s, t)
           X(i) == <<<<s, t, i>>, inventory[s][<<t, i>>]>>
<1>1. q \in Seq(Items) /\ Len(q) = PerType /\ PerType \in Nat
  BY ReportIs, CommonInventoryAssumption
<1>2. \A i \in 1 .. PerType : q[i] = X(i)
  BY DEF Report
<1>3. \A x \in ToSet(q) : \E i \in 1 .. PerType : x = X(i) /\ x \in Items
  <2> HIDE DEF q, X
  <2> QED
    BY <1>1, <1>2 DEF ToSet
<1>4. \A i \in 1 .. PerType : X(i) \in ToSet(q)
  <2> HIDE DEF q, X
  <2> QED
    BY <1>1, <1>2 DEF ToSet
<1> HIDE DEF q
<1>5. ASSUME NEW x \in ToSet(q)
      PROVE  x \in Items /\ x[1] \in KeysOfStream(s) /\ x[1][2] = t
  <2>1. PICK i \in 1 .. PerType : x = X(i) /\ x \in Items
    BY <1>3
  <2>2. x[1] = <<s, t, i>>
    BY <2>1
  <2> QED
    BY <2>1, <2>2 DEF KeysOfStream, Keys
<1>6. ASSUME NEW k \in KeysOfStream(s), k[2] = t PROVE \E x \in ToSet(q) : x[1] = k
  <2>1. k[3] \in 1 .. PerType /\ k = <<s, t, k[3]>>
    BY <1>6 DEF KeysOfStream, Keys
  <2>2. X(k[3])[1] = k /\ X(k[3]) \in ToSet(q)
    BY <1>4, <2>1
  <2> QED
    BY <2>2
<1>7. ASSUME NEW x \in ToSet(q), NEW y \in ToSet(q), x[1] = y[1] PROVE x[2] = y[2]
  <2>1. PICK i \in 1 .. PerType : x = X(i)
    BY <1>3
  <2>2. PICK j \in 1 .. PerType : y = X(j)
    BY <1>3
  <2>3. x[1] = <<s, t, i>> /\ y[1] = <<s, t, j>>
    BY <2>1, <2>2
  <2>4. i = j
    <3>1. <<s, t, i>> = <<s, t, j>>
      BY <1>7, <2>3
    <3> QED
      BY <3>1
  <2> QED
    BY <2>1, <2>2, <2>4
<1> QED
  BY <1>5, <1>6, <1>7 DEF q, Agree

\* The accumulator of a report, the cache then, and what is deleted.
LEMMA CollectSound ==
  ASSUME CITypeOK, Made, NEW s \in Streams, Fed(s),
         NEW type, NEW items, ReportTaken(s, type, items), NEW b, Received(s, type, items, b)
  PROVE  LET V == ToSet(proc[s].missing) \cup ToSet(items)
         IN /\ V \in SUBSET Items /\ Agree(V)
            /\ \A x \in V : x[1] \in KeysOfStream(s)
            /\ \A x \in V : x[1] \in AllKeys(s, items)
            /\ Held(s) \in Accs /\ Sound(V, cache, Held(s)) /\ Of(items, V)
            /\ b \in Accs /\ Sound(V, cache, b)
            /\ Upserts(proc[s], items) \in Fresh /\ ~Upserts(proc[s], items).panic
            /\ Upserts(proc[s], items) \in Accs /\ Sound(V, cache, Upserts(proc[s], items))
<1> DEFINE p == proc[s]
           M == ToSet(p.missing)
           I == ToSet(items)
           V == M \cup I
<1>1. p.missing \in Seq(Items) /\ items \in Seq(Items) /\ p.keys \in SUBSET Keys
  BY ProcessorIs DEF CITypeOK, ProcessorTypes, ReportTaken
<1>2. /\ \A x \in M : x \in Items /\ x[1] \in p.keys
      /\ Agree(M)
  <2>1. \A i \in 1 .. Len(p.missing) : p.missing[i] \in p.keys \X (1 .. MaxVersion)
    BY DEF Fed, HeldBack, Of
  <2>2. \A x \in M : x \in p.keys \X (1 .. MaxVersion)
    BY <1>1, <2>1 DEF ToSet
  <2> QED
    BY <1>1, <2>2 DEF Items, Fed, HeldBack
<1>3. \A x \in I : x \in Items
  BY <1>1 DEF ToSet
<1>4. /\ Agree(V) /\ \A x \in V : x[1] \in KeysOfStream(s)
  <2>1. CASE col[s] = "start" /\ items = <<>>
    <3>1. p.keys = {}
      BY <2>1 DEF Fed, Phase
    <3>2. M = {} /\ I = {}
      <4>1. ToSet(<<>>) = {}
        BY DEF ToSet
      <4>2. M = {}
        <5> HIDE DEF M
        <5> QED
          BY <1>2, <3>1
      <4> QED
        BY <2>1, <4>1, <4>2
    <3> QED
      BY <3>2 DEF Agree
  <2>2. ASSUME NEW t \in todo[s], col[s] = "types", items = Report(s, t)
        PROVE  Agree(V) /\ \A x \in V : x[1] \in KeysOfStream(s)
    <3>1. t \in Types
      BY DEF CITypeOK, CollectorTypes
    <3>2. gen[s] = s /\ p.keys = Reported(s)
      BY <2>2 DEF Fed, Phase
    <3>3. \A x \in M : x[1] \in KeysOfStream(s) /\ x[1][2] \notin todo[s]
      BY <1>2, <3>2 DEF Reported
    <3>4. /\ \A x \in I : x[1] \in KeysOfStream(s) /\ x[1][2] = t
          /\ Agree(I)
      BY <2>2, <3>1, <3>2, ReportKeys
    <3>5. Agree(V)
      <4> SUFFICES ASSUME NEW x \in V, NEW y \in V, x[1] = y[1] PROVE x[2] = y[2]
        BY DEF Agree
      <4>1. CASE x \in M /\ y \in M
        BY <1>2, <4>1 DEF Agree
      <4>2. CASE x \in I /\ y \in I
        BY <3>4, <4>2 DEF Agree
      <4>3. ~(x \in M /\ y \in I) /\ ~(x \in I /\ y \in M)
        BY <3>3, <3>4
      <4> QED
        BY <4>1, <4>2, <4>3
    <3> QED
      BY <3>3, <3>4, <3>5
  <2> QED
    BY <2>1, <2>2 DEF ReportTaken
<1>5. V \in SUBSET Items
  BY <1>2, <1>3
<1>6. \A x \in V : x[1] \in AllKeys(s, items)
  BY <1>2 DEF AllKeys
<1>7. /\ Held(s) \in Accs /\ b \in Accs
      /\ Upserts(p, items) \in Accs /\ Upserts(p, items) \in Fresh /\ ~Upserts(p, items).panic
      /\ Upserts(p, items) = FoldLeft(Upsert, Held(s), items)
  BY <1>1, HeldIs, TakenIs, ReceivedIs DEF Fresh, ReportTaken
<1>8. Of(items, V) /\ Of(p.missing, V)
  BY <1>1 DEF Of, ToSet
<1>9. cache \in [Keys -> 0 .. MaxVersion]
  BY DEF CITypeOK, CloudTypes
<1>10. Sound(V, cache, Held(s))
  <2>1. /\ Held(s).cache = cache /\ Held(s).missing = p.missing /\ Held(s).ups = <<>>
        /\ Len(<<>>) = 0
    BY DEF Held
  <2> HIDE DEF V
  <2> QED
    BY <1>8, <2>1 DEF Sound, Of, Written, Ordered
<1> HIDE DEF V
<1>11. Peers
  BY HeldIs
<1>12. Sound(V, cache, Upserts(p, items))
  BY <1>1, <1>4, <1>5, <1>7, <1>8, <1>9, <1>10, <1>11, SoundUpserts
<1>13. Sound(V, cache, b)
  <2> DEFINE u == Upserts(p, items)
  <2>1. b = u \/ b \in ReProcess(u)
    BY DEF Received, Taken
  <2>2. u \in Fresh /\ Sound(V, cache, u)
    BY <1>7, <1>12
  <2> HIDE DEF u
  <2>3. ASSUME b \in ReProcess(u) PROVE Sound(V, cache, b)
    BY <1>4, <1>5, <1>9, <1>11, <2>2, <2>3, SoundReProcess
  <2> QED
    BY <2>1, <2>2, <2>3
<1> QED
  BY <1>4, <1>5, <1>6, <1>7, <1>8, <1>10, <1>12, <1>13 DEF V

\* Items of stream s only are put into its cache.
LEMMA SoundOwn ==
  ASSUME NEW s \in Streams, Own(s), NEW V \in SUBSET Items, NEW a \in Accs, Sound(V, cache, a),
         \A x \in V : x[1] \in KeysOfStream(s), NEW k \in Keys, a.cache[k] # 0
  PROVE  k \in KeysOfStream(s)
<1>1. CASE a.cache[k] = cache[k]
  BY <1>1 DEF Own, KeysOfStream
<1>2. CASE a.cache[k] # cache[k]
  <2>1. PICK i \in 1 .. Len(a.ups) : a.ups[i][1] = k
    BY <1>2 DEF Sound, Written
  <2> QED
    BY <2>1 DEF Sound, Of
<1> QED
  BY <1>1, <1>2

\* The keys reported so far.
LEMMA CollectKeys ==
  ASSUME CITypeOK, Made, NEW s \in Streams, Fed(s),
         NEW type, NEW items, ReportTaken(s, type, items)
  PROVE  /\ type = "fullEnd" => AllKeys(s, items) = KeysOfStream(s)
         /\ type # "fullEnd" => AllKeys(s, items) = Reported(s)'
<1>1. CASE /\ col[s] = "start" /\ type = "fullStart" /\ items = <<>>
           /\ todo' = [todo EXCEPT ![s] = Types]
  <2>1. proc[s].keys = {} /\ ToSet(<<>>) = {}
    BY <1>1 DEF Fed, Phase, ToSet
  <2>2. AllKeys(s, items) = {}
    BY <1>1, <2>1 DEF AllKeys
  <2>3. Reported(s)' = {}
    <3>1. todo'[s] = Types
      BY <1>1 DEF CITypeOK, CollectorTypes
    <3> QED
      BY <3>1 DEF Reported, KeysOfStream, Keys
  <2> QED
    BY <1>1, <2>2, <2>3
<1>2. ASSUME NEW t \in todo[s], col[s] = "types", items = Report(s, t),
             todo' = [todo EXCEPT ![s] = todo[s] \ {t}]
      PROVE  AllKeys(s, items) = {k \in KeysOfStream(s) : k[2] \notin todo[s] \ {t}}
  <2>1. gen[s] = s /\ proc[s].keys = Reported(s) /\ t \in Types
    BY <1>2 DEF Fed, Phase, CITypeOK, CollectorTypes
  <2>2. /\ \A x \in ToSet(items) : x[1] \in KeysOfStream(s) /\ x[1][2] = t
        /\ \A k \in KeysOfStream(s) : k[2] = t => \E x \in ToSet(items) : x[1] = k
    BY <1>2, <2>1, ReportKeys
  <2> QED
    BY <2>1, <2>2 DEF AllKeys, Reported
<1>3. ASSUME NEW t \in todo[s], col[s] = "types", items = Report(s, t),
             todo' = [todo EXCEPT ![s] = todo[s] \ {t}],
             \/ todo[s] # {t} /\ type = "fullSegment"
             \/ todo[s] = {t} /\ type = "fullEnd"
      PROVE  /\ type = "fullEnd" => AllKeys(s, items) = KeysOfStream(s)
             /\ type # "fullEnd" => AllKeys(s, items) = Reported(s)'
  <2>1. AllKeys(s, items) = {k \in KeysOfStream(s) : k[2] \notin todo[s] \ {t}}
    BY <1>2, <1>3
  <2>2. todo'[s] = todo[s] \ {t}
    BY <1>3 DEF CITypeOK, CollectorTypes
  <2>3. Reported(s)' = AllKeys(s, items)
    BY <2>1, <2>2 DEF Reported
  <2>4. type = "fullEnd" => todo[s] \ {t} = {}
    BY <1>3
  <2> QED
    BY <2>1, <2>3, <2>4
<1> QED
  BY <1>1, <1>3 DEF ReportTaken

\* A report in the state that a live stream has, field by field.
Took(s, type, items, b) ==
  LET p == proc[s]
      q == proc'[s]
      send == b.ups # <<>> \/ (p.full /\ type # "fullSegment")
  IN /\ cache' = b.cache
     /\ q.at = IF send THEN "send" ELSE "select"
     /\ q.missing = IF type = "fullEnd" THEN <<>> ELSE b.missing
     /\ q.keys = IF type = "fullEnd" THEN {} ELSE AllKeys(s, items)
     /\ q.full = p.full
     /\ q.type = IF send THEN type ELSE "none"
     /\ q.ups = b.ups /\ q.dels = {}

LEMMA CollectTook ==
  ASSUME CITypeOK, Made, NEW s \in Streams, Fed(s),
         NEW type, NEW items, ReportTaken(s, type, items), NEW b, Received(s, type, items, b)
  PROVE  /\ Took(s, type, items, b)
         /\ proc[s].at = "select"
         /\ UNCHANGED <<inventoryVars, del, lockVars, done, sink, cloudVars>>
<1> DEFINE p == proc[s]
           V == ToSet(proc[s].missing) \cup ToSet(items)
           K == AllKeys(s, items)
           dels == Deleted(b, K, type)
           q == Processed(p, b, K, dels, type)
<1>1. /\ p.at = "select" /\ cache' = [k \in Keys |-> IF k \in dels THEN 0 ELSE b.cache[k]]
      /\ proc' = [proc EXCEPT ![s] = q]
      /\ UNCHANGED <<inventoryVars, del, lockVars, done, sink, cloudVars>>
  BY ReceiveIs DEF ReportTaken, Received
<1>2. /\ b \in Accs /\ V \in SUBSET Items /\ Sound(V, cache, b)
      /\ \A x \in V : x[1] \in KeysOfStream(s)
  BY CollectSound
<1>3. type = "fullEnd" => K = KeysOfStream(s)
  BY CollectKeys
<1> HIDE DEF V, K
<1>4. dels = {}
  <2>1. CASE type # "fullEnd"
    BY <2>1 DEF Deleted
  <2>2. CASE type = "fullEnd"
    <3>1. \A k \in Keys : b.cache[k] # 0 => k \in K
      BY <1>2, <1>3, <2>2, SoundOwn DEF Fed
    <3> QED
      BY <2>2, <3>1 DEF Deleted
  <2> QED
    BY <2>1, <2>2
<1> HIDE DEF dels
<1>5. cache' = b.cache
  <2>1. b.cache \in [Keys -> 0 .. MaxVersion]
    BY <1>2 DEF Accs
  <2> QED
    BY <1>1, <1>4, <2>1
<1>6. proc'[s] = q
  BY <1>1 DEF CITypeOK
<1>7. Took(s, type, items, b)
  BY <1>4, <1>5, <1>6 DEF Took, Processed, K
<1> QED
  BY <1>1, <1>7

\* A report of the inventory of the stream.
LEMMA CollectFed ==
  ASSUME CITypeOK, Made, NEW s \in Streams, Fed(s), current = s, Collect(s), crash' # TRUE
  PROVE  Fed(s)'
<1>1. PICK type, items : ReportTaken(s, type, items)
  BY CollectIs
<1>15. PICK b : Received(s, type, items, b)
  BY <1>1, ReceiveIs DEF ReportTaken, Panicked
<1> DEFINE p == proc[s]
           q == proc'[s]
           V == ToSet(p.missing) \cup ToSet(items)
           K == AllKeys(s, items)
<1>2. /\ Took(s, type, items, b) /\ p.at = "select"
      /\ UNCHANGED <<inventoryVars, del, lockVars, done, sink, cloudVars>>
  BY <1>1, <1>15, CollectTook
<1>3. /\ b \in Accs /\ V \in SUBSET Items /\ Agree(V) /\ Sound(V, cache, b)
      /\ \A x \in V : x[1] \in KeysOfStream(s)
      /\ \A x \in V : x[1] \in K
  BY <1>1, <1>15, CollectSound
<1>4. /\ type = "fullEnd" => K = KeysOfStream(s)
      /\ type # "fullEnd" => K = Reported(s)'
  BY <1>1, CollectKeys
<1> HIDE DEF V, K
<1>5. /\ p.ups = <<>> /\ p.type = "none" /\ p.full \in BOOLEAN
      /\ p.full => col[s] # "sleep"
  BY <1>2, ProcessorIs DEF Fed, Phase, CITypeOK, ProcessorTypes
<1>6. \/ type = "fullStart" /\ col[s] = "start" /\ col'[s] = "types" /\ gen'[s] = s
         /\ items = <<>>
      \/ type = "fullSegment" /\ col[s] = "types" /\ col'[s] = "types" /\ gen'[s] = gen[s]
      \/ type = "fullEnd" /\ col[s] = "types" /\ col'[s] = "sleep"
  BY <1>1 DEF ReportTaken, CITypeOK, CollectorTypes
<1>7. Own(s)'
  BY <1>2, <1>3, SoundOwn DEF Took, Own, Fed, KeysOfStream
<1>8. HeldBack(s)'
  <2>1. CASE type = "fullEnd"
    <3>1. ToSet(<<>>) = {} /\ Len(<<>>) = 0 /\ q.missing = <<>>
      BY <1>2, <2>1 DEF ToSet, Took
    <3> QED
      BY <3>1 DEF HeldBack, Of, Agree
  <2>2. CASE type # "fullEnd"
    <3>1. q.missing = b.missing /\ q.keys = K
      BY <1>2, <2>2 DEF Took, K
    <3>2. b.missing \in Seq(Items) /\ Of(b.missing, V)
      BY <1>3 DEF Accs, Sound
    <3>3. ToSet(b.missing) \subseteq V
      BY <3>2 DEF ToSet, Of
    <3>4. Of(b.missing, K \X (1 .. MaxVersion))
      <4>1. \A x \in V : x \in K \X (1 .. MaxVersion)
        BY <1>3 DEF Items
      <4> QED
        BY <3>2, <4>1 DEF Of
    <3>5. Agree(ToSet(b.missing))
      BY <1>3, <3>3 DEF Agree
    <3> QED
      BY <3>1, <3>4, <3>5 DEF HeldBack
  <2> QED
    BY <2>1, <2>2
<1>9. /\ q.at = (IF b.ups # <<>> \/ (p.full /\ type # "fullSegment") THEN "send" ELSE "select")
      /\ q.type = (IF b.ups # <<>> \/ (p.full /\ type # "fullSegment") THEN type ELSE "none")
      /\ q.keys = (IF type = "fullEnd" THEN {} ELSE K)
      /\ q.full = p.full /\ q.ups = b.ups /\ q.dels = {} /\ cache' = b.cache
  BY <1>2 DEF Took, K
<1>10. type = "fullStart" => b.ups = <<>>
  <2> SUFFICES ASSUME type = "fullStart" PROVE b.ups = <<>>
    OBVIOUS
  <2>1. items = <<>> /\ col[s] = "start"
    BY <1>6
  <2>2. p.keys = {} /\ p.missing \in Seq(Items)
    BY <2>1, ProcessorIs DEF Fed, Phase, CITypeOK, ProcessorTypes
  <2>3. V = {}
    <3>1. ToSet(<<>>) = {}
      BY DEF ToSet
    <3>2. \A i \in 1 .. Len(p.missing) : p.missing[i] \in p.keys \X (1 .. MaxVersion)
      BY DEF Fed, HeldBack, Of
    <3>3. \A i \in 1 .. Len(p.missing) : FALSE
      BY <2>2, <3>2
    <3>4. ToSet(p.missing) = {}
      <4> DEFINE r == p.missing
      <4>1. r \in Seq(Items) /\ \A i \in 1 .. Len(r) : FALSE
        BY <2>2, <3>3
      <4> HIDE DEF r
      <4>2. \A x \in ToSet(r) : FALSE
        BY <4>1 DEF ToSet
      <4>3. ToSet(r) = {}
        BY <4>2
      <4> QED
        BY <4>3 DEF r
    <3> QED
      BY <2>1, <3>1, <3>4 DEF V
  <2>4. b.ups \in Seq(Items) /\ \A i \in 1 .. Len(b.ups) : FALSE
    BY <1>3, <2>3 DEF Accs, Sound, Of
  <2>5. Len(b.ups) = 0
    BY <2>4
  <2> QED
    BY <2>4, <2>5
<1>11. Phase(s)'
  <2>1. col'[s] \in {"start", "types", "sleep"} /\ (col'[s] = "types" => gen'[s] = s)
    BY <1>6 DEF Fed, Phase
  <2>2. q.keys = IF col'[s] = "types" THEN Reported(s)' ELSE {}
    BY <1>4, <1>6, <1>9
  <2>3. /\ q.at = "select" => q.ups = <<>> /\ q.type = "none"
        /\ q.at = "send" => q.type # "none"
    BY <1>6, <1>9
  <2>4. q.type = "fullStart" => q.ups = <<>> /\ col'[s] = "types"
    BY <1>6, <1>9, <1>10
  <2>5. q.full /\ col'[s] = "sleep" => q.at = "send"
    BY <1>6, <1>9
  <2>6. q.full /\ q.at = "send" /\ col'[s] # "types" => q.type = "fullEnd"
    BY <1>6, <1>9
  <2> QED
    BY <1>9, <2>1, <2>2, <2>3, <2>4, <2>5, <2>6 DEF Phase
<1>12. Got(s)' = Got(s)
  <2>1. Before(s)' <=> Before(s)
    BY <1>2, <1>5, <1>6, <1>9 DEF Before
  <2>2. seen' = seen /\ cloud' = cloud
    BY <1>2 DEF cloudVars
  <2> QED
    BY <1>9, <2>1, <2>2 DEF Got
<1>13. Got(s) = cache
  <2>1. \A k \in Keys : cache[k] = Got(s)[k]
    <3>1. Acc(s).ups = <<>> /\ Acc(s).cache = cache /\ Len(<<>>) = 0
      BY <1>5 DEF Acc
    <3> QED
      BY <3>1 DEF Fed, PendingSound, Written
  <2>2. cache = [k \in Keys |-> cache[k]]
    BY DEF CITypeOK, CloudTypes
  <2>3. Got(s) = [k \in Keys |-> Got(s)[k]]
    BY DEF Got
  <2> QED
    BY <2>1, <2>2, <2>3
<1>14. PendingSound(s)'
  <2>1. Acc(s)'.cache = b.cache /\ Acc(s)'.ups = b.ups
    BY <1>9 DEF Acc
  <2>2. Written(cache, b) /\ Ordered(cache, b.ups)
    BY <1>3 DEF Sound
  <2>3. Written(Got(s), Acc(s))'
    BY <1>12, <1>13, <2>1, <2>2 DEF Written
  <2>4. peer' = peer /\ msg' = msg /\ q.ups = b.ups
    BY <1>2, <1>9 DEF inventoryVars
  <2>5. Got(s)' = cache
    BY <1>12, <1>13
  <2>6. Ordered(Got(s), proc[s].ups)'
    <3>1. PICK c : c = cache
      OBVIOUS
    <3>2. Ordered(c, b.ups) /\ c = Got(s)' /\ b.ups = proc'[s].ups
      BY <2>2, <2>4, <2>5, <3>1
    <3> QED
      BY <2>4, <3>2, OrderedStays
  <2> QED
    BY <2>3, <2>6 DEF PendingSound
<1> QED
  BY <1>7, <1>8, <1>11, <1>14 DEF Fed

\* A report leaves the other processors as they are.
LEMMA ReportOthers ==
  ASSUME CITypeOK, NEW s \in Streams, NEW type, NEW items, ReportTaken(s, type, items)
  PROVE  /\ proc[s].at = "select" /\ \A q \in Streams : q # s => proc'[q] = proc[q]
         /\ UNCHANGED <<inventoryVars, del, lockVars, done, sink, cloudVars>>
<1>1. /\ proc[s].at = "select"
      /\ UNCHANGED <<inventoryVars, del, lockVars, done, sink, cloudVars>>
      /\ Panicked \/ \E b : Received(s, type, items, b)
  BY ReceiveIs DEF ReportTaken
<1>2. CASE Panicked
  BY <1>1, <1>2 DEF Panicked
<1>3. ASSUME NEW b, Received(s, type, items, b) PROVE \A q \in Streams : q # s => proc'[q] = proc[q]
  BY <1>3 DEF Received, CITypeOK
<1> QED
  BY <1>1, <1>2, <1>3

\* A step of stream r, as stream s sees it.
LEMMA FeedingOf ==
  ASSUME CISafe, CISafe', Feeding, ~crash, ~crash',
         NEW s \in Streams, Live(s)', Works(s)', NEW r \in Streams,
         \/ Create(r) \/ StreamDelegate(r) \/ Collect(r) \/ Modify(r) \/ CollectorEnds(r)
         \/ Send(r) \/ ProcessorEnds(r) \/ SinkEnds(r) \/ Cancel(r)
  PROVE  Fed(s)'
<1>0. /\ CITypeOK /\ Made /\ Locked /\ OneProcessor /\ Opened /\ Locked' /\ OneProcessor' /\ Opened'
      /\ del'[s] = "started" /\ s \notin done' /\ current' = s
  BY DEF CISafe, Live, Opened
<1>1. CASE Create(r)
  <2>1. del'[r] = "lock" /\ current' = r
    BY <1>0, <1>1 DEF Create, CITypeOK, LockTypes
  <2> QED
    BY <1>0, <2>1
<1>2. CASE First(r)
  <2>1. cancel = 0 /\ Start(r) /\ cache' = cache
    BY <1>2 DEF First
  <2>2. /\ \A k \in Keys : cache'[k] = 0
        /\ \A q \in Streams : proc[q].at = "none"
    BY <1>0, <2>1 DEF Locked
  <2>3. s = r
    <3>1. s # r => proc'[s] = proc[s]
      BY <1>0, <2>1, StartIs
    <3> QED
      BY <2>2, <3>1 DEF Works
  <2> QED
    BY <1>0, <2>1, <2>2, <2>3, StartFed
<1>3. CASE Replace(r)
  <2>1. ~Working /\ Start(r) /\ cache' = [k \in Keys |-> 0]
    BY <1>3 DEF Replace
  <2>2. \A k \in Keys : cache'[k] = 0
    BY <2>1
  <2>3. s = r
    <3>1. s # r => proc'[s] = proc[s]
      BY <1>0, <2>1, StartIs
    <3> QED
      BY <2>1, <3>1 DEF Works, Working
  <2> QED
    BY <1>0, <2>1, <2>2, <2>3, StartFed
<1>4. CASE Lock(r)
  <2>1. /\ r # s /\ Live(s) /\ Works(s) /\ proc' = proc /\ col' = col /\ todo' = todo /\ gen' = gen
        /\ cache' = cache /\ cloud' = cloud /\ seen' = seen /\ peer' = peer /\ msg' = msg
    BY <1>0, <1>4 DEF Lock, CITypeOK, LockTypes, Live, Works, inventoryVars, colVars, cloudVars
  <2> QED
    BY <2>1, FedKept DEF Feeding
<1>5. CASE Collect(r)
  <2>1. PICK type, items : ReportTaken(r, type, items)
    BY <1>0, <1>5, CollectIs
  <2>2. /\ proc[r].at = "select" /\ \A q \in Streams : q # r => proc'[q] = proc[q]
        /\ del' = del /\ done' = done /\ current' = current
    BY <1>0, <2>1, ReportOthers DEF inventoryVars
  <2>3. s = r
    <3>1. s # r => Works(s) /\ Works(r)
      BY <2>2 DEF Works
    <3> QED
      BY <1>0, <3>1 DEF OneProcessor, Works
  <2>4. Live(s) /\ Works(s) /\ current = s
    BY <1>0, <2>2, <2>3 DEF Live, Works
  <2> QED
    BY <1>0, <1>5, <2>3, <2>4, CollectFed DEF Feeding
<1>6. CASE Modify(r)
  <2>1. /\ Live(s) /\ Works(s) /\ proc' = proc /\ todo' = todo /\ gen' = gen
        /\ cache' = cache /\ cloud' = cloud /\ seen' = seen /\ peer' = peer /\ msg' = msg
        /\ r # s => col'[s] = col[s]
    BY <1>0, <1>6 DEF Modify, CITypeOK, CollectorTypes, Live, Works, cloudVars
  <2> QED
    BY <1>0, <1>6, <2>1, FedKept, ModifyFed DEF Feeding
<1>7. CASE CollectorEnds(r)
  <2>1. /\ Live(s) /\ Works(s) /\ proc' = proc /\ todo' = todo /\ gen' = gen /\ r # s
        /\ cache' = cache /\ cloud' = cloud /\ seen' = seen /\ col'[s] = col[s]
        /\ peer' = peer /\ msg' = msg
    BY <1>0, <1>7 DEF CollectorEnds, CITypeOK, CollectorTypes, Live, Works, inventoryVars, cloudVars
  <2> QED
    BY <2>1, FedKept DEF Feeding
<1>8. CASE Send(r)
  <2>1. /\ proc[r].at = "send" /\ \A q \in Streams : q # r => proc'[q] = proc[q]
        /\ del' = del /\ done' = done
    BY <1>0, <1>8, SendIs
  <2>2. s = r
    <3>1. s # r => Works(s) /\ Works(r)
      BY <2>1 DEF Works
    <3> QED
      BY <1>0, <3>1 DEF OneProcessor, Works
  <2>3. Live(s) /\ Works(s) /\ s \notin done
    BY <1>0, <2>1, <2>2 DEF Live, Works
  <2> QED
    BY <1>0, <1>8, <2>2, <2>3, SendFed DEF Feeding
<1>9. CASE ProcessorEnds(r)
  <2>1. /\ proc[r].at = "select" /\ proc'[r] = Processor("gone")
        /\ \A q \in Streams : q # r => proc'[q] = proc[q]
    BY <1>0, <1>9 DEF ProcessorEnds, CITypeOK
  <2>2. proc'[r].at = "gone"
    BY <2>1 DEF Processor
  <2>3. Works(r) /\ Works(s) /\ s # r
    BY <2>1, <2>2 DEF Works
  <2> QED
    BY <1>0, <2>3 DEF OneProcessor, Works
<1>10. CASE SinkEnds(r) \/ Cancel(r)
  <2>1. /\ Live(s) /\ Works(s) /\ proc' = proc /\ todo' = todo /\ gen' = gen /\ col' = col
        /\ cache' = cache /\ cloud' = cloud /\ seen' = seen /\ peer' = peer /\ msg' = msg
    BY <1>0, <1>10 DEF SinkEnds, Cancel, CITypeOK, LockTypes, Live, Works, inventoryVars,
       colVars, cloudVars
  <2> QED
    BY <2>1, FedKept DEF Feeding
<1> QED
  BY <1>1, <1>2, <1>3, <1>4, <1>5, <1>6, <1>7, <1>8, <1>9, <1>10 DEF StreamDelegate

LEMMA FeedingInit == CIInit => Feeding
BY DEF CIInit, Feeding, Live

\* The invariant of the streams that are up.
LEMMA FeedingStep == CISafe /\ CISafe' /\ Feeding /\ [CINext]_ciVars => Feeding'
<1> SUFFICES ASSUME CISafe, CISafe', Feeding, [CINext]_ciVars, NEW s \in Streams,
                    ~crash', Live(s)', Works(s)'
             PROVE  Fed(s)'
  BY DEF Feeding
<1>1. CASE UNCHANGED ciVars
  <2>1. /\ Live(s) /\ Works(s) /\ proc' = proc /\ todo' = todo /\ gen' = gen /\ col' = col
        /\ cache' = cache /\ cloud' = cloud /\ seen' = seen /\ peer' = peer /\ msg' = msg
        /\ ~crash
    BY <1>1 DEF ciVars, Live, Works, inventoryVars, colVars, cloudVars
  <2> QED
    BY <2>1, FedKept DEF Feeding
<1>2. CASE CINext
  BY <1>2, FeedingOf DEF CINext
<1> QED
  BY <1>1, <1>2

\* While a stream is up only Send touches a processor that sends.
LEMMA SenderSends ==
  ASSUME CISafe, NEW s \in Streams, Live(s), proc[s].at = "send", proc'[s] # proc[s],
         NEW r \in Streams,
         \/ Create(r) \/ StreamDelegate(r) \/ Collect(r) \/ Modify(r) \/ CollectorEnds(r)
         \/ Send(r) \/ ProcessorEnds(r) \/ SinkEnds(r) \/ Cancel(r)
  PROVE  Send(s)
<1>0. CITypeOK /\ Made /\ del[s] = "started"
  BY DEF CISafe, Live
<1>1. ~(Create(r) \/ Lock(r) \/ Modify(r) \/ CollectorEnds(r) \/ SinkEnds(r) \/ Cancel(r))
  BY DEF Create, Lock, Modify, CollectorEnds, SinkEnds, Cancel
<1>2. ~(First(r) \/ Replace(r))
  <2>1. ASSUME First(r) \/ Replace(r) PROVE FALSE
    <3>1. Start(r) /\ del[r] # "started"
      BY <2>1 DEF First, Replace
    <3> QED
      BY <1>0, <3>1, StartIs
  <2> QED
    BY <2>1
<1>3. ~Collect(r)
  <2>1. ASSUME Collect(r) PROVE FALSE
    <3>1. PICK type, items : ReportTaken(r, type, items)
      BY <1>0, <2>1, CollectIs
    <3>2. proc[r].at = "select" /\ \A q \in Streams : q # r => proc'[q] = proc[q]
      BY <1>0, <3>1, ReportOthers
    <3> QED
      BY <3>2
  <2> QED
    BY <2>1
<1>4. ~ProcessorEnds(r)
  BY <1>0 DEF ProcessorEnds, CITypeOK
<1>5. Send(r)
  BY <1>1, <1>2, <1>3, <1>4 DEF StreamDelegate
<1>6. r = s
  BY <1>0, <1>5, SendIs
<1> QED
  BY <1>5, <1>6

\* RelationsFirst: a stream that is up never gives the cloud an object before one that
\* it relates to.
THEOREM RelatedFirst == CISpec => RelationsFirst
<1>1. CISafe /\ Feeding /\ [CINext]_ciVars =>
        [\A s \in Streams : Live(s) /\ proc[s].at = "send" /\ proc'[s] # proc[s] =>
           \A k \in Keys : cloud'[k] # 0 /\ cloud'[k] # cloud[k] =>
             Relations(k) = {} \/ Found(cloud', k) # {}]_cloud
  <2> SUFFICES ASSUME CISafe, Feeding, [CINext]_ciVars, cloud' # cloud, NEW s \in Streams,
                      Live(s), proc[s].at = "send", proc'[s] # proc[s],
                      NEW k \in Keys, cloud'[k] # 0, cloud'[k] # cloud[k]
               PROVE  Relations(k) = {} \/ Found(cloud', k) # {}
    OBVIOUS
  <2>1. CINext
    BY DEF ciVars, cloudVars
  <2>2. Send(s)
    BY <2>1, SenderSends DEF CINext
  <2>3. CITypeOK /\ Fed(s) /\ s \notin done
    BY <2>1 DEF CISafe, Feeding, Live, Works, CINext
  <2> QED
    BY <2>2, <2>3, SendFirst
<1>2. CISpec => [](CISafe /\ Feeding)
  BY CIInitSafe, CINextSafe, FeedingInit, FeedingStep, PTL DEF CISpec
<1> QED
  BY <1>1, <1>2, PTL DEF CISpec, RelationsFirst

(***************************************************************************)
(* Completeness between two collections.                                   *)
(***************************************************************************)
\* The init message of a stream stays.
LEMMA PlainKept ==
  ASSUME NEW s \in Streams, msg' = msg
  PROVE  (Plain(s)' <=> Plain(s)) /\ Waiting(s)' = Waiting(s)
BY DEF Plain, Waiting, Relations

\* Nothing that is covered changes.
LEMMA CoveredKept ==
  ASSUME NEW s \in Streams, Covered(s), proc'[s].missing = proc[s].missing,
         col'[s] = col[s] \/ col'[s] = "start", todo'[s] = todo[s], cache' = cache,
         msg' = msg
  PROVE  Covered(s)'
<1>1. Waiting(s)' = Waiting(s)
  BY PlainKept
<1> QED
  BY <1>1 DEF Covered, Covers, Acc, Reported, Of

\* A report: what was reported before it and its items are covered, and what is
\* held back at the full end is processed, a type in each pass.
LEMMA CollectCovered ==
  ASSUME CITypeOK, Made, NEW s \in Streams, Plain(s), Fed(s), Covered(s), Collect(s), crash' # TRUE
  PROVE  Covered(s)'
<1>1. PICK type, items : ReportTaken(s, type, items)
  BY CollectIs
<1>2. PICK b : Received(s, type, items, b)
  BY <1>1, ReceiveIs DEF ReportTaken, Panicked
<1> DEFINE p == proc[s]
           u == Upserts(p, items)
           K == AllKeys(s, items)
           V == ToSet(p.missing) \cup ToSet(items)
           W == Waiting(s)
<1>3. /\ Took(s, type, items, b) /\ p.at = "select"
      /\ UNCHANGED <<inventoryVars, del, lockVars, done, sink, cloudVars>>
  BY <1>1, <1>2, CollectTook
<1>4. /\ u \in Accs /\ u \in Fresh /\ ~u.panic /\ Held(s) \in Accs /\ items \in Seq(Items)
      /\ u = FoldLeft(Upsert, Held(s), items) /\ Peers
      /\ b \in IF type = "fullEnd" THEN ReProcess(u) ELSE {u}
  BY <1>1, <1>2, HeldIs, TakenIs DEF Taken, ReportTaken, Received, Fresh
<1>5. Of(items, V) /\ \A x \in V : x[1] \in KeysOfStream(s)
  BY <1>1, <1>2, CollectSound
<1>6. /\ type = "fullEnd" => K = KeysOfStream(s)
      /\ type # "fullEnd" => K = Reported(s)'
  BY <1>1, CollectKeys
<1> HIDE DEF V
<1>7. \/ type = "fullStart" /\ col[s] = "start" /\ col'[s] = "types" /\ items = <<>>
      \/ type = "fullSegment" /\ col[s] = "types" /\ col'[s] = "types"
      \/ type = "fullEnd" /\ col[s] = "types" /\ col'[s] = "sleep"
  BY <1>1 DEF ReportTaken, CITypeOK, CollectorTypes
<1>8. Covers(K, u)
  <2>1. p.keys \in SUBSET Keys
    BY ProcessorIs DEF CITypeOK, ProcessorTypes
  <2>2. p.keys = IF col[s] = "types" THEN Reported(s) ELSE {}
    BY DEF Fed, Phase
  <2>3. Covers(p.keys, Acc(s))
    BY <2>2 DEF Covers, Covered
  <2>4. Covers(p.keys, Held(s))
    BY <2>3 DEF Covers, Acc, Held
  <2>5. Covers(p.keys \cup KeysOf(items), u)
    BY <1>4, <2>1, <2>4, UpsertsCover
  <2>6. K \subseteq p.keys \cup KeysOf(items)
    BY DEF AllKeys, KeysOf, ToSet
  <2> QED
    BY <2>5, <2>6 DEF Covers
<1> HIDE DEF u, K
<1>9. Of(u.missing, W)
  <2>1. Of(Held(s).missing, W)
    BY DEF Covered, Held
  <2>2. \A i \in 1 .. Len(items) : items[i] \in W \/ Relations(items[i][1]) = {}
    BY <1>4, <1>5 DEF Of, Waiting, KeysOfStream
  <2> HIDE DEF W
  <2> QED
    BY <1>4, <2>1, <2>2, UpsertsWait
<1>10. W' = W
  BY <1>3, PlainKept DEF inventoryVars
<1> HIDE DEF W
<1>11. CASE type # "fullEnd"
  <2>1. /\ Acc(s)'.cache = b.cache /\ Acc(s)'.missing = b.missing
        /\ proc'[s].missing = b.missing /\ b = u
    BY <1>3, <1>4, <1>11 DEF Acc, Took
  <2>2. Covers(Reported(s)', u)
    BY <1>6, <1>8, <1>11
  <2>3. Covers(Reported(s), Acc(s))'
    BY <2>1, <2>2 DEF Covers
  <2>4. Of(proc'[s].missing, W')
    BY <1>9, <1>10, <2>1 DEF Of
  <2> QED
    BY <1>7, <1>11, <2>3, <2>4 DEF Covered, W, Of
<1>12. CASE type = "fullEnd"
  <2>1. Covers(KeysOfStream(s), u)
    BY <1>6, <1>8, <1>12
  <2>2. \A k \in KeysOfStream(s) : b.cache[k] # 0
    BY <1>4, <1>9, <1>12, <2>1, ReProcessCompletes DEF W
  <2>3. cache' = b.cache /\ proc'[s].missing = <<>> /\ Len(<<>>) = 0
    BY <1>3, <1>12 DEF Took
  <2>4. \A k \in KeysOfStream(s) : cache'[k] # 0
    BY <2>2, <2>3
  <2>5. Of(proc'[s].missing, W')
    BY <2>3 DEF Of
  <2> QED
    BY <1>7, <1>12, <2>4, <2>5 DEF Covered, KeysOfStream, W, Of
<1> QED
  BY <1>11, <1>12

\* A step of stream r, as stream s sees it.
LEMMA CoveringOf ==
  ASSUME CISafe, CISafe', Feeding, Covering, ~crash, ~crash',
         NEW s \in Streams, Live(s)', Works(s)', Plain(s)', NEW r \in Streams,
         \/ Create(r) \/ StreamDelegate(r) \/ Collect(r) \/ Modify(r) \/ CollectorEnds(r)
         \/ Send(r) \/ ProcessorEnds(r) \/ SinkEnds(r) \/ Cancel(r)
  PROVE  Covered(s)'
<1>0. /\ CITypeOK /\ Made /\ Locked /\ OneProcessor /\ Opened /\ Locked' /\ OneProcessor' /\ Opened'
      /\ del'[s] = "started" /\ s \notin done' /\ current' = s
  BY DEF CISafe, Live, Opened
<1>1. CASE Create(r)
  <2>1. del'[r] = "lock" /\ current' = r
    BY <1>0, <1>1 DEF Create, CITypeOK, LockTypes
  <2> QED
    BY <1>0, <2>1
<1>2. CASE First(r) \/ Replace(r)
  <2>1. Start(r) /\ \A q \in Streams : ~Works(q)
    BY <1>0, <1>2 DEF First, Replace, Working, Works, Locked
  <2>2. s = r
    <3>1. s # r => proc'[s] = proc[s]
      BY <1>0, <2>1, StartIs
    <3> QED
      BY <2>1, <3>1 DEF Works
  <2>3. col'[s] = "start" /\ proc'[s].missing = <<>> /\ Len(<<>>) = 0
    BY <1>0, <2>1, <2>2, StartIs DEF Processor
  <2> QED
    BY <2>3 DEF Covered, Of
<1>3. CASE Collect(r)
  <2>1. PICK type, items : ReportTaken(r, type, items)
    BY <1>0, <1>3, CollectIs
  <2>2. /\ proc[r].at = "select" /\ \A q \in Streams : q # r => proc'[q] = proc[q]
        /\ del' = del /\ done' = done /\ msg' = msg
    BY <1>0, <2>1, ReportOthers DEF inventoryVars
  <2>3. s = r
    <3>1. s # r => Works(s) /\ Works(r)
      BY <2>2 DEF Works
    <3> QED
      BY <1>0, <3>1 DEF OneProcessor, Works
  <2>4. Live(s) /\ Works(s) /\ Plain(s)
    BY <1>0, <2>2, <2>3, PlainKept DEF Live, Works
  <2> QED
    BY <1>0, <1>3, <2>3, <2>4, CollectCovered DEF Feeding, Covering
<1>4. CASE Lock(r) \/ Modify(r) \/ CollectorEnds(r) \/ SinkEnds(r) \/ Cancel(r)
  <2>1. /\ Live(s) /\ Works(s) /\ proc' = proc /\ todo' = todo /\ cache' = cache /\ msg' = msg
    BY <1>0, <1>4 DEF Lock, Modify, CollectorEnds, SinkEnds, Cancel, CITypeOK, LockTypes,
       Live, Works, colVars, inventoryVars
  <2>2. col'[s] = col[s] \/ col'[s] = "start"
    <3>1. CASE r = s
      <4>1. ~CollectorEnds(s)
        BY <1>0, <2>1 DEF CollectorEnds, Live
      <4>2. proc[s].at # "gone"
        BY <2>1 DEF Works
      <4> QED
        BY <1>0, <1>4, <3>1, <4>1, <4>2
           DEF Lock, Modify, SinkEnds, Cancel, CITypeOK, CollectorTypes, colVars
    <3>2. CASE r # s
      BY <1>0, <1>4, <3>2 DEF Lock, Modify, CollectorEnds, SinkEnds, Cancel, CITypeOK,
         CollectorTypes, colVars
    <3> QED
      BY <3>1, <3>2
  <2>3. Plain(s)
    BY <2>1, PlainKept
  <2> QED
    BY <2>1, <2>2, <2>3, CoveredKept DEF Covering
<1>5. CASE Send(r)
  <2>1. /\ proc[r].at = "send" /\ \A q \in Streams : q # r => proc'[q] = proc[q]
        /\ del' = del /\ done' = done /\ cache' = cache /\ col' = col /\ todo' = todo
        /\ proc'[r].missing = proc[r].missing /\ msg' = msg
    BY <1>0, <1>5, SendIs DEF colVars, inventoryVars
  <2>2. s = r
    <3>1. s # r => Works(s) /\ Works(r)
      BY <2>1 DEF Works
    <3> QED
      BY <1>0, <3>1 DEF OneProcessor, Works
  <2>3. Live(s) /\ Works(s) /\ Plain(s)
    BY <1>0, <2>1, <2>2, PlainKept DEF Live, Works
  <2> QED
    BY <2>1, <2>2, <2>3, CoveredKept DEF Covering
<1>6. CASE ProcessorEnds(r)
  <2>1. /\ proc[r].at = "select" /\ proc'[r] = Processor("gone")
        /\ \A q \in Streams : q # r => proc'[q] = proc[q]
    BY <1>0, <1>6 DEF ProcessorEnds, CITypeOK
  <2>2. proc'[r].at = "gone"
    BY <2>1 DEF Processor
  <2>3. Works(r) /\ Works(s) /\ s # r
    BY <2>1, <2>2 DEF Works
  <2> QED
    BY <1>0, <2>3 DEF OneProcessor, Works
<1> QED
  BY <1>1, <1>2, <1>3, <1>4, <1>5, <1>6 DEF StreamDelegate

LEMMA CoveringStep ==
  CISafe /\ CISafe' /\ Feeding /\ Covering /\ [CINext]_ciVars => Covering'
<1> SUFFICES ASSUME CISafe, CISafe', Feeding, Covering, [CINext]_ciVars,
                    NEW s \in Streams, ~crash', Live(s)', Works(s)', Plain(s)'
             PROVE  Covered(s)'
  BY DEF Covering
<1>1. CASE UNCHANGED ciVars
  <2>1. /\ Live(s) /\ Works(s) /\ proc' = proc /\ todo' = todo /\ col' = col /\ cache' = cache
        /\ ~crash /\ msg' = msg
    BY <1>1 DEF ciVars, Live, Works, colVars, inventoryVars
  <2>2. Plain(s)
    BY <2>1, PlainKept
  <2> QED
    BY <2>1, <2>2, CoveredKept DEF Covering
<1>2. CASE CINext
  BY <1>2, CoveringOf DEF CINext
<1> QED
  BY <1>1, <1>2

\* Between two collections nothing is pending: the cache is what the cloud has.
LEMMA FedInSync ==
  ASSUME CISafe, Feeding, Covering PROVE InSync
<1> SUFFICES ASSUME NEW s \in Streams, ~crash, Live(s), proc[s].at = "select", col[s] = "sleep"
             PROVE  /\ cloud = cache
                    /\ \A k \in Keys : cloud[k] # 0 => k[1] = s
                    /\ Plain(s) => Complete(s)
  BY DEF InSync
<1>1. Fed(s) /\ (Plain(s) => Covered(s)) /\ CITypeOK
  BY DEF Feeding, Covering, Works, CISafe
<1>2. proc[s].full = FALSE /\ proc[s].ups = <<>>
  BY <1>1, ProcessorIs DEF Fed, Phase, CITypeOK, ProcessorTypes
<1>3. \A k \in Keys : Got(s)[k] = cloud[k]
  BY <1>2 DEF Got, Before
<1>4. \A k \in Keys : cache[k] = Got(s)[k]
  <2>1. Acc(s).ups = <<>> /\ Acc(s).cache = cache /\ Len(<<>>) = 0
    BY <1>2 DEF Acc
  <2> QED
    BY <1>1, <2>1 DEF Fed, PendingSound, Written
<1>5. cloud = cache
  BY <1>1, <1>3, <1>4 DEF CITypeOK, CloudTypes
<1>6. \A k \in Keys : cache[k] # 0 => k[1] = s
  BY <1>1 DEF Fed, Own
<1>7. Plain(s) => \A k \in Keys : cache[k] # 0 <=> k[1] = s
  BY <1>1, <1>6 DEF Covered, KeysOfStream
<1> QED
  BY <1>5, <1>6, <1>7 DEF Complete

\* InSync: whatever the init messages are, and for those whose relationships are plain
\* the cloud has every object.
THEOREM CloudInSync == CISpec => []InSync
<1>1. CIInit => Covering
  BY DEF CIInit, Covering, Live
<1>2. CISafe /\ Feeding /\ Covering => InSync
  BY FedInSync
<1>3. CISafe /\ CISafe' /\ Feeding /\ Covering /\ [CINext]_ciVars => Covering'
  BY CoveringStep
<1> QED
  BY <1>1, <1>2, <1>3, CIInitSafe, CINextSafe, FeedingInit, FeedingStep, PTL DEF CISpec
=============================================================================
