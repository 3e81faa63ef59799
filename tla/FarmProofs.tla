----------------------------- MODULE FarmProofs -----------------------------
(***************************************************************************)
(* Proofs about Farm for any names, any number of handlers, requests and   *)
(* failures.                                                               *)
(***************************************************************************)
EXTENDS Farm, TLAPS

\* Who deletes or updates has a name to look up, and who updates has found
\* the set of that name.
Targets == \A h \in Handlers :
  /\ at[h] \in {"set", "service", "update"} => target[h] \in Names
  /\ at[h] = "update" => version[h] # 0

\* Only a request to create has goroutines.
Creating == \A h \in Handlers : at[h] # "create" => called[h] = {} /\ made[h] = {}

\* Services and sets are in the namespace.
Inside == namespace = "none" => services = {} /\ \A n \in Names : sets[n] = 0

\* A request is on its way to create the set of n, whose service it has created ...
Holds(h, n) == <<n, FALSE>> \in called[h] \/ n \in made[h]
Twice(h, n) == <<n, FALSE>> \in called[h] /\ n \in made[h]

\* ... or to delete the service of n, whose set it has deleted.
Removes(h, n) == at[h] = "service" /\ target[h] = n

Busy(h, n) == Holds(h, n) \/ Removes(h, n)

\* One request at most is on its way: the service is there, still or already without
\* a set.
Guarded(n) == \A h \in Handlers : Busy(h, n) =>
  /\ n \in services /\ sets[n] = 0 /\ ~Twice(h, n)
  /\ \A k \in Handlers : Busy(k, n) => k = h

Served(n) == sets[n] # 0 => n \in services

Used(n) == failures = 0 /\ n \in services /\ n \notin cut
             => sets[n] # 0 \/ \E h \in Handlers : Busy(h, n)

Good(n) == n \notin raced => Guarded(n) /\ Served(n) /\ Used(n)

Settled == ~remade /\ namespace # "terminating"

Types == TypeOK /\ Targets /\ Creating

Services == Inside /\ (Settled => \A n \in Names : Good(n))

Inv == Types /\ Services

-----------------------------------------------------------------------------
LEMMA InitInv == Init => Inv
<1> SUFFICES ASSUME Init PROVE Inv
  OBVIOUS
<1>1. Types
  BY DEF Init, Types, TypeOK, Targets, Creating
<1>2. Services
  BY DEF Init, Services, Inside, Settled, Good, Guarded, Served, Used, Busy, Holds, Removes
<1> QED
  BY <1>1, <1>2 DEF Inv

LEMMA TypesStep == Types /\ [Next]_vars => Types'
<1> SUFFICES ASSUME Types, [Next]_vars PROVE Types'
  OBVIOUS
<1> USE DEF Types, TypeOK, Targets, Creating, creating, handlerVars, clusterVars, ghostVars
<1>1. CASE UNCHANGED vars
  BY <1>1 DEF vars
<1>2. ASSUME NEW h \in Handlers,
             \E S \in SUBSET Names, b \in BOOLEAN : Create(h, S, b)
      PROVE  Types'
  BY <1>2 DEF Create, Request, Goto
<1>3. ASSUME NEW h \in Handlers, GetNamespace(h) PROVE Types'
  BY <1>3 DEF GetNamespace, Goto, Fails
<1>4. ASSUME NEW h \in Handlers, MakeNamespace(h) PROVE Types'
  <2>1. /\ at' \in [Handlers -> {"idle", "namespace", "make", "create", "set", "service", "update"}]
        /\ \A k \in Handlers : k # h => at'[k] = at[k]
        /\ at[h] = "make" /\ at'[h] \in {"create", "idle"}
    BY <1>4 DEF MakeNamespace, Goto
  <2>2. namespace' \in {"none", "active", "terminating"}
    BY <1>4 DEF MakeNamespace
  <2>3. todo' \in [Handlers -> SUBSET Names] /\ failures' \in Nat
    BY <1>4 DEF MakeNamespace, Fails
  <2>4. UNCHANGED <<services, sets, versions, target, version, bad, called, err, made, requests,
                    ghostVars>>
    BY <1>4, Zenon DEF MakeNamespace
  <2> QED
    BY <2>1, <2>2, <2>3, <2>4
<1>5. ASSUME NEW h \in Handlers, NEW n \in Names, CreateService(h, n) PROVE Types'
  <2>1. PICK failed \in BOOLEAN :
          /\ called' = [called EXCEPT ![h] = @ \cup {<<n, failed>>}]
          /\ err' = [err EXCEPT ![h] = failed]
          /\ services' \subseteq services \cup {n}
          /\ failures' = failures \/ failures' = failures + 1
    BY <1>5 DEF CreateService, Fails
  <2>2. at[h] = "create" /\ todo' = [todo EXCEPT ![h] = @ \ {n}]
    BY <1>5 DEF CreateService
  <2>3. UNCHANGED <<namespace, sets, versions, at, target, version, bad, made, requests, ghostVars>>
    BY <1>5, Zenon DEF CreateService
  <2>4. called' \in [Handlers -> SUBSET (Names \X BOOLEAN)]
    <3>1. <<n, failed>> \in Names \X BOOLEAN
      OBVIOUS
    <3> QED
      BY <2>1, <3>1
  <2> QED
    BY <2>1, <2>2, <2>3, <2>4
<1>6. ASSUME NEW h \in Handlers, NEW c \in Names \X BOOLEAN, TestErr(h, c) PROVE Types'
  <2>1. c[1] \in Names /\ at[h] = "create"
    BY <1>6 DEF TestErr
  <2> QED
    BY <1>6, <2>1 DEF TestErr
<1>7. ASSUME NEW h \in Handlers, NEW n \in Names, CreateSet(h, n) PROVE Types'
  BY <1>7 DEF CreateSet, Fails
<1>8. ASSUME NEW h \in Handlers, MustParse(h) PROVE Types'
  BY <1>8 DEF MustParse
<1>9. ASSUME NEW h \in Handlers, Created(h) PROVE Types'
  BY <1>9 DEF Created, Goto
<1>10. ASSUME NEW h \in Handlers, NEW n \in Names, Delete(h, n) PROVE Types'
  <2>1. TrimRight(n) \in Names
    BY DEF TrimRight, Names
  <2> QED
    BY <1>10, <2>1 DEF Delete, Request, Goto
<1>11. ASSUME NEW h \in Handlers, NEW n \in Names, GetSet(h, n) PROVE Types'
  BY <1>11 DEF GetSet, Request, Goto
<1>12. ASSUME NEW h \in Handlers, DeleteSet(h) \/ DeleteService(h) PROVE Types'
  BY <1>12 DEF DeleteSet, DeleteService, Goto, Fails
<1>13. ASSUME NEW h \in Handlers, UpdateSet(h) PROVE Types'
  BY <1>13 DEF UpdateSet, Goto, Fails
<1>14. ASSUME NEW h \in Handlers, DeleteEmulators(h) PROVE Types'
  BY <1>14 DEF DeleteEmulators, Request
<1>15. CASE Vanish
  <2>1. remade' \in BOOLEAN
    <3>1. remade' = remade \/ remade' = (remade \/ \E h \in Handlers : at[h] # "idle")
      BY <1>15, Zenon DEF Vanish
    <3> QED
      BY <3>1
  <2>2. namespace' \in {"none", "active", "terminating"} /\ services' \subseteq Names
    BY <1>15 DEF Vanish
  <2>3. sets' \in [Names -> Nat]
    BY <1>15 DEF Vanish
  <2>4. UNCHANGED <<versions, handlerVars, requests, failures, raced, cut>>
    BY <1>15, Zenon DEF Vanish
  <2> QED
    BY <2>1, <2>2, <2>3, <2>4
<1> HIDE DEF Types
<1> QED
  BY <1>1, <1>2, <1>3, <1>4, <1>5, <1>6, <1>7, <1>8, <1>9, <1>10, <1>11, <1>12, <1>13, <1>14, <1>15
  DEF Next

\* A step that leaves a name alone.
Alone(n) == /\ n \in services' <=> n \in services
            /\ sets'[n] = 0 <=> sets[n] = 0
            /\ \A h \in Handlers : Busy(h, n)' <=> Busy(h, n)
            /\ \A h \in Handlers : Twice(h, n)' => Twice(h, n)

\* What only grows.
Grows == /\ raced \subseteq raced' /\ cut \subseteq cut'
         /\ failures' = 0 => failures = 0

LEMMA GoodStill == ASSUME NEW n \in Names, Good(n), Alone(n), Grows PROVE Good(n)'
<1> SUFFICES ASSUME n \notin raced' PROVE Guarded(n)' /\ Served(n)' /\ Used(n)'
  BY DEF Good
<1>1. Guarded(n) /\ Served(n) /\ Used(n)
  BY DEF Good, Grows
<1>2. Guarded(n)'
  BY <1>1 DEF Guarded, Alone, Busy, Holds, Removes, Twice
<1>3. Served(n)'
  BY <1>1 DEF Served, Alone
<1>4. Used(n)'
  BY <1>1 DEF Used, Alone, Grows, Busy, Holds, Removes, Twice
<1> QED
  BY <1>2, <1>3, <1>4

\* A step of createEmulator or deleteEmulator is about one name.
LEMMA OneName ==
  ASSUME Services, NEW n, \A m \in Names : m # n => Alone(m), Grows, Settled' => Settled,
         Settled /\ Settled' /\ n \in Names /\ Good(n) => Good(n)', Inside'
  PROVE  Services'
<1> SUFFICES ASSUME Settled', NEW m \in Names PROVE Good(m)'
  BY DEF Services
<1>1. Settled /\ Good(m)
  BY DEF Services
<1> QED
  BY <1>1, GoodStill

\* A step that is about none.
LEMMA NoName ==
  ASSUME Services, \A m \in Names : Alone(m), Grows, Settled' => Settled, Inside'
  PROVE  Services'
BY OneName, GoodStill

LEMMA ServicesStep == Types /\ Types' /\ Services /\ [Next]_vars => Services'
<1> SUFFICES ASSUME Types, Types', Services, [Next]_vars PROVE Services'
  OBVIOUS
<1>s. Inside /\ (Settled => \A n \in Names : Good(n))
  BY DEF Services
<1>t. /\ at \in [Handlers -> {"idle", "namespace", "make", "create", "set", "service", "update"}]
      /\ called \in [Handlers -> SUBSET (Names \X BOOLEAN)]
      /\ made \in [Handlers -> SUBSET Names]
      /\ target \in [Handlers -> Names \cup {None}]
      /\ sets \in [Names -> Nat] /\ failures \in Nat /\ versions \in Nat
  BY DEF Types, TypeOK
<1>c. Targets /\ Creating
  BY DEF Types
<1> USE DEF creating, handlerVars, clusterVars, ghostVars
<1>1. CASE UNCHANGED vars
  <2>1. UNCHANGED <<clusterVars, at, target, called, made, failures, ghostVars>>
    BY <1>1 DEF vars
  <2>2. \A m \in Names : Alone(m)
    BY <2>1 DEF Alone, Busy, Holds, Removes, Twice
  <2>3. Grows /\ (Settled' => Settled) /\ Inside'
    BY <2>1, <1>s DEF Grows, Settled, Inside
  <2> QED
    BY <2>2, <2>3, NoName
\* Steps before and after those about services and sets.
<1>2. ASSUME NEW h \in Handlers,
             \/ \E S \in SUBSET Names, b \in BOOLEAN : Create(h, S, b)
             \/ GetNamespace(h) \/ MakeNamespace(h) \/ Created(h) \/ DeleteEmulators(h)
             \/ \E n \in Names : Delete(h, n) \/ GetSet(h, n)
      PROVE  Services'
  <2>1. UNCHANGED <<services, sets, called, made, ghostVars>>
    BY <1>2 DEF Create, GetNamespace, MakeNamespace, Created, DeleteEmulators, Delete, GetSet
  <2>2. /\ at[h] # "service" /\ at'[h] # "service"
        /\ \A k \in Handlers : k # h => at'[k] = at[k] /\ target'[k] = target[k]
    BY <1>2, <1>t DEF Create, GetNamespace, MakeNamespace, Created, DeleteEmulators, Delete, GetSet,
       Request, Goto
  <2>3. failures' = failures \/ failures' = failures + 1
    BY <1>2 DEF Create, GetNamespace, MakeNamespace, Created, DeleteEmulators, Delete, GetSet, Fails
  <2>4. \/ namespace' = namespace
        \/ namespace = "none" /\ namespace' = "active"
        \/ namespace = "active" /\ namespace' = "terminating"
    BY <1>2 DEF Create, GetNamespace, MakeNamespace, Created, DeleteEmulators, Delete, GetSet
  <2>5. \A m \in Names : Alone(m)
    BY <2>1, <2>2 DEF Alone, Busy, Holds, Removes, Twice
  <2>6. Grows /\ (Settled' => Settled) /\ Inside'
    BY <2>1, <2>3, <2>4, <1>s, <1>t DEF Grows, Settled, Inside
  <2> QED
    BY <2>5, <2>6, NoName
<1>3. ASSUME NEW h \in Handlers, UpdateSet(h) PROVE Services'
  <2>1. UNCHANGED <<namespace, services, called, made, target, ghostVars>>
    BY <1>3 DEF UpdateSet
  <2>2. at[h] = "update" /\ at' = [at EXCEPT ![h] = "idle"]
    BY <1>3 DEF UpdateSet, Goto
  <2>3. target[h] \in Names /\ \A m \in Names : sets'[m] = 0 <=> sets[m] = 0
    <3>1. target[h] \in Names /\ version[h] # 0
      BY <2>2, <1>c DEF Targets
    <3>2. \/ sets' = sets
          \/ sets[target[h]] # 0 /\ sets' = [sets EXCEPT ![target[h]] = versions + 1]
      BY <1>3, <3>1 DEF UpdateSet
    <3> QED
      BY <1>t, <3>1, <3>2
  <2>4. failures' = failures \/ failures' = failures + 1
    BY <1>3 DEF UpdateSet, Fails
  <2>5. \A m \in Names : Alone(m)
    BY <1>t, <2>1, <2>2, <2>3 DEF Alone, Busy, Holds, Removes, Twice
  <2>6. Grows /\ (Settled' => Settled) /\ Inside'
    BY <2>1, <2>3, <2>4, <1>s, <1>t DEF Grows, Settled, Inside
  <2> QED
    BY <2>5, <2>6, NoName
<1>4. ASSUME NEW h \in Handlers, NEW n \in Names, CreateService(h, n) PROVE Services'
  <2>1. PICK failed \in BOOLEAN :
          /\ called' = [called EXCEPT ![h] = @ \cup {<<n, failed>>}]
          /\ \/ /\ ~failed /\ namespace = "active" /\ n \notin services
                /\ services' = services \cup {n} /\ failures' = failures
             \/ failed /\ services' = services /\ failures' = failures
             \/ /\ failed /\ failures' = failures + 1
                /\ \/ services' = services
                   \/ namespace = "active" /\ services' = services \cup {n}
    BY <1>4 DEF CreateService, Fails
  <2>2. at[h] = "create" /\ UNCHANGED <<namespace, sets, at, target, made, ghostVars>>
    BY <1>4 DEF CreateService
  <2>3. /\ \A k \in Handlers : k # h => called'[k] = called[k]
        /\ called'[h] = called[h] \cup {<<n, failed>>}
    BY <1>t, <2>1
  <2>4. \A m \in Names : m # n => Alone(m)
    BY <2>1, <2>2, <2>3 DEF Alone, Busy, Holds, Removes, Twice
  <2>5. Grows /\ (Settled' => Settled) /\ Inside'
    BY <2>1, <2>2, <1>s, <1>t DEF Grows, Settled, Inside
  <2>6. ASSUME Good(n) PROVE Good(n)'
    <3>1. CASE failed
      <4>0. <<n, FALSE>> # <<n, failed>>
        BY <3>1
      <4>a. \A k \in Handlers : <<n, FALSE>> \in called'[k] <=> <<n, FALSE>> \in called[k]
        BY <2>3, <4>0
      <4>1. \A k \in Handlers : (Busy(k, n)' <=> Busy(k, n)) /\ (Twice(k, n)' <=> Twice(k, n))
        BY <2>2, <4>a DEF Busy, Holds, Removes, Twice
      <4>2. sets' = sets /\ services \subseteq services' /\ raced' = raced /\ cut' = cut
        BY <2>1, <2>2
      <4>3. services' = services \/ failures' # 0
        BY <2>1, <1>t, <3>1
      <4>4. failures' = 0 => failures = 0
        BY <2>1, <1>t
      <4> QED
        BY <2>6, <4>1, <4>2, <4>3, <4>4 DEF Good, Guarded, Served, Used
    <3>2. CASE ~failed
      <4> SUFFICES ASSUME n \notin raced' PROVE Good(n)'
        BY DEF Good
      <4>1. Busy(h, n)' /\ \A k \in Handlers : k # h => (Busy(k, n)' <=> Busy(k, n))
        BY <2>2, <2>3, <3>2 DEF Busy, Holds, Removes
      <4>2. /\ n \notin services /\ services' = services \cup {n}
            /\ sets' = sets /\ raced' = raced
        BY <2>1, <2>2, <3>2
      <4>3. Twice(h, n)' => n \in made[h]
        BY <2>2 DEF Twice
      <4>4. n \in made[h] => Busy(h, n)
        BY DEF Busy, Holds
      <4>5. Guarded(n)'
        BY <2>6, <4>1, <4>2, <4>3, <4>4 DEF Good, Guarded, Served
      <4> QED
        BY <4>1, <4>2, <4>5 DEF Good, Served, Used
    <3> QED
      BY <3>1, <3>2
  <2> QED
    BY <2>4, <2>5, <2>6, OneName
<1>5. ASSUME NEW h \in Handlers, NEW c \in Names \X BOOLEAN, TestErr(h, c) PROVE Services'
  <2> DEFINE n == c[1]
  <2>1. /\ n \in Names /\ c[2] \in BOOLEAN /\ c = <<n, c[2]>> /\ c \in called[h]
        /\ UNCHANGED <<clusterVars, at, target, failures, cut>>
    BY <1>5 DEF TestErr
  <2>2. /\ called' = [called EXCEPT ![h] = called[h] \ {c}]
        /\ made' = IF err[h] THEN made ELSE [made EXCEPT ![h] = made[h] \cup {n}]
        /\ raced' = IF err[h] # c[2] THEN raced \cup {n} ELSE raced
    BY <1>5 DEF TestErr
  <2> HIDE DEF n
  <2>3. /\ \A k \in Handlers : k # h => called'[k] = called[k] /\ made'[k] = made[k]
        /\ called'[h] = called[h] \ {<<n, c[2]>>}
        /\ made'[h] = IF err[h] THEN made[h] ELSE made[h] \cup {n}
    BY <1>t, <2>1, <2>2
  <2>4. \A m \in Names : m # n => Alone(m)
    BY <2>1, <2>3 DEF Alone, Busy, Holds, Removes, Twice
  <2>5. Grows /\ (Settled' => Settled) /\ Inside'
    BY <1>s, <2>1, <2>2, <1>5 DEF Grows, Settled, Inside, TestErr
  <2>6. ASSUME Good(n) PROVE Good(n)'
    <3>1. CASE err[h] # c[2]
      BY <2>2, <3>1 DEF Good
    <3>2. CASE err[h] = c[2]
      <4>a. \A k \in Handlers : k # h => Holds(k, n)' = Holds(k, n) /\ Twice(k, n)' = Twice(k, n)
        BY <2>3 DEF Holds, Twice
      <4>b. Holds(h, n)' <=> Holds(h, n)
        <5>1. CASE err[h]
          <6>1. <<n, FALSE>> # <<n, c[2]>>
            BY <3>2, <5>1
          <6> QED
            BY <2>3, <5>1, <6>1 DEF Holds
        <5>2. CASE ~err[h]
          <6>1. <<n, FALSE>> \in called[h]
            BY <2>1, <3>2, <5>2
          <6> QED
            BY <2>3, <5>2, <6>1 DEF Holds
        <5> QED
          BY <5>1, <5>2
      <4>c. Twice(h, n)' => Twice(h, n)
        <5>1. CASE err[h]
          BY <2>3, <5>1 DEF Twice
        <5>2. CASE ~err[h]
          <6>1. c[2] = FALSE
            BY <2>1, <3>2, <5>2
          <6> QED
            BY <2>3, <6>1 DEF Twice
        <5> QED
          BY <5>1, <5>2
      <4>1. Alone(n)
        BY <2>1, <4>a, <4>b, <4>c DEF Alone, Busy, Removes
      <4> QED
        BY <2>1, <2>5, <2>6, <4>1, GoodStill
    <3> QED
      BY <3>1, <3>2
  <2> QED
    BY <2>4, <2>5, <2>6, OneName
<1>6. ASSUME NEW h \in Handlers, NEW n \in Names, CreateSet(h, n) PROVE Services'
  <2>1. /\ at[h] = "create" /\ n \in made[h] /\ made' = [made EXCEPT ![h] = made[h] \ {n}]
        /\ UNCHANGED <<namespace, services, at, target, called, ghostVars>>
    BY <1>6 DEF CreateSet
  <2>2. \/ sets' = [sets EXCEPT ![n] = versions + 1] /\ failures' \in {failures, failures + 1}
        \/ (namespace # "active" \/ sets[n] # 0) /\ sets' = sets /\ failures' = failures
        \/ sets' = sets /\ failures' = failures + 1
    BY <1>6 DEF CreateSet, Fails
  <2>3. /\ namespace = "none" => sets' = sets
        /\ \A m \in Names : m # n => sets'[m] = sets[m]
    BY <1>6, <1>t DEF CreateSet
  <2>4. /\ \A k \in Handlers : k # h => made'[k] = made[k]
        /\ made'[h] = made[h] \ {n}
    BY <1>t, <2>1
  <2>5. \A m \in Names : m # n => Alone(m)
    BY <2>1, <2>3, <2>4 DEF Alone, Busy, Holds, Removes, Twice
  <2>6. Grows /\ (Settled' => Settled) /\ Inside'
    BY <1>s, <1>t, <2>1, <2>2, <2>3 DEF Grows, Settled, Inside
  <2>7. ASSUME Good(n), Settled PROVE Good(n)'
    <3> SUFFICES ASSUME n \notin raced' PROVE Guarded(n)' /\ Served(n)' /\ Used(n)'
      BY DEF Good
    <3>1. Busy(h, n) /\ Guarded(n)
      BY <2>1, <2>7 DEF Busy, Holds, Good
    <3>2. /\ n \in services' /\ sets[n] = 0 /\ ~Twice(h, n)
          /\ \A k \in Handlers : k # h => ~Busy(k, n)
      BY <2>1, <3>1 DEF Guarded
    <3>3. \A k \in Handlers : ~Busy(k, n)'
      BY <2>1, <2>4, <3>2 DEF Busy, Holds, Removes, Twice
    <3>4. namespace = "active"
      BY <1>s, <2>1, <2>7, <3>2 DEF Settled, Inside, Types, TypeOK
    <3>5. failures' = 0 => sets'[n] # 0
      BY <1>t, <2>2, <3>2, <3>4
    <3> QED
      BY <3>2, <3>3, <3>5 DEF Guarded, Served, Used
  <2> QED
    BY <2>5, <2>6, <2>7, OneName
<1>7. ASSUME NEW h \in Handlers, MustParse(h) PROVE Services'
  <2>1. /\ \A k \in Handlers : at'[k] = "idle" /\ called'[k] = {} /\ made'[k] = {}
        /\ cut' = cut \cup {n \in Names : Pending(n)}
        /\ UNCHANGED <<clusterVars, failures, remade, raced>>
    BY <1>7 DEF MustParse
  <2>2. \A k \in Handlers, n \in Names : ~Busy(k, n)'
    BY <2>1 DEF Busy, Holds, Removes
  <2>3. \A n \in Names : n \notin cut' => \A k \in Handlers : ~Busy(k, n)
    BY <2>1 DEF Pending, Busy, Holds, Removes
  <2>4. ASSUME NEW n \in Names, Good(n) PROVE Good(n)'
    BY <2>1, <2>2, <2>3, <2>4 DEF Good, Guarded, Served, Used
  <2> QED
    BY <1>s, <2>1, <2>4 DEF Services, Inside, Settled
<1>8. ASSUME NEW h \in Handlers, DeleteSet(h) PROVE Services'
  <2>n. PICK n \in Names : n = target[h]
    BY <1>8, <1>c DEF DeleteSet, Targets
  <2>1. /\ at[h] = "set" /\ n \in Names
        /\ UNCHANGED <<namespace, services, target, called, made, ghostVars>>
    BY <1>8 DEF DeleteSet
  <2>2. \/ /\ sets[n] # 0 /\ sets' = [sets EXCEPT ![n] = 0] /\ failures' = failures
           /\ at' = [at EXCEPT ![h] = "service"]
        \/ /\ at' = [at EXCEPT ![h] = "idle"]
           /\ \/ sets' = sets /\ failures' = failures
              \/ (sets' = sets \/ sets' = [sets EXCEPT ![n] = 0]) /\ failures' = failures + 1
    BY <1>8, <2>n DEF DeleteSet, Goto, Fails
  <2>3. called[h] = {} /\ made[h] = {}
    BY <2>1, <1>c DEF Creating
  <2>4. \A m \in Names : m # n => Alone(m)
    BY <1>t, <2>1, <2>2, <2>n DEF Alone, Busy, Holds, Removes, Twice
  <2>5. Grows /\ (Settled' => Settled) /\ Inside'
    BY <1>s, <1>t, <2>1, <2>2 DEF Grows, Settled, Inside
  <2>6. ASSUME Good(n) PROVE Good(n)'
    <3> SUFFICES ASSUME n \notin raced' PROVE Guarded(n)' /\ Served(n)' /\ Used(n)'
      BY DEF Good
    <3>1. Guarded(n) /\ Served(n) /\ Used(n)
      BY <2>1, <2>6 DEF Good
    <3>2. \A k \in Handlers : k # h => (Busy(k, n)' <=> Busy(k, n)) /\ (Twice(k, n)' <=> Twice(k, n))
      BY <1>t, <2>1, <2>2 DEF Busy, Holds, Removes, Twice
    <3>3. ~Busy(h, n) /\ ~Twice(h, n)'
      BY <2>1, <2>3 DEF Busy, Holds, Removes, Twice
    <3>4. CASE at' = [at EXCEPT ![h] = "service"]
      <4>1. Busy(h, n)'
        BY <1>t, <2>1, <2>n, <3>4 DEF Busy, Removes
      <4>2. sets[n] # 0 /\ sets'[n] = 0 /\ services' = services
        BY <1>t, <2>1, <2>2, <3>4
      <4> QED
        BY <3>1, <3>2, <3>3, <4>1, <4>2 DEF Guarded, Served, Used, Busy, Holds, Removes, Twice
    <3>5. CASE at' = [at EXCEPT ![h] = "idle"]
      <4>1. ~Busy(h, n)'
        BY <1>t, <2>1, <2>3, <3>5 DEF Busy, Holds, Removes
      <4>2. /\ services' = services /\ (sets'[n] = sets[n] \/ sets'[n] = 0)
            /\ failures' = 0 => sets'[n] = sets[n] /\ failures = 0
        BY <1>t, <2>1, <2>2, <3>5
      <4>3. cut' = cut
        BY <2>1
      <4>4. Guarded(n)'
        BY <3>1, <3>2, <4>1, <4>2 DEF Guarded
      <4>6. Served(n)'
        BY <3>1, <4>2 DEF Served
      <4>5. Used(n)'
        BY <3>1, <3>2, <3>3, <4>1, <4>2, <4>3 DEF Used, Busy, Holds, Removes
      <4> QED
        BY <4>4, <4>5, <4>6
    <3> QED
      BY <2>2, <3>4, <3>5
  <2> QED
    BY <2>4, <2>5, <2>6, OneName
<1>9. ASSUME NEW h \in Handlers, DeleteService(h) PROVE Services'
  <2>n. PICK n \in Names : n = target[h]
    BY <1>9, <1>c DEF DeleteService, Targets
  <2>1. /\ at[h] = "service" /\ n \in Names /\ at' = [at EXCEPT ![h] = "idle"]
        /\ UNCHANGED <<namespace, sets, target, called, made, ghostVars>>
    BY <1>9 DEF DeleteService, Goto
  <2>2. \/ services' = services \ {n} /\ failures' \in {failures, failures + 1}
        \/ services' = services /\ failures' = failures + 1
    BY <1>9, <2>n DEF DeleteService, Fails
  <2>4. \A m \in Names : m # n => Alone(m)
    BY <1>t, <2>1, <2>2, <2>n DEF Alone, Busy, Holds, Removes, Twice
  <2>5. Grows /\ (Settled' => Settled) /\ Inside'
    BY <1>s, <1>t, <2>1, <2>2 DEF Grows, Settled, Inside
  <2>6. ASSUME Good(n) PROVE Good(n)'
    <3> SUFFICES ASSUME n \notin raced' PROVE Guarded(n)' /\ Served(n)' /\ Used(n)'
      BY DEF Good
    <3>1. Busy(h, n) /\ Guarded(n)
      BY <2>1, <2>6, <2>n DEF Good, Busy, Removes
    <3>2. sets'[n] = 0 /\ \A k \in Handlers : k # h => ~Busy(k, n)
      BY <2>1, <3>1 DEF Guarded
    <3>3. called'[h] = {} /\ made'[h] = {} /\ at'[h] = "idle"
      BY <1>t, <2>1, <1>c DEF Creating
    <3>4. \A k \in Handlers : ~Busy(k, n)'
      BY <1>t, <2>1, <3>2, <3>3 DEF Busy, Holds, Removes
    <3>5. failures' = 0 => n \notin services'
      BY <1>t, <2>2
    <3> QED
      BY <3>2, <3>4, <3>5 DEF Guarded, Served, Used
  <2> QED
    BY <2>4, <2>5, <2>6, OneName
<1>10. CASE Vanish
  <2>1. CASE namespace' = "terminating"
    BY <2>1 DEF Services, Inside, Settled
  <2>2. CASE namespace' = "none"
    <3>0. /\ services = {} /\ \A n \in Names : sets[n] = 0
          /\ remade' = (remade \/ \E h \in Handlers : at[h] # "idle")
          /\ UNCHANGED <<services, sets, handlerVars>>
      BY <1>10, <2>2, Zenon DEF Vanish
    <3>1. /\ services' = {} /\ \A n \in Names : sets'[n] = 0
          /\ ~remade' => \A h \in Handlers : at'[h] = "idle"
      BY <3>0
    <3>5. Creating'
      BY DEF Types
    <3>2. ~remade' => \A h \in Handlers : called'[h] = {} /\ made'[h] = {}
      BY <3>1, <3>5 DEF Creating
    <3>3. ~remade' => \A h \in Handlers, n \in Names : ~Busy(h, n)'
      BY <3>1, <3>2 DEF Busy, Holds, Removes
    <3>4. ~remade' => \A n \in Names : Good(n)'
      BY <3>1, <3>3 DEF Good, Guarded, Served, Used
    <3> QED
      BY <3>1, <3>4 DEF Services, Inside, Settled
  <2> QED
    BY <1>10, <2>1, <2>2 DEF Vanish
<1> QED
  BY <1>1, <1>2, <1>3, <1>4, <1>5, <1>6, <1>7, <1>8, <1>9, <1>10 DEF Next

LEMMA InvStep == Inv /\ [Next]_vars => Inv'
BY TypesStep, ServicesStep DEF Inv

LEMMA Invariance == Spec => []Inv
BY InitInv, InvStep, PTL DEF Spec

-----------------------------------------------------------------------------
\* The type invariant of the farm.
THEOREM TypeCorrect == Spec => []TypeOK
<1>1. Inv => TypeOK
  BY DEF Inv, Types
<1> QED
  BY <1>1, Invariance, PTL

\* createEmulator and deleteEmulator, which take no lock, leave no emulator without
\* its service, but one of which a goroutine took the success of another for its own.
THEOREM EmulatorsHaveServices == Spec => []HasService
<1>1. Inv => HasService
  BY DEF Inv, Services, Settled, Good, Served, HasService
<1> QED
  BY <1>1, Invariance, PTL

\* Nor a service without its emulator, if no call to the cluster fails, but one of
\* which a goroutine took the failure of another for its own, or which was half way
\* when the process ended.
THEOREM NoServiceLeaks == Spec => []NoLeak
<1>1. Inv => NoLeak
  <2>1. \A n : Pending(n) <=> \E h \in Handlers : Busy(h, n)
    BY DEF Pending, Busy, Holds, Removes
  <2>2. TypeOK => services \subseteq Names
    BY DEF TypeOK
  <2> QED
    BY <2>1, <2>2 DEF Inv, Types, Services, Settled, Good, Used, NoLeak
<1> QED
  BY <1>1, Invariance, PTL
=============================================================================
