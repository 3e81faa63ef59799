-------------------------------- MODULE Farm --------------------------------
(***************************************************************************)
(* The emulator farm: an API by which emulators are created, updated and   *)
(* deleted in a namespace of a Kubernetes cluster.  An emulator is a       *)
(* service and a stateful set of one name.  The handlers of requests run   *)
(* at the same time and take no lock.  A call to the cluster may fail, and *)
(* may have had its effect then.                                           *)
(*                                                                         *)
(* The handlers look names of requests up without their trailing zeros: a  *)
(* name is a pair of a name that does not end in one and the zeros.  The   *)
(* environment of the emulators is left out.                               *)
(***************************************************************************)
EXTENDS Naturals

CONSTANTS
  Bases,       \* names that do not end in a zero
  Handlers,    \* of requests
  MaxRequests, \* bound on the requests
  MaxFailures, \* bound on the calls that fail
  None

ASSUME FarmAssumption == MaxRequests \in Nat /\ MaxFailures \in Nat

Names == Bases \X {0, 1}

ASSUME NoneAssumption == None \notin Names

\* strings.TrimRight(id, "-0"), where id may also be the name of the pod.
TrimRight(n) == <<n[1], 0>>

VARIABLES
  namespace, \* none, active, or terminating, when it is emptied and nothing is created
  services,  \* names of services
  sets,      \* the version of the stateful set of a name, 0 if there is none
  versions,  \* the last version of a set that the cluster has given
  at,        \* handlers: idle, namespace, make, create, set, service, update
  target,    \* the name in a request to delete or to update
  version,   \* the version that updateEmulator got
  bad,       \* the resources in a request to create cannot be parsed
  todo,      \* names whose service createEmulator has yet to create
  called,    \* names for which it has called the cluster, and whether that failed
  err,       \* the one err of all these calls is not nil
  made,      \* names whose service it takes for created, but not the set
  \* The rest counts.
  requests, failures,
  remade,    \* the namespace went away while another request was handled
  raced,     \* names for which err was not that of their own call
  cut        \* names left half way when the process of the farm ended

creating == <<bad, todo, called, err, made>>
handlerVars == <<at, target, version, creating>>
clusterVars == <<namespace, services, sets, versions>>
ghostVars == <<remade, raced, cut>>
vars == <<clusterVars, handlerVars, requests, failures, ghostVars>>

TypeOK ==
  /\ namespace \in {"none", "active", "terminating"}
  /\ services \subseteq Names
  /\ sets \in [Names -> Nat]
  /\ versions \in Nat
  /\ at \in [Handlers -> {"idle", "namespace", "make", "create", "set", "service", "update"}]
  /\ target \in [Handlers -> Names \cup {None}]
  /\ version \in [Handlers -> Nat]
  /\ bad \in [Handlers -> BOOLEAN] /\ err \in [Handlers -> BOOLEAN]
  /\ todo \in [Handlers -> SUBSET Names]
  /\ called \in [Handlers -> SUBSET (Names \X BOOLEAN)]
  /\ made \in [Handlers -> SUBSET Names]
  /\ requests \in Nat /\ failures \in Nat
  /\ remade \in BOOLEAN /\ raced \subseteq Names /\ cut \subseteq Names

Init ==
  /\ namespace = "none" /\ services = {} /\ sets = [n \in Names |-> 0] /\ versions = 0
  /\ at = [h \in Handlers |-> "idle"]
  /\ target = [h \in Handlers |-> None] /\ version = [h \in Handlers |-> 0]
  /\ bad = [h \in Handlers |-> FALSE] /\ err = [h \in Handlers |-> FALSE]
  /\ todo = [h \in Handlers |-> {}] /\ called = [h \in Handlers |-> {}]
  /\ made = [h \in Handlers |-> {}]
  /\ requests = 0 /\ failures = 0 /\ remade = FALSE /\ raced = {} /\ cut = {}

Request(h) ==
  /\ requests < MaxRequests /\ requests' = requests + 1
  /\ at[h] = "idle"

Goto(h, l) == at' = [at EXCEPT ![h] = l]

Fails == failures < MaxFailures /\ failures' = failures + 1

\* A request that is handled will create the set of n, or delete its service.
Pending(n) == \E h \in Handlers :
  <<n, FALSE>> \in called[h] \/ n \in made[h] \/ (at[h] = "service" /\ target[h] = n)

(***************************************************************************)
(* createEmulator: the namespace, then of each name, in a goroutine of its *)
(* own, the service and the stateful set.  What exists cannot be created.  *)
(* A request that is refused after the first step has no names.            *)
(***************************************************************************)
Create(h, S, b) ==
  /\ Request(h)
  /\ Goto(h, "namespace")
  /\ todo' = [todo EXCEPT ![h] = S]
  /\ bad' = [bad EXCEPT ![h] = b]
  /\ UNCHANGED <<clusterVars, target, version, called, err, made, failures, ghostVars>>

GetNamespace(h) ==
  /\ at[h] = "namespace"
  /\ \/ namespace # "none" /\ Goto(h, "create") /\ UNCHANGED failures
     \/ namespace = "none" /\ Goto(h, "make") /\ UNCHANGED failures
     \/ Fails /\ Goto(h, "make")
  /\ UNCHANGED <<clusterVars, target, version, creating, requests, ghostVars>>

MakeNamespace(h) ==
  /\ at[h] = "make"
  /\ \/ /\ namespace = "none"
        /\ namespace' = "active"
        /\ Goto(h, "create")
        /\ UNCHANGED <<todo, failures>>
     \/ /\ \/ namespace # "none" /\ UNCHANGED <<namespace, failures>>
           \/ Fails /\ UNCHANGED namespace
           \/ Fails /\ namespace = "none" /\ namespace' = "active"
        /\ Goto(h, "idle")
        /\ todo' = [todo EXCEPT ![h] = {}]
  /\ UNCHANGED <<services, sets, versions, target, version, bad, called, err, made, requests,
                 ghostVars>>

\* All goroutines of the request assign the one err of createEmulator ...
CreateService(h, n) ==
  /\ at[h] = "create" /\ n \in todo[h]
  /\ todo' = [todo EXCEPT ![h] = @ \ {n}]
  /\ \E failed \in BOOLEAN :
       /\ called' = [called EXCEPT ![h] = @ \cup {<<n, failed>>}]
       /\ err' = [err EXCEPT ![h] = failed]
       /\ \/ /\ ~failed /\ namespace = "active" /\ n \notin services
             /\ services' = services \cup {n}
             /\ UNCHANGED failures
          \/ /\ failed /\ (namespace # "active" \/ n \in services)
             /\ UNCHANGED <<services, failures>>
          \/ /\ failed /\ Fails
             /\ \/ UNCHANGED services
                \/ namespace = "active" /\ services' = services \cup {n}
  /\ UNCHANGED <<namespace, sets, versions, at, target, version, bad, made, requests, ghostVars>>

\* Mutant: the goroutine goes on if the service cannot be created.
TestErrGoesOn(h, c) ==
  /\ c \in called[h]
  /\ called' = [called EXCEPT ![h] = @ \ {c}]
  /\ made' = [made EXCEPT ![h] = @ \cup {c[1]}]
  /\ raced' = IF err[h] # c[2] THEN raced \cup {c[1]} ELSE raced
  /\ UNCHANGED <<clusterVars, at, target, version, bad, todo, err, requests, failures, remade, cut>>

\* ... and look there whether their own call failed.
TestErr(h, c) ==
  /\ c \in called[h]
  /\ called' = [called EXCEPT ![h] = @ \ {c}]
  /\ made' = IF err[h] THEN made ELSE [made EXCEPT ![h] = @ \cup {c[1]}]
  /\ raced' = IF err[h] # c[2] THEN raced \cup {c[1]} ELSE raced
  /\ UNCHANGED <<clusterVars, at, target, version, bad, todo, err, requests, failures, remade, cut>>

CreateSet(h, n) ==
  /\ at[h] = "create" /\ n \in made[h] /\ ~bad[h]
  /\ made' = [made EXCEPT ![h] = @ \ {n}]
  /\ \/ /\ namespace = "active" /\ sets[n] = 0
        /\ versions' = versions + 1
        /\ sets' = [sets EXCEPT ![n] = versions']
        /\ UNCHANGED failures \/ Fails
     \/ /\ namespace # "active" \/ sets[n] # 0
        /\ UNCHANGED <<sets, versions, failures>>
     \/ Fails /\ UNCHANGED <<sets, versions>>
  /\ UNCHANGED <<namespace, services, at, target, version, bad, todo, called, err, requests,
                 ghostVars>>

\* resource.MustParse panics in the goroutine, which ends the process: it comes
\* back and handles none of the requests that it has handled.
MustParse(h) ==
  /\ at[h] = "create" /\ made[h] # {} /\ bad[h]
  /\ at' = [k \in Handlers |-> "idle"]
  /\ todo' = [k \in Handlers |-> {}] /\ called' = [k \in Handlers |-> {}]
  /\ made' = [k \in Handlers |-> {}]
  /\ bad' = [k \in Handlers |-> FALSE] /\ err' = [k \in Handlers |-> FALSE]
  /\ cut' = cut \cup {n \in Names : Pending(n)}
  /\ UNCHANGED <<clusterVars, target, version, requests, failures, remade, raced>>

Created(h) ==
  /\ at[h] = "create" /\ todo[h] = {} /\ called[h] = {} /\ made[h] = {}
  /\ Goto(h, "idle")
  /\ bad' = [bad EXCEPT ![h] = FALSE] /\ err' = [err EXCEPT ![h] = FALSE]
  /\ UNCHANGED <<clusterVars, target, version, todo, called, made, requests, failures, ghostVars>>

(***************************************************************************)
(* deleteEmulator: the set and then the service.  If the set cannot be     *)
(* deleted it deletes the pod of that name, which is never the name of the *)
(* pod of a set, and gives up.                                             *)
(***************************************************************************)
Delete(h, n) ==
  /\ Request(h)
  /\ Goto(h, "set")
  /\ target' = [target EXCEPT ![h] = TrimRight(n)]
  /\ UNCHANGED <<clusterVars, version, creating, failures, ghostVars>>

\* Mutant: the service of a set that was deleted is not deleted.
DeleteSetOnly(h) ==
  /\ at[h] = "set" /\ sets[target[h]] # 0
  /\ sets' = [sets EXCEPT ![target[h]] = 0]
  /\ Goto(h, "idle")
  /\ UNCHANGED <<namespace, services, versions, target, version, creating, requests, failures,
                 ghostVars>>

DeleteSet(h) ==
  LET n == target[h] IN
  /\ at[h] = "set"
  /\ \/ /\ sets[n] # 0
        /\ sets' = [sets EXCEPT ![n] = 0]
        /\ Goto(h, "service")
        /\ UNCHANGED failures
     \/ /\ \/ sets[n] = 0 /\ UNCHANGED <<sets, failures>>
           \/ Fails /\ UNCHANGED sets
           \/ Fails /\ sets' = [sets EXCEPT ![n] = 0]
        /\ Goto(h, "idle")
  /\ UNCHANGED <<namespace, services, versions, target, version, creating, requests, ghostVars>>

DeleteService(h) ==
  /\ at[h] = "service"
  /\ \/ services' = services \ {target[h]} /\ (UNCHANGED failures \/ Fails)
     \/ Fails /\ UNCHANGED services
  /\ Goto(h, "idle")
  /\ UNCHANGED <<namespace, sets, versions, target, version, creating, requests, ghostVars>>

(***************************************************************************)
(* updateEmulator, which is refused if the set has changed in between.     *)
(***************************************************************************)
GetSet(h, n) ==
  /\ Request(h)
  /\ \/ /\ sets[n] # 0
        /\ target' = [target EXCEPT ![h] = n]
        /\ version' = [version EXCEPT ![h] = sets[n]]
        /\ Goto(h, "update")
     \/ sets[n] = 0 /\ UNCHANGED <<at, target, version>>
  /\ UNCHANGED <<clusterVars, creating, failures, ghostVars>>

UpdateSet(h) ==
  LET n == target[h] IN
  /\ at[h] = "update"
  /\ \/ /\ sets[n] = version[h]
        /\ versions' = versions + 1
        /\ sets' = [sets EXCEPT ![n] = versions']
        /\ UNCHANGED failures \/ Fails
     \/ sets[n] # version[h] /\ UNCHANGED <<sets, versions, failures>>
     \/ Fails /\ UNCHANGED <<sets, versions>>
  /\ Goto(h, "idle")
  /\ UNCHANGED <<namespace, services, target, version, creating, requests, ghostVars>>

(***************************************************************************)
(* deleteEmulators has the namespace deleted.  The cluster then deletes    *)
(* what is in it, one by one, and at last the namespace itself.            *)
(***************************************************************************)
DeleteEmulators(h) ==
  /\ Request(h)
  /\ \/ namespace' = IF namespace = "active" THEN "terminating" ELSE namespace
     \/ UNCHANGED namespace
  /\ UNCHANGED <<services, sets, versions, handlerVars, failures, ghostVars>>

Vanish ==
  /\ namespace = "terminating"
  /\ \/ /\ \/ \E n \in services : services' = services \ {n} /\ UNCHANGED sets
           \/ \E n \in Names : sets[n] # 0 /\ sets' = [sets EXCEPT ![n] = 0] /\ UNCHANGED services
        /\ UNCHANGED <<namespace, remade>>
     \/ /\ services = {} /\ \A n \in Names : sets[n] = 0
        /\ namespace' = "none"
        /\ remade' = (remade \/ \E h \in Handlers : at[h] # "idle")
        /\ UNCHANGED <<services, sets>>
  /\ UNCHANGED <<versions, handlerVars, requests, failures, raced, cut>>

Next ==
  \/ \E h \in Handlers :
       \/ \E S \in SUBSET Names, b \in BOOLEAN : Create(h, S, b)
       \/ GetNamespace(h) \/ MakeNamespace(h) \/ MustParse(h) \/ Created(h)
       \/ \E n \in Names : CreateService(h, n) \/ CreateSet(h, n) \/ Delete(h, n) \/ GetSet(h, n)
       \/ \E c \in Names \X BOOLEAN : TestErr(h, c)
       \/ DeleteSet(h) \/ DeleteService(h) \/ UpdateSet(h) \/ DeleteEmulators(h)
  \/ Vanish

Spec == Init /\ [][Next]_vars

-----------------------------------------------------------------------------
\* Whichever requests are handled at the same time, whichever of their calls fail
\* and whenever the process ends, no emulator is without its service, but one of
\* which a goroutine took the success of another for its own.
HasService == ~remade /\ namespace # "terminating" =>
  \A n \in Names \ raced : sets[n] # 0 => n \in services

\* No service is left without its emulator, if no call to the cluster fails, but
\* one of which a goroutine took the failure of another for its own, or which was
\* about to get its emulator, or to be deleted, when the process ended.
NoLeak == ~remade /\ namespace # "terminating" /\ failures = 0 =>
  \A n \in services \ (raced \cup cut) : sets[n] # 0 \/ Pending(n)
=============================================================================
