------------------------------ MODULE CorePool ------------------------------
(***************************************************************************)
(* The processor cores of one node (app/core_pool.py): the pool, the table *)
(* of the cores reserved (node_core_alloc), and those who write them, each *)
(* in its own thread: deployments and destructions of containers           *)
(* (app/docker_compute.py, app/containers.py), the 2110 engine that takes  *)
(* its pin whatever it holds and the pass that reconciles its reservation  *)
(* (app/docker_driver.py), the purge of what destroyed containers left,    *)
(* and the threads that give the shared containers their new cpuset.       *)
(*                                                                         *)
(* One operation at a time works on a container (its lock; ContainerOps    *)
(* says what the lock is worth). The choice among the cores that satisfy   *)
(* the rule (NUMA, load of the siblings) is left open. Left out: a second  *)
(* node, a flat machine without siblings, the hot guarantee of             *)
(* app/etalonnage.py, the pool edited by hand, the frequency governor.     *)
(***************************************************************************)
EXTENDS Naturals, FiniteSets

CONSTANTS
    Cores,
    Phys,               \* core -> physical core: core_map_cached
    Pool0,              \* nodes.compute_cpuset at the start
    Boxes,              \* the containers created, by vmid: never used twice
    Engine, Pin,        \* the 2110 engine, and the cores it runs on
    Reconciler,         \* reconcile_engine_pinning
    Free,
    Wishes,             \* the numbers of cores a deployment may want, 0 for a shared one
    ReservePhysical,    \* pin_reserve_physical: the siblings of a reserved core are not shared
    Threads,            \* bound on reappliquer_partages under way together
    MaxOperations       \* bound on deployments and destructions

Holders == Boxes \cup {Engine}
Actors == Holders \cup {Reconciler}

ASSUME CoresAssumption ==
    /\ Phys \in [Cores -> Nat] /\ Pool0 \subseteq Cores /\ Pool0 # {} /\ Pin \subseteq Cores
    /\ Engine \notin Boxes /\ Reconciler \notin Holders /\ Free \notin Actors
    /\ Actors \cap Threads = {}
    /\ Wishes \subseteq Nat /\ ReservePhysical \in BOOLEAN /\ MaxOperations \in Nat

VARIABLES
    alloc,      \* node_core_alloc: core -> the container that holds it, or Free
    pool,       \* nodes.compute_cpuset
    row,        \* containers: "none", "live" or "gone"
    pinned,     \* containers.pinned_cores
    box,        \* external: the cpuset of each Docker container, {} when there is none
    spec,       \* containers.runtime_spec_sig: what docker run was last given
    phase,      \* where each actor is
    wish,       \* the number of cores a deployment wants
    known,      \* the pool it has read
    names,      \* the holders its purge has read
    grant,      \* the cpuset it is going to set
    reconciled, \* _reconcile_seen is the pin
    thread,     \* reappliquer_partages: what each has measured and has left to do
    operations,
    current,    \* history: the cpusets computed from the table as it still is
    off,        \* history: evicted, refused, not updated, or given a cpuset of an older table
    hit         \* history: the deployments that end so whatever they do

tables == <<alloc, pool, row, pinned>>
mine == <<wish, known, names, grant>>
docker == <<box, spec>>
history == <<current, off, hit>>
rest == <<reconciled, thread, operations>>
vars == <<tables, docker, phase, mine, rest, history>>

Phases == {"idle", "list", "purge", "allocate", "share", "run",
           "remove", "forget", "compare", "reserve", "shrink", "launch"}
AtRest == [phase |-> "idle", want |-> {}, targets |-> {}]
Due == [phase |-> "due", want |-> {}, targets |-> {}]
Widening == [phase |-> "widen", want |-> {}, targets |-> {}]
Unsigned == [cores |-> {}, dedicated |-> FALSE]

TypeOK ==
    /\ alloc \in [Cores -> Holders \cup {Free}]
    /\ pool \subseteq Cores
    /\ row \in [Holders -> {"none", "live", "gone"}]
    /\ pinned \in [Boxes -> SUBSET Cores] /\ box \in [Holders -> SUBSET Cores]
    /\ phase \in [Actors -> Phases]
    /\ wish \in [Boxes -> Nat] /\ known \in [Actors -> SUBSET Cores]
    /\ names \in [Boxes -> SUBSET Holders] /\ grant \in [Boxes -> SUBSET Cores]
    /\ reconciled \in BOOLEAN
    /\ thread \in [Threads -> [phase : {"idle", "due", "widen", "update"}, want : SUBSET Cores,
                               targets : SUBSET Holders]]
    /\ operations \in Nat
    /\ current \subseteq Boxes \cup Threads
    /\ off \in [Boxes -> BOOLEAN] /\ hit \subseteq Boxes
    /\ spec \in [Boxes -> [cores : SUBSET Cores, dedicated : BOOLEAN]]

Init ==
    /\ alloc = [c \in Cores |-> Free] /\ pool = Pool0
    /\ row = [h \in Holders |-> IF h = Engine THEN "live" ELSE "none"]
    /\ pinned = [b \in Boxes |-> {}] /\ box = [h \in Holders |-> {}]
    /\ phase = [a \in Actors |-> "idle"]
    /\ wish = [b \in Boxes |-> 0] /\ known = [a \in Actors |-> {}]
    /\ names = [b \in Boxes |-> {}] /\ grant = [b \in Boxes |-> {}]
    /\ reconciled = FALSE
    /\ thread = [t \in Threads |-> AtRest]
    /\ operations = 0
    /\ current = {} /\ off = [b \in Boxes |-> FALSE] /\ hit = {}
    /\ spec = [b \in Boxes |-> Unsigned]

(***************************************************************************)
(* The table and what is read of it.                                       *)
(***************************************************************************)
Held(h) == {c \in Cores : alloc[c] = h}
PhysOf(S) == {Phys[c] : c \in S}

(* release_cores, for a set of holders. *)
Released(H) == [c \in Cores |-> IF alloc[c] \in H THEN Free ELSE alloc[c]]

(* An allocation replaces what b held. *)
Given(b, S) == [c \in Cores |-> IF c \in S THEN b ELSE IF alloc[c] = b THEN Free ELSE alloc[c]]

(* The engine has its pin and nothing else. *)
Conquered == [c \in Cores |-> IF c \in Pin THEN Engine ELSE IF alloc[c] = Engine THEN Free ELSE alloc[c]]

(* Mutant: the sibling of a reserved core is a core like another. *)
AnyFree(b, S) == S

(* _phys_libres: no other reservation holds the sibling. *)
PhysFree(b, S) == {c \in S : \A d \in Cores : Phys[d] = Phys[c] => alloc[d] \in {b, Free}}

(* partage_disponible, for the container b or for nobody. *)
Shareable(P, b) ==
    LET reserved == {c \in Cores : alloc[c] \notin {b, Free}}
    IN  {c \in P \ reserved : ReservePhysical => Phys[c] \notin PhysOf(reserved)}

(* What was computed from the table before this write is no longer current. *)
Write(new) ==
    /\ alloc' = new
    /\ current' = IF new = alloc THEN current ELSE {}

Go(a, there) == phase' = [phase EXCEPT ![a] = there]

Begin(job) == \E t \in Threads : thread[t].phase = "idle" /\ thread' = [thread EXCEPT ![t] = job]

(* After a reservation the cpusets are measured again; after a destruction *)
(* a measure of the last two minutes will do.                              *)
Start == Begin(Due)
Widen == Begin(Widening)

Operation == operations < MaxOperations /\ operations' = operations + 1

(***************************************************************************)
(* The deployment of a container: deploy_compute.                          *)
(***************************************************************************)
Create(b) ==
    /\ row[b] = "none"
    /\ row' = [row EXCEPT ![b] = "live"]
    /\ UNCHANGED <<alloc, pool, pinned, docker, phase, mine, rest, history>>

(* The end of a deployment forgets what it had read. *)
Finish(b) ==
    /\ Go(b, "idle")
    /\ wish' = [wish EXCEPT ![b] = 0] /\ known' = [known EXCEPT ![b] = {}]
    /\ names' = [names EXCEPT ![b] = {}] /\ grant' = [grant EXCEPT ![b] = {}]

(* What it holds is released when it becomes shared, or when a setting of  *)
(* its own asks for another number of cores. The pool is read next.        *)
Deploy(b) ==
    /\ phase[b] = "idle" /\ row[b] = "live" /\ Operation
    /\ \E n \in Wishes :
         /\ wish' = [wish EXCEPT ![b] = n]
         /\ Go(b, IF n > 0 THEN "list" ELSE "share")
         /\ \/ Write(Released({b})) /\ Cardinality(Held(b)) # n
            \/ Write(alloc) /\ (n > 0 \/ Held(b) = {})
    /\ known' = [known EXCEPT ![b] = pool]
    /\ UNCHANGED <<pool, row, pinned, docker, names, grant, reconciled, thread, off, hit>>

(* reservations_orphelines: who holds cores... *)
List(b) ==
    /\ phase[b] = "list"
    /\ names' = [names EXCEPT ![b] = {h \in Holders : Held(h) # {}}]
    /\ Go(b, "purge")
    /\ UNCHANGED <<tables, docker, wish, known, grant, rest, history>>

(* Mutant: a container that does not run yet is taken for a vestige. *)
PurgeStopped(b) ==
    /\ phase[b] = "purge"
    /\ Write(Released({h \in names[b] : box[h] = {}}))
    /\ names' = [names EXCEPT ![b] = {}]
    /\ Go(b, "allocate")
    /\ UNCHANGED <<pool, row, pinned, docker, wish, known, grant, rest, off, hit>>

(* ... and which of them is no longer in the database: purger_orphelines   *)
(* releases these. A number never comes back.                              *)
Purge(b) ==
    /\ phase[b] = "purge"
    /\ Write(Released({h \in names[b] : row[h] # "live"}))
    /\ names' = [names EXCEPT ![b] = {}]
    /\ Go(b, "allocate")
    /\ UNCHANGED <<pool, row, pinned, docker, wish, known, grant, rest, off, hit>>

(* The answer of allocate_cores: cores, or None and the shared pool.       *)
(* History: cores taken anew for a box that was created with them will not *)
(* be told to the shared containers (Conforming).                          *)
Dedicated(b, S) ==
    /\ Write(Given(b, S))
    /\ grant' = [grant EXCEPT ![b] = S] /\ pinned' = [pinned EXCEPT ![b] = S]
    /\ Go(b, "run")
    /\ hit' = IF Given(b, S) # alloc /\ box[b] # {} /\ spec[b] = [cores |-> S, dedicated |-> S # {}]
              THEN hit \cup {b} ELSE hit

Refused(b, new) ==
    /\ Write(new)
    /\ Go(b, "share")
    /\ UNCHANGED <<grant, pinned, hit>>

(* allocate_cores, under _alloc_lock and in one transaction. *)
Allocate(b) ==
    LET held == Held(b)
        n == wish[b]
        candidates == PhysFree(b, {c \in known[b] : alloc[c] = Free} \cup held)
        Picks == {S \in SUBSET candidates : Cardinality(S) = n}
        lawful == held \subseteq PhysFree(b, held)
    IN  /\ phase[b] = "allocate"
        /\ \/ held = {} /\ \E S \in Picks : Dedicated(b, S)
           \/ held = {} /\ Picks = {} /\ Refused(b, alloc)
           \* idempotent, unless a better place exists for as many cores
           \/ held # {} /\ lawful /\ Dedicated(b, held)
           \/ /\ held # {} /\ lawful /\ Cardinality(held) = n
              /\ \E S \in Picks : Dedicated(b, S)
           \* what it holds breaks the rule: placed elsewhere, or given back
           \/ held # {} /\ ~lawful /\ \E S \in Picks : Dedicated(b, S)
           \/ held # {} /\ ~lawful /\ Picks = {} /\ Refused(b, Released({b}))
        /\ UNCHANGED <<pool, row, docker, wish, known, names, rest, off>>

(* The shared pool, or all of the pool when nothing of it is shared: the   *)
(* owners are named in an alert.                                           *)
Share(b) ==
    LET shared == Shareable(known[b], b)
    IN  /\ phase[b] = "share"
        /\ grant' = [grant EXCEPT ![b] = IF shared = {} THEN known[b] ELSE shared]
        /\ pinned' = [pinned EXCEPT ![b] = {}]
        /\ current' = current \cup {b}
        /\ hit' = IF shared = {} THEN hit \cup {b} ELSE hit
        /\ Go(b, "run")
        /\ UNCHANGED <<alloc, pool, row, docker, wish, known, names, rest, off>>

(* The end of a deployment: new, docker run was called; ok, it has worked. *)
End(b, new, ok) ==
    LET late == pinned[b] = {} /\ b \notin current
    IN  /\ off' = [off EXCEPT ![b] = ~ok \/ b \in hit \/ late \/ (~new /\ (@ \/ box[b] # grant[b]))]
        /\ hit' = hit \ {b} /\ current' = current \ {b}
        /\ Finish(b)
        /\ UNCHANGED <<tables, reconciled, operations>>

Signed(b) == [cores |-> grant[b], dedicated |-> pinned[b] # {}]

(* Mutant: the shared containers keep the cores just reserved. *)
RunAlone(b) ==
    /\ phase[b] = "run" /\ (spec[b] # Signed(b) \/ box[b] = {})
    /\ box' = [box EXCEPT ![b] = grant[b]] /\ spec' = [spec EXCEPT ![b] = Signed(b)]
    /\ UNCHANGED thread
    /\ End(b, TRUE, TRUE)

(* docker run; when its cores are reserved the shared containers then have *)
(* to leave them.                                                          *)
Run(b) ==
    /\ phase[b] = "run" /\ (spec[b] # Signed(b) \/ box[b] = {})
    /\ box' = [box EXCEPT ![b] = grant[b]] /\ spec' = [spec EXCEPT ![b] = Signed(b)]
    /\ IF pinned[b] = {} THEN UNCHANGED thread ELSE Start
    /\ End(b, TRUE, TRUE)

(* _conteneur_deja_conforme: it runs, and was created with this cpuset,    *)
(* whatever docker update has made of it.                                  *)
Conforming(b) ==
    /\ phase[b] = "run" /\ spec[b] = Signed(b) /\ box[b] # {}
    /\ UNCHANGED <<docker, thread>>
    /\ End(b, FALSE, TRUE)

(* Refused before the container is touched (an agent too old, or PoolSature *)
(* if the node refuses to share reserved cores), or docker run fails.      *)
GiveUp(b) ==
    /\ \/ phase[b] = "share" /\ Shareable(known[b], b) = {} /\ UNCHANGED docker
       \/ phase[b] = "run" /\ UNCHANGED docker
       \/ /\ phase[b] = "run" /\ spec' = [spec EXCEPT ![b] = Unsigned]
          /\ box' = [box EXCEPT ![b] = {}]
    /\ UNCHANGED thread
    /\ End(b, FALSE, FALSE)

(***************************************************************************)
(* A destruction: _detruire_container_locked. The answer of docker rm is   *)
(* not read. Only destroy_compute releases a second time.                  *)
(***************************************************************************)
Destroy(h) ==
    /\ phase[h] = "idle" /\ row[h] = "live" /\ Operation
    /\ Write(Released({h}))
    /\ Go(h, "remove")
    /\ UNCHANGED <<pool, row, pinned, docker, mine, reconciled, thread, off, hit>>

Remove(h) ==
    /\ phase[h] = "remove"
    /\ box' = [box EXCEPT ![h] = {}] \/ UNCHANGED box
    /\ Go(h, "forget")
    /\ UNCHANGED <<tables, spec, mine, rest, history>>

Forget(h) ==
    /\ phase[h] = "forget"
    /\ Write(IF h = Engine THEN alloc ELSE Released({h}))
    /\ row' = [row EXCEPT ![h] = "gone"]
    /\ Widen
    /\ Go(h, "idle")
    /\ UNCHANGED <<pool, pinned, docker, mine, reconciled, operations, off, hit>>

(***************************************************************************)
(* The engine: it takes its pin and evicts who holds a core of it.         *)
(***************************************************************************)
EngineDeploy ==
    /\ phase[Engine] = "idle" /\ row[Engine] = "live" /\ Operation
    /\ Go(Engine, "reserve")
    /\ known' = [known EXCEPT ![Engine] = pool]
    /\ UNCHANGED <<tables, docker, wish, names, grant, reconciled, thread, history>>

(* reconcile_engine_pinning: the engine is in the database and it runs on  *)
(* its pin, not seen before...                                             *)
Inspect ==
    /\ phase[Reconciler] = "idle"
    /\ row[Engine] = "live" /\ box[Engine] = Pin /\ ~reconciled
    /\ Go(Reconciler, "compare")
    /\ UNCHANGED <<tables, docker, mine, rest, history>>

(* ... and the table says otherwise. *)
Compare ==
    /\ phase[Reconciler] = "compare"
    /\ reconciled' = TRUE
    /\ Go(Reconciler, IF Held(Engine) = Pin THEN "idle" ELSE "reserve")
    /\ known' = [known EXCEPT ![Reconciler] = IF Held(Engine) = Pin THEN {} ELSE pool]
    /\ UNCHANGED <<tables, docker, wish, names, grant, thread, operations, history>>

(* reserve_engine_cores, on the pool it has read before the lock. *)
Reserve(a) ==
    /\ phase[a] = "reserve"
    /\ Write(Conquered)
    /\ LET victims == {b \in Boxes : Held(b) \cap Pin # {}}
       IN  /\ off' = [b \in Boxes |-> off[b] \/ b \in victims]
           /\ hit' = hit \cup {b \in victims : phase[b] # "idle"}
    /\ Go(a, "shrink")
    /\ UNCHANGED <<pool, row, pinned, docker, mine, rest>>

(* _exclure_du_pool: the pin and its siblings leave the pool, unless       *)
(* nothing would be left of it.                                            *)
Shrink(a) ==
    LET left == {c \in known[a] : Phys[c] \notin PhysOf(Pin)}
    IN  /\ phase[a] = "shrink"
        /\ pool' = IF left \in {{}, known[a]} THEN pool ELSE left
        /\ current' = IF pool' = pool THEN current ELSE {}
        /\ Start
        /\ Go(a, IF a = Engine THEN "launch" ELSE "idle")
        /\ known' = [known EXCEPT ![a] = {}]
        /\ UNCHANGED <<alloc, row, pinned, docker, wish, names, grant, reconciled, operations, off, hit>>

Launch ==
    /\ phase[Engine] = "launch"
    /\ box' = [box EXCEPT ![Engine] = Pin] \/ UNCHANGED box
    /\ Go(Engine, "idle")
    /\ UNCHANGED <<tables, spec, mine, rest, history>>

(***************************************************************************)
(* reappliquer_partages, in a thread of its own.                           *)
(***************************************************************************)
(* Containers without a reservation, on another cpuset, or said to be by   *)
(* the measure in store; nothing is done, and nothing said, when nothing   *)
(* is left to share.                                                       *)
Measure(t) ==
    LET want == Shareable(pool, Free)
        unreserved == {h \in Holders : row[h] = "live" /\ Held(h) = {}}
    IN  /\ \E targets \in SUBSET unreserved :
             /\ \/ thread[t].phase = "due" /\ want # {} /\ targets = {h \in unreserved : box[h] # want}
                \/ thread[t].phase = "widen" /\ want # {}
                \/ thread[t].phase \in {"due", "widen"} /\ want = {} /\ targets = {}
             /\ thread' = [thread EXCEPT ![t] = IF targets = {} THEN AtRest
                             ELSE [phase |-> "update", want |-> want, targets |-> targets]]
             /\ current' = IF targets = {} THEN current ELSE current \cup {t}
        /\ off' = [b \in Boxes |-> off[b] \/ (want = {} /\ b \in unreserved)]
        /\ UNCHANGED <<tables, docker, phase, mine, reconciled, operations, hit>>

(* docker update of one of them; it may fail. *)
Update(t) ==
    /\ thread[t].phase = "update"
    /\ \E h \in thread[t].targets, done \in BOOLEAN :
         LET left == thread[t].targets \ {h}
         IN  /\ thread' = [thread EXCEPT ![t] = IF left = {} THEN AtRest
                             ELSE [phase |-> "update", want |-> thread[t].want, targets |-> left]]
             /\ current' = IF left = {} THEN current \ {t} ELSE current
             /\ done => box[h] # {}
             /\ box' = IF done THEN [box EXCEPT ![h] = thread[t].want] ELSE box
             /\ off' = [b \in Boxes |-> IF b = h /\ phase[b] = "idle"
                                         THEN ~done \/ t \notin current \/ (pinned[b] # {} /\ off[b])
                                         ELSE off[b]]
    /\ UNCHANGED <<tables, spec, phase, mine, reconciled, operations, hit>>

Next ==
    \/ \E h \in Holders : Destroy(h) \/ Remove(h) \/ Forget(h)
    \/ \E b \in Boxes : Create(b) \/ Deploy(b) \/ List(b) \/ Purge(b)
                        \/ Allocate(b) \/ Share(b) \/ Run(b) \/ Conforming(b) \/ GiveUp(b)
    \/ EngineDeploy \/ Inspect \/ Compare \/ Launch
    \/ \E a \in {Engine, Reconciler} : Reserve(a) \/ Shrink(a)
    \/ \E t \in Threads : Measure(t) \/ Update(t)

Spec == Init /\ [][Next]_vars

(***************************************************************************)
(* Properties.                                                             *)
(***************************************************************************)
(* A physical core is held by one container (allocate_cores, « règle       *)
(* stricte »): two reserved cores that are siblings have one owner, the    *)
(* engine apart, which takes its pin without looking at the siblings.      *)
OnePhysicalOwner ==
    \A c, d \in Cores : Phys[c] = Phys[d] /\ alloc[c] \in Boxes /\ alloc[d] \in Boxes
                        => alloc[c] = alloc[d]

Still(b) == row[b] = "live" /\ phase[b] = "idle" /\ ~off[b] /\ box[b] # {}

(* The three places that say where a container runs agree when nobody      *)
(* works on it: its reservation, containers.pinned_cores, and the cpuset   *)
(* of a container with reserved cores. Neither the purge of a neighbour's  *)
(* deployment nor a reapplication takes its cores away (core_pool.py, « un *)
(* vmid absent de containers est donc un vestige », « le conteneur dédié   *)
(* lui-même n'est jamais touché »). Excused, by off: what an engine has    *)
(* evicted, what a deployment has not finished, and a cpuset measured      *)
(* before the reservation and applied after.                               *)
TableIsTruth ==
    \A b \in Boxes : Still(b) => /\ Held(b) = pinned[b]
                                 /\ pinned[b] # {} => box[b] = pinned[b]

AllStill ==
    /\ \A a \in Actors : phase[a] = "idle"
    /\ \A t \in Threads : thread[t] = AtRest

(* « Dédié doit vouloir dire dédié »: once everything is at rest, a shared *)
(* container runs on no core that another one has reserved (nor on its     *)
(* sibling, if the operator wants it so), whatever the order in which both *)
(* came; same excuses.                                                     *)
DedicatedIsDedicated ==
    AllStill =>
        \A b \in Boxes : Still(b) /\ pinned[b] = {} =>
            \A c \in Cores :
                alloc[c] # Free /\ (alloc[c] \in Boxes => ~off[alloc[c]])
                => \A d \in box[b] : d # c /\ (ReservePhysical => Phys[d] # Phys[c])
=============================================================================
