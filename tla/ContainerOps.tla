---------------------------- MODULE ContainerOps ----------------------------
(***************************************************************************)
(* The life of one container: deployments, destructions and restarts       *)
(* (app/deploy.py, app/docker_compute.py, app/containers.py) under its     *)
(* lock (app/vmlocks.py), and the surveillance that starts its script      *)
(* again, deploys it again when it is lost, and gives up on a crash loop   *)
(* (app/metrics.py).                                                       *)
(*                                                                         *)
(* The lock is in the memory of one process: Outside operations belong to  *)
(* another one (an administration script, the standby) and take no lock.   *)
(* A configuration is the number of the deployment that brought it; the    *)
(* box is the Docker container, whose file system dies with it.            *)
(* Left out: another node, reserved cores, hot reconfiguration (it ends as *)
(* a restart does), script_enabled (true here), the 2110 engine.           *)
(***************************************************************************)
EXTENDS Naturals, FiniteSets

CONSTANTS
    Inside, Outside,    \* the operations that are asked for, one each
    Repair,             \* the thread _redeployer_script_perdu
    NoOne,
    Version,            \* the configuration each deployment brings
    Bad,                \* the configurations whose script never lasts
    Quarantine,         \* script_restart_quarantine_count
    MaxFaults           \* bound on boxes lost, threads hung, crashes of the service

Operations == Inside \cup Outside
Procs == Operations \cup {Repair}
First == 1              \* the configuration that runs at the start
Configs == {First} \cup {Version[p] : p \in Operations}

ASSUME ContainerAssumption ==
    /\ Inside \cap Outside = {} /\ Repair \notin Operations /\ NoOne \notin Procs
    /\ Version \in [Operations -> Nat \ {0, First}]
    /\ \A p, q \in Operations : Version[p] = Version[q] => p = q
    /\ Quarantine \in Nat \ {0} /\ MaxFaults \in Nat

VARIABLES
    row,        \* the container is in the database
    cfg,        \* its deploy_config
    box,        \* external: "absent", "exited" or "up"
    disk,       \* external: the script on its disk, 0 for none
    proc,       \* external: the script that runs, 0 for none
    holder,     \* the owner of its lock
    phase,      \* where each operation is
    ver,        \* what it deploys
    seen,       \* what the surveillance has read: "lost", "dead" or "nothing"
    watch,      \* its memory: prev_down, since (a long run or not), count, quarantined
    faults,
    blind,      \* history: an operation is or was under way that the repair could not see
    tainted     \* history: the lock did not order what was done since the last deployment

thing == <<box, disk, proc>>
stored == <<row, cfg>>
history == <<blind, tainted>>
vars == <<stored, thing, holder, phase, ver, seen, watch, faults, history>>

Waiting == {"idle", "wait", "done"}
Body == {"look", "run", "push", "persist", "relaunch", "remove", "forget", "start", "check"}
InBody == {p \in Procs : phase[p] \in Body}

(* What an operation deploys, unless it reads it in the database. *)
Brought(p) == IF p \in Operations THEN Version[p] ELSE First

FreshWatch == [prev_down |-> FALSE, long |-> TRUE, count |-> 0, quarantined |-> FALSE]

TypeOK ==
    /\ row \in BOOLEAN /\ cfg \in Configs
    /\ box \in {"absent", "exited", "up"} /\ disk \in Configs \cup {0} /\ proc \in Configs \cup {0}
    /\ holder \in Procs \cup {NoOne}
    /\ phase \in [Procs -> Waiting \cup Body \cup {"hung"}]
    /\ ver \in [Procs -> Configs]
    /\ seen \in {"nothing", "lost", "dead"}
    /\ watch \in [prev_down : BOOLEAN, long : BOOLEAN, count : 0..Quarantine, quarantined : BOOLEAN]
    /\ faults \in 0..MaxFaults
    /\ blind \in BOOLEAN /\ tainted \in BOOLEAN

Init ==
    /\ row = TRUE /\ cfg = First
    /\ box = "up" /\ disk = First /\ proc = First
    /\ holder = NoOne
    /\ phase = [p \in Procs |-> "idle"]
    /\ ver = [p \in Procs |-> Brought(p)]
    /\ seen = "nothing" /\ watch = FreshWatch
    /\ faults = 0 /\ blind = FALSE /\ tainted = FALSE

(***************************************************************************)
(* The lock: verrou_vmid.                                                  *)
(***************************************************************************)
BodyOf(p) == IF p = Repair THEN {"check"} ELSE {"look", "remove", "start"}

Go(p, there) == phase' = [phase EXCEPT ![p] = there]

(* A body that begins is news to a repair under way. *)
News == blind' = (blind \/ Repair \in InBody)

Begin(p) == News /\ \E there \in BodyOf(p) : Go(p, there)

Ask(p) ==
    /\ p \in Inside /\ phase[p] = "idle"
    /\ Go(p, "wait")
    /\ UNCHANGED <<stored, thing, holder, ver, seen, watch, faults, history>>

(* Mutant: the lock does not exclude. *)
EnterFreely(p) ==
    /\ phase[p] = "wait"
    /\ holder' = p
    /\ Begin(p)
    /\ UNCHANGED <<stored, thing, ver, seen, watch, faults, tainted>>

Enter(p) ==
    /\ phase[p] = "wait" /\ holder = NoOne
    /\ holder' = p
    /\ Begin(p)
    /\ UNCHANGED <<stored, thing, ver, seen, watch, faults, tainted>>

(* Mutant: the wait has no timeout. *)
WaitOn(p) == p \notin Procs /\ UNCHANGED vars

(* The wait lasted TIMEOUT_S: the body is executed all the same. *)
GiveUp(p) ==
    /\ phase[p] = "wait" /\ holder # NoOne
    /\ Begin(p)
    /\ tainted' = TRUE
    /\ UNCHANGED <<stored, thing, holder, ver, seen, watch, faults>>

(* An operation of another process meets no lock; only deployments. *)
Launch(p) ==
    /\ p \in Outside /\ phase[p] = "idle"
    /\ Go(p, "look")
    /\ News /\ tainted' = TRUE
    /\ UNCHANGED <<stored, thing, holder, ver, seen, watch, faults>>

(* The next step of a body, or its end: the lock is given back if held. *)
Goto(p, there) == Go(p, there) /\ UNCHANGED <<holder, ver, blind>>

Leave(p) ==
    /\ Go(p, IF p = Repair THEN "idle" ELSE "done")
    /\ holder' = IF holder = p THEN NoOne ELSE holder
    /\ ver' = [ver EXCEPT ![p] = Brought(p)]
    /\ blind' = (blind /\ p # Repair)

(***************************************************************************)
(* A deployment: deployer_script.                                          *)
(***************************************************************************)
(* deploy_compute reads the row; it may refuse (image, cores, host driver). *)
Look(p) ==
    /\ phase[p] = "look"
    /\ \/ row /\ Goto(p, "run")
       \/ Leave(p)
    /\ UNCHANGED <<stored, thing, seen, watch, faults, tainted>>

(* It keeps a box that conforms, else removes it and runs another, empty; *)
(* run_container may fail after the removal.                              *)
Run(p) ==
    /\ phase[p] = "run"
    /\ \/ box = "up" /\ Goto(p, "push") /\ UNCHANGED thing
       \/ box' = "up" /\ disk' = 0 /\ proc' = 0 /\ Goto(p, "push")
       \/ box' = "absent" /\ disk' = 0 /\ proc' = 0 /\ Leave(p)
    /\ UNCHANGED <<stored, seen, watch, faults, tainted>>

(* POST /deploy: the agent writes the script, or does not answer. *)
Push(p) ==
    /\ phase[p] = "push"
    /\ \/ box = "up" /\ disk' = ver[p] /\ Goto(p, "persist")
       \/ Leave(p) /\ UNCHANGED disk
    /\ UNCHANGED <<stored, box, proc, seen, watch, faults, tainted>>

(* db_update_deploy_config, an UPDATE; an exception on the way leaves the *)
(* new script on the disk and the former configuration in the database.   *)
Persist(p) ==
    /\ phase[p] = "persist"
    /\ \/ /\ cfg' = IF row THEN ver[p] ELSE cfg
          /\ Goto(p, "relaunch")
          /\ tainted' = (tainted /\ ~ (InBody = {p} /\ row /\ disk = ver[p]))
       \/ Leave(p) /\ tainted' = TRUE /\ UNCHANGED cfg
    /\ UNCHANGED <<row, thing, seen, watch, faults>>

(* restart_script_verified: the stop is not confirmed, the start fails, or *)
(* the script of the disk runs.                                            *)
Relaunch(p) ==
    /\ phase[p] = "relaunch"
    /\ proc' \in IF box = "up" THEN {proc, 0, disk} ELSE {proc}
    /\ Leave(p)
    /\ UNCHANGED <<stored, box, disk, seen, watch, faults, tainted>>

(***************************************************************************)
(* A destruction: detruire_container.                                      *)
(***************************************************************************)
(* docker rm -f; its result is not looked at, the node may be out of reach. *)
Remove(p) ==
    /\ phase[p] = "remove"
    /\ \/ ~ row /\ Leave(p) /\ UNCHANGED <<thing, tainted>>
       \/ /\ row /\ box' = "absent" /\ disk' = 0 /\ proc' = 0
          /\ Goto(p, "forget") /\ UNCHANGED tainted
       \/ row /\ Goto(p, "forget") /\ tainted' = TRUE /\ UNCHANGED thing
    /\ UNCHANGED <<stored, seen, watch, faults>>

Forget(p) ==
    /\ phase[p] = "forget"
    /\ row' = FALSE
    /\ Leave(p)
    /\ UNCHANGED <<cfg, thing, seen, watch, faults, tainted>>

(***************************************************************************)
(* A restart by hand: redemarrer_container, start_compute.                 *)
(***************************************************************************)
(* Out of quarantine first; a box that is gone, or whose ports have moved, *)
(* is deployed again from the database, another is started with the script *)
(* of its disk.                                                            *)
Start(p) ==
    /\ phase[p] = "start"
    /\ watch' = [FreshWatch EXCEPT !.prev_down = watch.prev_down]
    /\ \/ /\ row
          /\ ver' = [ver EXCEPT ![p] = cfg]
          /\ Go(p, "look") /\ UNCHANGED <<holder, blind, box, proc>>
       \/ /\ row /\ box # "absent" /\ box' = "up"
          /\ proc' = IF box = "exited" THEN disk ELSE proc
          /\ Leave(p)
       \/ Leave(p) /\ UNCHANGED <<box, proc>>
    /\ UNCHANGED <<stored, disk, seen, faults, tainted>>

(***************************************************************************)
(* The repair of a script that is lost: _redeployer_script_perdu.  Only    *)
(* one is in flight, _redeploy_inflight.                                   *)
(***************************************************************************)
(* Mutant: no second look. *)
NotLooked == TRUE

(* A second look under the lock, at the box and not at the database. *)
Absent == box = "up" /\ disk = 0

(* The deployments under way that this look cannot tell of. *)
NotOnDisk == {p \in InBody \ {Repair} : ~ (phase[p] = "persist" /\ disk = ver[p])}

Check ==
    /\ phase[Repair] = "check"
    /\ IF row /\ Absent
       THEN /\ ver' = [ver EXCEPT ![Repair] = cfg]
            /\ blind' = (NotOnDisk # {})
            /\ Go(Repair, "look") /\ UNCHANGED holder
       ELSE Leave(Repair)
    /\ UNCHANGED <<stored, thing, seen, watch, faults, tainted>>

(***************************************************************************)
(* The surveillance: a pass reads /status of the agent, then acts on it.   *)
(***************************************************************************)
(* Mutant: any run that is seen counts as confirmed. *)
SeenRun == watch.count > 0

ConfirmedRun == watch.count > 0 /\ watch.long

(* A run counts as confirmed after SCRIPT_STABLE_S without an interruption *)
(* that was seen; only then is the count of failures forgotten.            *)
SeeRunning ==
    /\ row /\ box = "up" /\ proc # 0 /\ seen = "nothing"
    /\ watch' = IF watch.prev_down THEN [watch EXCEPT !.prev_down = FALSE, !.long = FALSE]
                ELSE IF ConfirmedRun THEN FreshWatch ELSE watch
    /\ UNCHANGED <<stored, thing, holder, phase, ver, seen, faults, history>>

SeeStopped ==
    /\ row /\ box = "up" /\ proc = 0 /\ seen = "nothing"
    /\ watch' = [watch EXCEPT !.prev_down = TRUE]
    /\ seen' = IF watch.quarantined THEN "nothing" ELSE IF disk = 0 THEN "lost" ELSE "dead"
    /\ UNCHANGED <<stored, thing, holder, phase, ver, faults, history>>

(* One more failure; at the limit no further attempt is made. *)
Counted == [watch EXCEPT !.count = @ + 1, !.quarantined = watch.count + 1 >= Quarantine]

(* The lock is only probed, est_verrouille; the delay before the next *)
(* attempt may not be over.                                           *)
Skip ==
    /\ seen # "nothing"
    /\ seen' = "nothing"
    /\ UNCHANGED <<stored, thing, holder, phase, ver, watch, faults, history>>

RepairLost ==
    /\ seen = "lost" /\ holder = NoOne
    /\ seen' = "nothing"
    /\ phase' = IF phase[Repair] = "idle" THEN [phase EXCEPT ![Repair] = "wait"] ELSE phase
    /\ watch' = Counted
    /\ UNCHANGED <<stored, thing, holder, ver, faults, history>>

(* POST /start, counted whatever the agent answers. *)
StartAgain ==
    /\ seen = "dead" /\ holder = NoOne
    /\ seen' = "nothing"
    /\ box = "up"
    /\ proc' \in IF proc = 0 THEN {0, disk} ELSE {proc}
    /\ watch' = Counted
    /\ UNCHANGED <<stored, box, disk, holder, phase, ver, faults, history>>

(***************************************************************************)
(* What happens to the container and to the service.                       *)
(***************************************************************************)
Fault == faults < MaxFaults /\ faults' = faults + 1

(* A script runs for SCRIPT_STABLE_S, or ends by itself. *)
Lasts ==
    /\ box = "up" /\ proc # 0 /\ proc \notin Bad
    /\ ~ watch.prev_down /\ ~ watch.long
    /\ watch' = [watch EXCEPT !.long = TRUE]
    /\ UNCHANGED <<stored, thing, holder, phase, ver, seen, faults, history>>

Dies ==
    /\ proc \in Bad
    /\ proc' = 0
    /\ UNCHANGED <<stored, box, disk, holder, phase, ver, seen, watch, faults, history>>

(* The box is stopped, or recreated empty by its node. *)
BoxLost ==
    /\ Fault
    /\ box = "up" /\ proc' = 0
    /\ \/ box' = "exited" /\ UNCHANGED disk
       \/ disk' = 0 /\ UNCHANGED box
    /\ UNCHANGED <<stored, holder, phase, ver, seen, watch, history>>

(* A thread never comes back from a call. *)
Hang(p) ==
    /\ Fault
    /\ phase[p] \in Body
    /\ Go(p, "hung") /\ tainted' = TRUE
    /\ UNCHANGED <<stored, thing, holder, ver, seen, watch, blind>>

(* The service restarts: its threads, its locks, its counts are gone. *)
Crash ==
    /\ Fault
    /\ phase' = [p \in Procs |->
                    IF p \in Outside \/ phase[p] = "idle" THEN phase[p]
                    ELSE IF p = Repair THEN "idle" ELSE "done"]
    /\ holder' = NoOne
    /\ seen' = "nothing" /\ watch' = FreshWatch
    /\ tainted' = (tainted \/ InBody \cap (Inside \cup {Repair}) # {})
    /\ ver' = [p \in Procs |-> IF p \in Outside THEN ver[p] ELSE Brought(p)]
    /\ blind' = FALSE
    /\ UNCHANGED <<stored, thing>>

Deploy(p) == Look(p) \/ Run(p) \/ Push(p) \/ Persist(p) \/ Relaunch(p)
Destroy(p) == Remove(p) \/ Forget(p)
Step(p) == Deploy(p) \/ Destroy(p) \/ Start(p)

Act == RepairLost \/ StartAgain

Next ==
    \/ \E p \in Inside : Ask(p)
    \/ \E p \in Outside : Launch(p)
    \/ \E p \in Procs : Enter(p) \/ GiveUp(p) \/ Step(p) \/ Hang(p)
    \/ Check
    \/ SeeRunning \/ SeeStopped \/ Act \/ Skip
    \/ Lasts \/ Dies \/ BoxLost \/ Crash

Spec == Init /\ [][Next]_vars

(* A wait ends, with the lock or by its timeout; the calls of a body that  *)
(* is not hung return; the surveillance goes on, and the delay between two *)
(* attempts, which is bounded, is over now and then; time passes.          *)
Fairness ==
    /\ \A p \in Procs : WF_vars(Enter(p) \/ GiveUp(p)) /\ WF_vars(Step(p))
    /\ WF_vars(Check)
    /\ WF_vars(SeeRunning) /\ WF_vars(SeeStopped) /\ WF_vars(Skip) /\ SF_vars(Act)
    /\ WF_vars(Lasts) /\ WF_vars(Dies)

FairSpec == Spec /\ Fairness

(***************************************************************************)
(* Properties.                                                             *)
(***************************************************************************)
Rest == InBody = {}

(* Once the operations have ended, the script on the disk is the one of    *)
(* the configuration in the database, and no box outlives its row, unless  *)
(* an operation went on without the lock, was cut short or failed halfway  *)
(* since the last deployment (vmlocks.py:10-14).                           *)
SerialIsSound ==
    Rest /\ ~ tainted => disk \in {0, cfg} /\ (row \/ box = "absent")

(* A repair puts the configuration of the database back: it undoes no      *)
(* deployment, by another process among others, unless it began while the  *)
(* repair was under way or had nothing on the disk when the repair looked  *)
(* (metrics.py:90-110).                                                    *)
RepairKeepsNewer ==
    [][phase[Repair] = "persist" /\ phase'[Repair] = "relaunch" /\ cfg' # cfg
         => blind]_vars

(* Nobody waits for ever, whatever became of the holder of the lock        *)
(* (vmlocks.py:30-36).                                                     *)
OperationsEnd == \A p \in Inside \cup {Repair} : (phase[p] = "wait") ~> (phase[p] # "wait")

(* In the end the script of a box that is up runs, or the surveillance has *)
(* given up on it: no loop of restarts without end (metrics.py:2594-2599). *)
(* A thread hung with the lock leaves it alone: the probe says busy.       *)
Settled ==
    <>[](row /\ box = "up" => \/ proc # 0 \/ watch.quarantined
                              \/ holder # NoOne /\ phase[holder] = "hung")
=============================================================================
