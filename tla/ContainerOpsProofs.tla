------------------------- MODULE ContainerOpsProofs -------------------------
(***************************************************************************)
(* Theorems on the operations on a container, for any operations inside    *)
(* and outside of the service, any configurations and any faults.          *)
(***************************************************************************)
EXTENDS ContainerOps, TLAPS

(* Types of what the theorems are about; the memory of the surveillance is *)
(* of no import to them.                                                   *)
Typed ==
    /\ row \in BOOLEAN /\ cfg \in Configs
    /\ box \in {"absent", "exited", "up"} /\ disk \in Configs \cup {0}
    /\ holder \in Procs \cup {NoOne}
    /\ phase \in [Procs -> Waiting \cup Body \cup {"hung"}]
    /\ ver \in [Procs -> Configs]
    /\ blind \in BOOLEAN /\ tainted \in BOOLEAN

(* The bodies that may still change the disk, the box or the row. *)
Working == {p \in InBody : phase[p] # "relaunch"}

(* The lock belongs to an operation of this process.                       *)
InsideOnly ==
    /\ holder \notin Outside
    /\ \A p \in Outside : phase[p] # "wait"

(* Database, disk and box agree. *)
Agree == disk \in {0, cfg} /\ (row \/ box = "absent")

(* What the lock has ordered: its holder alone works, and what it leaves   *)
(* half done is what its next step completes.                              *)
Ordered ==
    ~ tainted =>
        /\ Working \subseteq {holder}
        /\ \A p \in Working :
              /\ phase[p] \in {"run", "push", "persist"} => row
              /\ phase[p] = "persist" => disk \in {0, ver[p]}
              /\ phase[p] = "forget" => box = "absent" /\ disk = 0
              /\ phase[p] # "persist" => Agree
        /\ Working = {} => Agree

(* A repair that could see all there was to see is alone, and brings the   *)
(* configuration of the database.                                          *)
RepairIsCurrent ==
    phase[Repair] \in Body \ {"check"} /\ ~ blind =>
        /\ InBody = {Repair}
        /\ phase[Repair] # "relaunch" => ver[Repair] = cfg

(* A repair takes the steps of a deployment only. *)
RepairDeploys ==
    phase[Repair] \in {"idle", "wait", "check", "look", "run", "push", "persist", "relaunch", "hung"}

OpsInv == Typed /\ InsideOnly /\ Ordered /\ RepairIsCurrent /\ RepairDeploys

(* No configuration is the empty disk, and what each operation brings is   *)
(* a configuration.                                                        *)
LEMMA ConfigsAreScripts ==
    ASSUME ContainerAssumption
    PROVE  /\ 0 \notin Configs /\ First \in Configs
           /\ \A p \in Procs : Brought(p) \in Configs
           /\ Repair \in Procs /\ NoOne \notin Procs
           /\ Repair \notin Operations
           /\ \A p \in Outside : p \in Procs /\ p # Repair
           /\ \A p \in Inside : p \in Procs /\ p # Repair /\ p \notin Outside
BY DEF ContainerAssumption, Configs, First, Brought, Procs, Operations

LEMMA OpsInitially == ASSUME ContainerAssumption PROVE Init => OpsInv
<1> SUFFICES ASSUME Init PROVE OpsInv
  OBVIOUS
<1> USE ConfigsAreScripts DEF Init
<1>1. Typed
  BY DEF Typed, Waiting
<1>2. \A p \in Procs : phase[p] = "idle"
  OBVIOUS
<1>3. InsideOnly /\ RepairDeploys /\ RepairIsCurrent
  BY <1>2 DEF InsideOnly, RepairDeploys, RepairIsCurrent, Body
<1>4. Working = {} /\ Agree
  BY <1>2 DEF Working, InBody, Body, Agree
<1> QED
  BY <1>1, <1>3, <1>4 DEF OpsInv, Ordered

(***************************************************************************)
(* What a step leaves alone.                                               *)
(***************************************************************************)
(* The steps of the surveillance and of the script: none of the state of   *)
(* the operations.                                                         *)
Quiet == UNCHANGED <<row, cfg, box, disk, holder, phase, ver, blind, tainted>>

LEMMA QuietSteps ==
    ASSUME SeeRunning \/ SeeStopped \/ Skip \/ StartAgain \/ Lasts \/ Dies \/ UNCHANGED vars
    PROVE  Quiet
BY DEF Quiet, SeeRunning, SeeStopped, Skip, StartAgain, Lasts, Dies, vars, stored, thing, history

LEMMA QuietKeeps == ASSUME OpsInv, Quiet PROVE OpsInv'
BY DEF OpsInv, Quiet, Typed, InsideOnly, Ordered, RepairIsCurrent, RepairDeploys, Working, InBody,
       Agree

(* Somebody begins to wait. *)
Waits(p) == phase' = [phase EXCEPT ![p] = "wait"]
            /\ UNCHANGED <<row, cfg, box, disk, holder, ver, blind, tainted>>

LEMMA AskWaits == ASSUME NEW p \in Procs, Ask(p) PROVE Waits(p) /\ p \in Inside /\ phase[p] = "idle"
BY DEF Ask, Waits, Go, stored, thing, history

LEMMA RepairWaits ==
    ASSUME RepairLost PROVE Quiet \/ (Waits(Repair) /\ phase[Repair] = "idle")
BY DEF RepairLost, Waits, Quiet, stored, thing, history

(* A step of a deployment, a destruction or a restart is a step of a body. *)
LEMMA StepIsBody ==
    ASSUME NEW p \in Procs, Step(p)
    PROVE  phase[p] \in {"look", "run", "push", "persist", "relaunch", "remove", "forget", "start"}
BY DEF Step, Deploy, Destroy, Look, Run, Push, Persist, Relaunch, Remove, Forget, Start

(***************************************************************************)
(* Types, and who may wait.                                                *)
(***************************************************************************)
Base == Typed /\ InsideOnly /\ RepairDeploys

(* The end of a body. *)
LEMMA LeaveKeeps ==
    ASSUME ContainerAssumption, Base, NEW p \in Procs, Leave(p),
           row' \in BOOLEAN, cfg' \in Configs, box' \in {"absent", "exited", "up"},
           disk' \in Configs \cup {0}, tainted' \in BOOLEAN
    PROVE  Base'
<1>1. phase' = [phase EXCEPT ![p] = IF p = Repair THEN "idle" ELSE "done"]
      /\ holder' = (IF holder = p THEN NoOne ELSE holder)
      /\ ver' = [ver EXCEPT ![p] = Brought(p)] /\ blind' = (blind /\ p # Repair)
  BY DEF Leave, Go
<1>2. Typed'
  BY <1>1, ConfigsAreScripts DEF Base, Typed, Waiting
<1>3. InsideOnly'
  BY <1>1, ConfigsAreScripts DEF Base, Typed, InsideOnly
<1>4. RepairDeploys'
  BY <1>1, ConfigsAreScripts DEF Base, Typed, RepairDeploys
<1> QED
  BY <1>2, <1>3, <1>4 DEF Base

(* The next step of a body. *)
LEMMA GotoKeeps ==
    ASSUME ContainerAssumption, Base, NEW p \in Procs,
           NEW there \in {"run", "push", "persist", "relaunch", "forget"},
           Goto(p, there), p = Repair => there # "forget",
           row' \in BOOLEAN, cfg' \in Configs, box' \in {"absent", "exited", "up"},
           disk' \in Configs \cup {0}, tainted' \in BOOLEAN
    PROVE  Base'
<1>1. phase' = [phase EXCEPT ![p] = there] /\ UNCHANGED <<holder, ver, blind>>
  BY DEF Goto, Go
<1>2. Typed'
  BY <1>1, ConfigsAreScripts DEF Base, Typed, Body
<1>3. InsideOnly' /\ RepairDeploys'
  BY <1>1, ConfigsAreScripts DEF Base, Typed, InsideOnly, RepairDeploys
<1> QED
  BY <1>2, <1>3 DEF Base

(* A body begins. *)
LEMMA BeginKeeps ==
    ASSUME ContainerAssumption, Base, NEW p \in Procs, Begin(p),
           holder' \in {holder, p}, p \notin Outside,
           UNCHANGED <<row, cfg, box, disk, ver>>, tainted' \in BOOLEAN
    PROVE  Base'
<1>1. PICK there \in BodyOf(p) : phase' = [phase EXCEPT ![p] = there]
  BY DEF Begin, Go
<1>2. there \in {"check", "look", "remove", "start"} /\ (p = Repair => there = "check")
  BY <1>1 DEF BodyOf
<1>3. blind' \in BOOLEAN
  BY DEF Begin, News, Base, Typed
<1>4. Typed'
  BY <1>1, <1>2, <1>3, ConfigsAreScripts DEF Base, Typed, Body
<1>5. InsideOnly' /\ RepairDeploys'
  BY <1>1, <1>2, ConfigsAreScripts DEF Base, Typed, InsideOnly, RepairDeploys
<1> QED
  BY <1>4, <1>5 DEF Base

LEMMA WaitsKeeps ==
    ASSUME ContainerAssumption, Base, NEW p \in Procs, Waits(p), p \notin Outside PROVE Base'
<1>1. Typed'
  BY DEF Base, Waits, Typed, Waiting
<1>2. InsideOnly' /\ RepairDeploys'
  BY ConfigsAreScripts DEF Base, Waits, Typed, InsideOnly, RepairDeploys
<1> QED
  BY <1>1, <1>2 DEF Base

LEMMA StepKeepsBase ==
    ASSUME ContainerAssumption, Base, NEW p \in Procs, Step(p) PROVE Base'
<1> USE DEF stored, thing, history
<1>1. Typed /\ ver[p] \in Configs /\ (phase[p] \in {"remove", "forget", "start"} => p # Repair)
  BY ConfigsAreScripts DEF Base, Typed, RepairDeploys
<1> DEFINE Fine == /\ row' \in BOOLEAN /\ cfg' \in Configs /\ box' \in {"absent", "exited", "up"}
                   /\ disk' \in Configs \cup {0} /\ tainted' \in BOOLEAN
<1>2. ASSUME Leave(p), Fine PROVE Base'
  BY <1>2, LeaveKeeps
<1>3. ASSUME NEW there \in {"run", "push", "persist", "relaunch"}, Goto(p, there), Fine PROVE Base'
  BY <1>3, GotoKeeps
<1>4. CASE Look(p)
  BY <1>1, <1>2, <1>3, <1>4 DEF Look, Typed
<1>5. CASE Run(p)
  BY <1>1, <1>2, <1>3, <1>5 DEF Run, Typed
<1>6. CASE Push(p)
  BY <1>1, <1>2, <1>3, <1>6 DEF Push, Typed
<1>7. CASE Persist(p)
  BY <1>1, <1>2, <1>3, <1>7 DEF Persist, Typed
<1>8. CASE Relaunch(p)
  BY <1>1, <1>2, <1>8 DEF Relaunch, Typed
<1>9. CASE Remove(p)
  <2>1. Fine /\ p # Repair /\ (Leave(p) \/ Goto(p, "forget"))
    BY <1>1, <1>9 DEF Remove, Typed
  <2> QED
    BY <2>1, <1>2, GotoKeeps
<1>10. CASE Forget(p)
  BY <1>1, <1>2, <1>10 DEF Forget, Typed
<1>11. CASE Start(p)
  <2>1. Fine /\ p # Repair
    BY <1>1, <1>11 DEF Start, Typed
  <2>2. CASE ver' = [ver EXCEPT ![p] = cfg] /\ Go(p, "look") /\ UNCHANGED <<holder, blind>>
    <3>1. Typed'
      BY <1>1, <2>1, <2>2 DEF Typed, Go, Body
    <3>2. InsideOnly' /\ RepairDeploys'
      BY <2>1, <2>2, ConfigsAreScripts DEF Base, Typed, Go, InsideOnly, RepairDeploys
    <3> QED
      BY <3>1, <3>2 DEF Base
  <2>3. CASE Leave(p)
    BY <2>1, <2>3, <1>2
  <2> QED
    BY <1>11, <2>2, <2>3 DEF Start
<1> QED
  BY <1>4, <1>5, <1>6, <1>7, <1>8, <1>9, <1>10, <1>11 DEF Step, Deploy, Destroy

LEMMA BaseLasts == ASSUME ContainerAssumption, OpsInv, [Next]_vars PROVE Base'
<1> USE DEF stored, thing, history
<1>1. Base
  BY DEF OpsInv, Base
<1>2. CASE Quiet
  BY <1>2, QuietKeeps DEF OpsInv, Base
<1>3. ASSUME NEW p \in Inside, Ask(p) PROVE Base'
  BY <1>1, <1>3, AskWaits, WaitsKeeps, ConfigsAreScripts
<1>4. CASE RepairLost
  BY <1>1, <1>2, <1>4, RepairWaits, WaitsKeeps, ConfigsAreScripts
<1>5. ASSUME NEW p \in Outside, Launch(p) PROVE Base'
  <2>1. phase' = [phase EXCEPT ![p] = "look"] /\ blind' \in BOOLEAN /\ tainted' = TRUE
        /\ UNCHANGED <<row, cfg, box, disk, holder, ver>>
    BY <1>1, <1>5 DEF Launch, Go, News, Base, Typed
  <2>2. Typed'
    BY <1>1, <2>1 DEF Base, Typed, Body
  <2>3. InsideOnly' /\ RepairDeploys'
    BY <1>1, <2>1, ConfigsAreScripts DEF Base, Typed, InsideOnly, RepairDeploys
  <2> QED
    BY <2>2, <2>3 DEF Base
<1>6. ASSUME NEW p \in Procs, Enter(p) \/ GiveUp(p) PROVE Base'
  <2>1. /\ Begin(p) /\ holder' \in {holder, p} /\ p \notin Outside
        /\ UNCHANGED <<row, cfg, box, disk, ver>> /\ tainted' \in BOOLEAN
    BY <1>1, <1>6 DEF Enter, GiveUp, Base, Typed, InsideOnly
  <2> QED
    BY <1>1, <2>1, BeginKeeps
<1>7. ASSUME NEW p \in Procs, Hang(p) PROVE Base'
  <2>1. phase' = [phase EXCEPT ![p] = "hung"] /\ tainted' = TRUE
        /\ UNCHANGED <<row, cfg, box, disk, holder, ver, blind>>
    BY <1>7 DEF Hang, Go
  <2>2. Typed'
    BY <1>1, <2>1 DEF Base, Typed
  <2>3. InsideOnly' /\ RepairDeploys'
    BY <1>1, <2>1, ConfigsAreScripts DEF Base, Typed, InsideOnly, RepairDeploys
  <2> QED
    BY <2>2, <2>3 DEF Base
<1>8. CASE Check
  <2>1. CASE Leave(Repair) /\ UNCHANGED <<row, cfg, box, disk, tainted>>
    BY <1>1, <2>1, LeaveKeeps, ConfigsAreScripts DEF Base, Typed
  <2>2. CASE /\ ver' = [ver EXCEPT ![Repair] = cfg] /\ blind' \in BOOLEAN
             /\ phase' = [phase EXCEPT ![Repair] = "look"]
             /\ UNCHANGED <<row, cfg, box, disk, tainted, holder>>
    <3>1. Typed'
      BY <1>1, <2>2 DEF Base, Typed, Body
    <3>2. InsideOnly' /\ RepairDeploys'
      BY <1>1, <2>2, ConfigsAreScripts DEF Base, Typed, InsideOnly, RepairDeploys
    <3> QED
      BY <3>1, <3>2 DEF Base
  <2> QED
    BY <1>8, <2>1, <2>2 DEF Check, Go
<1>9. CASE BoxLost
  BY <1>1, <1>9 DEF BoxLost, Base, Typed, InsideOnly, RepairDeploys
<1>10. CASE Crash
  <2>1. /\ phase' = [p \in Procs |-> IF p \in Outside \/ phase[p] = "idle" THEN phase[p]
                                     ELSE IF p = Repair THEN "idle" ELSE "done"]
        /\ ver' = [p \in Procs |-> IF p \in Outside THEN ver[p] ELSE Brought(p)]
        /\ holder' = NoOne /\ blind' = FALSE /\ tainted' \in BOOLEAN
        /\ UNCHANGED <<row, cfg, box, disk>>
    BY <1>1, <1>10 DEF Crash, Base, Typed
  <2>2. Typed'
    BY <1>1, <2>1, ConfigsAreScripts DEF Base, Typed, Waiting
  <2>3. InsideOnly' /\ RepairDeploys'
    BY <1>1, <2>1, ConfigsAreScripts DEF Base, Typed, InsideOnly, RepairDeploys
  <2> QED
    BY <2>2, <2>3 DEF Base
<1> QED
  BY <1>1, <1>2, <1>3, <1>4, <1>5, <1>6, <1>7, <1>8, <1>9, <1>10, StepKeepsBase, QuietSteps
     DEF Next, Act

(***************************************************************************)
(* What the lock has ordered.                                              *)
(***************************************************************************)
(* Unless it is tainted, who works holds the lock and is alone. *)
LEMMA WorksAlone ==
    ASSUME OpsInv, ~ tainted, NEW p \in Procs, phase[p] \in Body, phase[p] # "relaunch"
    PROVE  /\ p = holder
           /\ \A q \in Procs : q # p /\ phase[q] \in Body => phase[q] = "relaunch"
           /\ phase[p] \in {"run", "push", "persist"} => row
           /\ phase[p] = "persist" => disk \in {0, ver[p]}
           /\ phase[p] = "forget" => box = "absent" /\ disk = 0
           /\ phase[p] # "persist" => Agree
BY DEF OpsInv, Ordered, Working, InBody

(* The end of the only one that works. *)
LEMMA EndIsOrdered ==
    ASSUME ContainerAssumption, OpsInv, NEW p \in Procs, Leave(p), Agree',
           \A q \in Procs : q # p /\ phase[q] \in Body => phase[q] = "relaunch"
    PROVE  Ordered'
<1>1. phase' = [phase EXCEPT ![p] = IF p = Repair THEN "idle" ELSE "done"]
  BY DEF Leave, Go
<1>2. \A q \in Procs : phase'[q] \in Body => phase'[q] = "relaunch"
  BY <1>1 DEF OpsInv, Typed, Body
<1>3. Working' = {}
  BY <1>2 DEF Working, InBody
<1> QED
  BY <1>3 DEF Ordered

(* The next step of the only one that works. *)
LEMMA NextIsOrdered ==
    ASSUME OpsInv, NEW p \in Procs, NEW there \in Body, phase' = [phase EXCEPT ![p] = there],
           \A q \in Procs : q # p /\ phase[q] \in Body => phase[q] = "relaunch",
           there # "relaunch" => holder' = p,
           there \in {"run", "push", "persist"} => row',
           there = "persist" => disk' \in {0, ver'[p]},
           there = "forget" => box' = "absent" /\ disk' = 0,
           there # "persist" => Agree'
    PROVE  Ordered'
<1>1. \A q \in Procs : phase'[q] \in Body /\ phase'[q] # "relaunch" => q = p /\ phase'[q] = there
  BY DEF OpsInv, Typed
<1>2. \A q \in Working' : q = p /\ phase'[q] = there /\ there # "relaunch"
  BY <1>1 DEF Working, InBody
<1>3. Working' = {} => Agree'
  <2>1. phase'[p] = there
    BY DEF OpsInv, Typed
  <2>2. there # "relaunch" => p \in Working'
    BY <2>1 DEF Working, InBody
  <2> QED
    BY <2>2
<1> QED
  BY <1>2, <1>3 DEF Ordered

LEMMA StepKeepsOrder ==
    ASSUME ContainerAssumption, OpsInv, NEW p \in Procs, Step(p) PROVE Ordered'
<1> SUFFICES ASSUME ~ tainted' PROVE Ordered'
  BY DEF Ordered
<1> USE DEF stored, thing, history
<1>1. Typed /\ ver[p] \in Configs /\ tainted \in BOOLEAN
  BY DEF OpsInv, Typed
<1> DEFINE Alone == \A q \in Procs : q # p /\ phase[q] \in Body => phase[q] = "relaunch"
<1>2. CASE Look(p)
  <2>1. phase[p] = "look" /\ ~ tainted /\ UNCHANGED <<row, cfg, box, disk>>
    BY <1>2 DEF Look
  <2>2. Alone /\ holder = p /\ Agree'
    BY <2>1, WorksAlone DEF Body, Agree
  <2>3. CASE row /\ Goto(p, "run")
    BY <2>1, <2>2, <2>3, NextIsOrdered DEF Goto, Go, Body
  <2>4. CASE Leave(p)
    BY <2>2, <2>4, EndIsOrdered
  <2> QED
    BY <1>2, <2>3, <2>4 DEF Look
<1>3. CASE Run(p)
  <2>1. phase[p] = "run" /\ ~ tainted /\ UNCHANGED <<row, cfg>>
    BY <1>3 DEF Run
  <2>2. Alone /\ holder = p /\ row /\ Agree
    BY <2>1, WorksAlone DEF Body
  <2>3. Agree'
    BY <1>3, <2>1, <2>2 DEF Run, Agree
  <2>4. CASE Goto(p, "push")
    BY <2>1, <2>2, <2>3, <2>4, NextIsOrdered DEF Goto, Go, Body
  <2>5. CASE Leave(p)
    BY <2>2, <2>3, <2>5, EndIsOrdered
  <2> QED
    BY <1>3, <2>4, <2>5 DEF Run
<1>4. CASE Push(p)
  <2>1. phase[p] = "push" /\ ~ tainted /\ UNCHANGED <<row, cfg, box>>
    BY <1>4 DEF Push
  <2>2. Alone /\ holder = p /\ row /\ Agree
    BY <2>1, WorksAlone DEF Body
  <2>3. CASE disk' = ver[p] /\ Goto(p, "persist")
    BY <2>1, <2>2, <2>3, NextIsOrdered DEF Goto, Go, Body
  <2>4. CASE Leave(p) /\ UNCHANGED disk
    BY <2>1, <2>2, <2>4, EndIsOrdered DEF Agree
  <2> QED
    BY <1>4, <2>3, <2>4 DEF Push
<1>5. CASE Persist(p)
  <2>1. phase[p] = "persist" /\ UNCHANGED <<row, box, disk>> /\ Goto(p, "relaunch")
        /\ cfg' = (IF row THEN ver[p] ELSE cfg)
        /\ tainted' = (tainted /\ ~ (InBody = {p} /\ row /\ disk = ver[p]))
    BY <1>5 DEF Persist
  <2>2. CASE ~ tainted
    <3>1. Alone /\ row /\ disk \in {0, ver[p]}
      BY <2>1, <2>2, WorksAlone DEF Body
    <3>2. Agree'
      BY <2>1, <3>1 DEF Agree
    <3> QED
      BY <2>1, <3>1, <3>2, NextIsOrdered DEF Goto, Go, Body
  <2>3. CASE tainted
    <3>1. InBody = {p} /\ row /\ disk = ver[p]
      BY <2>1, <2>3
    <3>2. Alone
      BY <3>1 DEF InBody
    <3>3. Agree'
      BY <2>1, <3>1 DEF Agree
    <3> QED
      BY <2>1, <3>2, <3>3, NextIsOrdered DEF Goto, Go, Body
  <2> QED
    BY <1>1, <2>2, <2>3
<1>6. CASE Relaunch(p)
  <2>1. phase[p] = "relaunch" /\ ~ tainted /\ UNCHANGED <<row, cfg, box, disk, tainted>>
        /\ phase' = [phase EXCEPT ![p] = IF p = Repair THEN "idle" ELSE "done"]
        /\ holder' = (IF holder = p THEN NoOne ELSE holder)
        /\ ver' = [ver EXCEPT ![p] = Brought(p)]
    BY <1>6 DEF Relaunch, Leave, Go
  <2>2. \A q \in Procs : q \in Working' <=> q \in Working
    BY <1>1, <2>1 DEF Working, InBody, Typed, Body
  <2>3. Working' = Working /\ p \notin Working
    BY <2>1, <2>2 DEF Working, InBody
  <2>4. \A q \in Working : phase'[q] = phase[q] /\ ver'[q] = ver[q]
    BY <1>1, <2>1, <2>3 DEF Working, InBody, Typed
  <2>5. Ordered /\ Agree' = Agree
    BY <2>1 DEF OpsInv, Agree
  <2>6. Working \subseteq {holder'}
    BY <2>1, <2>3, <2>5 DEF Ordered
  <2>7. \A q \in Working' :
          /\ phase'[q] \in {"run", "push", "persist"} => row'
          /\ phase'[q] = "persist" => disk' \in {0, ver'[q]}
          /\ phase'[q] = "forget" => box' = "absent" /\ disk' = 0
          /\ phase'[q] # "persist" => Agree'
    BY <2>1, <2>3, <2>4, <2>5 DEF Ordered
  <2>8. Working' = {} => Agree'
    BY <2>1, <2>3, <2>5 DEF Ordered
  <2> QED
    BY <2>3, <2>6, <2>7, <2>8 DEF Ordered
<1>7. CASE Remove(p)
  <2>1. phase[p] = "remove" /\ ~ tainted /\ UNCHANGED <<row, cfg>>
    BY <1>7 DEF Remove
  <2>2. Alone /\ holder = p /\ Agree
    BY <2>1, WorksAlone DEF Body
  <2>3. CASE Leave(p) /\ UNCHANGED <<box, disk>>
    BY <2>1, <2>2, <2>3, EndIsOrdered DEF Agree
  <2>4. CASE box' = "absent" /\ disk' = 0 /\ Goto(p, "forget")
    <3>1. Agree'
      BY <2>4 DEF Agree
    <3> QED
      BY <2>2, <2>4, <3>1, NextIsOrdered DEF Goto, Go, Body
  <2> QED
    BY <1>7, <2>3, <2>4 DEF Remove
<1>8. CASE Forget(p)
  <2>1. phase[p] = "forget" /\ ~ tainted /\ UNCHANGED <<cfg, box, disk>> /\ Leave(p)
    BY <1>8 DEF Forget
  <2>2. Alone /\ box = "absent" /\ disk = 0
    BY <2>1, WorksAlone DEF Body
  <2>3. Agree'
    BY <2>1, <2>2 DEF Agree
  <2> QED
    BY <2>1, <2>2, <2>3, EndIsOrdered
<1>9. CASE Start(p)
  <2>1. phase[p] = "start" /\ ~ tainted /\ UNCHANGED <<row, cfg, disk>>
    BY <1>9 DEF Start
  <2>2. Alone /\ holder = p /\ Agree
    BY <2>1, WorksAlone DEF Body
  <2>3. Agree'
    BY <1>9, <2>1, <2>2 DEF Start, Agree
  <2>4. CASE Go(p, "look") /\ UNCHANGED holder
    BY <2>2, <2>3, <2>4, NextIsOrdered DEF Go, Body
  <2>5. CASE Leave(p)
    BY <2>2, <2>3, <2>5, EndIsOrdered
  <2> QED
    BY <1>9, <2>4, <2>5 DEF Start
<1> QED
  BY <1>2, <1>3, <1>4, <1>5, <1>6, <1>7, <1>8, <1>9 DEF Step, Deploy, Destroy

LEMMA OrderLasts == ASSUME ContainerAssumption, OpsInv, [Next]_vars PROVE Ordered'
<1> SUFFICES ASSUME ~ tainted' PROVE Ordered'
  BY DEF Ordered
<1> USE DEF stored, thing, history
<1>1. Typed /\ Ordered
  BY DEF OpsInv
<1>2. CASE Quiet
  BY <1>2, QuietKeeps DEF OpsInv
<1>3. ASSUME NEW p \in Procs, Waits(p), phase[p] = "idle" PROVE Ordered'
  <2>1. \A q \in Procs : q \in Working' <=> q \in Working
    BY <1>1, <1>3 DEF Waits, Typed, Working, InBody, Body
  <2>2. Working' = Working /\ \A q \in Working : phase'[q] = phase[q]
    BY <1>1, <1>3, <2>1 DEF Waits, Typed, Working, InBody, Body
  <2> QED
    BY <1>1, <1>3, <2>2 DEF Waits, Ordered, Agree
<1>4. ASSUME NEW p \in Inside, Ask(p) PROVE Ordered'
  BY <1>3, <1>4, AskWaits, ConfigsAreScripts
<1>5. CASE RepairLost
  BY <1>2, <1>3, <1>5, RepairWaits, ConfigsAreScripts
<1>6. ASSUME NEW p \in Procs, GiveUp(p) \/ Launch(p) \/ Hang(p) PROVE FALSE
  BY <1>6 DEF GiveUp, Launch, Hang
<1>7. ASSUME NEW p \in Procs, Enter(p) PROVE Ordered'
  <2>1. /\ ~ tainted /\ holder = NoOne /\ holder' = p
        /\ \E there \in BodyOf(p) : phase' = [phase EXCEPT ![p] = there]
        /\ UNCHANGED <<row, cfg, box, disk, ver>>
    BY <1>7 DEF Enter, Begin, Go
  <2>2. PICK there \in {"check", "look", "remove", "start"} : phase' = [phase EXCEPT ![p] = there]
    BY <2>1 DEF BodyOf
  <2>3. Working = {}
    BY <1>1, <2>1, ConfigsAreScripts DEF Ordered, Working, InBody
  <2>4. \A q \in Procs : phase[q] \in Body => phase[q] = "relaunch"
    BY <2>3 DEF Working, InBody
  <2>5. Agree'
    BY <1>1, <2>1, <2>3 DEF Ordered, Agree
  <2> QED
    BY <2>1, <2>2, <2>4, <2>5, NextIsOrdered DEF Body
<1>8. CASE Check
  <2>1. phase[Repair] = "check" /\ ~ tainted /\ UNCHANGED <<row, cfg, box, disk>>
    BY <1>8 DEF Check
  <2>2. /\ \A q \in Procs : q # Repair /\ phase[q] \in Body => phase[q] = "relaunch"
        /\ holder = Repair /\ Agree /\ Repair \in Procs
    BY <2>1, WorksAlone, ConfigsAreScripts DEF Body
  <2>3. Agree'
    BY <2>1, <2>2 DEF Agree
  <2>4. CASE Go(Repair, "look") /\ UNCHANGED holder
    BY <2>2, <2>3, <2>4, NextIsOrdered DEF Go, Body
  <2>5. CASE Leave(Repair)
    BY <2>2, <2>3, <2>5, EndIsOrdered
  <2> QED
    BY <1>8, <2>4, <2>5 DEF Check
<1>9. CASE BoxLost
  <2>1. /\ box = "up" /\ UNCHANGED <<row, cfg, holder, phase, ver, tainted>>
        /\ \/ box' = "exited" /\ UNCHANGED disk
           \/ disk' = 0 /\ UNCHANGED box
    BY <1>9 DEF BoxLost
  <2>2. Working' = Working
    BY <2>1 DEF Working, InBody
  <2>3. Agree => Agree'
    BY <2>1 DEF Agree
  <2> QED
    BY <1>1, <2>1, <2>2, <2>3 DEF Ordered
<1>10. CASE Crash
  <2>1. /\ phase' = [p \in Procs |-> IF p \in Outside \/ phase[p] = "idle" THEN phase[p]
                                     ELSE IF p = Repair THEN "idle" ELSE "done"]
        /\ ~ tainted /\ InBody \cap (Inside \cup {Repair}) = {}
        /\ UNCHANGED <<row, cfg, box, disk>>
    BY <1>10 DEF Crash
  <2>2. \A p \in Procs : p \in Outside \/ phase[p] \notin Body
    BY <2>1 DEF InBody, Procs, Operations
  <2>3. \A p \in Working : p \in Outside
    BY <2>2 DEF Working, InBody
  <2>4. Working = {}
    BY <1>1, <2>1, <2>3 DEF Ordered, OpsInv, InsideOnly
  <2>5. \A p \in Procs : phase'[p] \in Body => phase'[p] = "relaunch"
    BY <2>1, <2>4 DEF Working, InBody, Body
  <2>6. Working' = {}
    BY <2>5 DEF Working, InBody
  <2>7. Agree'
    BY <1>1, <2>1, <2>4 DEF Ordered, Agree
  <2> QED
    BY <2>6, <2>7 DEF Ordered
<1>11. \A p \in Outside : p \in Procs
  BY ConfigsAreScripts
<1> QED
  BY <1>2, <1>4, <1>5, <1>6, <1>7, <1>8, <1>9, <1>10, <1>11, StepKeepsOrder, QuietSteps
     DEF Next, Act

(***************************************************************************)
(* What a repair can see.                                                  *)
(***************************************************************************)
(* A body that begins is news to a repair under way. *)
LEMMA BeginningIsSeen ==
    ASSUME ContainerAssumption, OpsInv, NEW p \in Procs, NEW there, News,
           phase' = [phase EXCEPT ![p] = there], p = Repair => there \in {"check", "hung"}
    PROVE  RepairIsCurrent'
<1> SUFFICES ASSUME phase'[Repair] \in Body \ {"check"}, ~ blind' PROVE FALSE
  BY DEF RepairIsCurrent
<1>1. Repair \in Procs /\ phase'[Repair] = phase[Repair]
  BY ConfigsAreScripts DEF OpsInv, Typed, Body
<1>2. Repair \in InBody
  BY <1>1 DEF InBody
<1> QED
  BY <1>2 DEF News

LEMMA StepKeepsRepair ==
    ASSUME ContainerAssumption, OpsInv, NEW p \in Procs, Step(p) PROVE RepairIsCurrent'
<1> USE DEF stored, thing, history
<1> SUFFICES ASSUME phase'[Repair] \in Body \ {"check"}, ~ blind' PROVE RepairIsCurrent'
  BY DEF RepairIsCurrent
<1>1. Typed /\ Repair \in Procs /\ phase[p] \in Body /\ phase[p] # "check"
  BY StepIsBody, ConfigsAreScripts DEF OpsInv, Body
<1>2. \/ Leave(p)
      \/ Go(p, "look") /\ phase[p] = "start" /\ UNCHANGED blind
      \/ \E there \in Body : Goto(p, there) /\ (phase[p] # "persist" => UNCHANGED cfg)
                             /\ (phase[p] = "persist" => there = "relaunch")
  <2>1. CASE Look(p) \/ Run(p) \/ Push(p) \/ Relaunch(p) \/ Remove(p) \/ Forget(p)
    BY <2>1 DEF Look, Run, Push, Relaunch, Remove, Forget, Body
  <2>2. CASE Persist(p)
    BY <2>2 DEF Persist, Body
  <2>3. CASE Start(p)
    BY <2>3 DEF Start
  <2> QED
    BY <2>1, <2>2, <2>3 DEF Step, Deploy, Destroy
<1>3. CASE p = Repair
  <2>1. phase[p] # "start"
    BY <1>3 DEF OpsInv, RepairDeploys
  <2>2. ~ Leave(p)
    BY <1>1, <1>3 DEF Leave, Go, Typed, Body
  <2>3. PICK there \in Body : Goto(p, there) /\ (phase[p] # "persist" => UNCHANGED cfg)
                              /\ (phase[p] = "persist" => there = "relaunch")
    BY <1>2, <2>1, <2>2
  <2>4. ~ blind /\ phase' = [phase EXCEPT ![p] = there] /\ ver' = ver
    BY <2>3 DEF Goto, Go
  <2>5. InBody = {Repair} /\ (phase[p] # "relaunch" => ver[Repair] = cfg)
    BY <1>1, <1>3, <2>4 DEF OpsInv, RepairIsCurrent
  <2>6. InBody' = {Repair}
    BY <1>1, <1>3, <2>4, <2>5 DEF InBody, Typed
  <2>7. phase[p] # "relaunch"
    <3>1. ASSUME phase[p] = "relaunch" PROVE Relaunch(p)
      BY <3>1 DEF Step, Deploy, Destroy, Look, Run, Push, Persist, Remove, Forget, Start
    <3> QED
      BY <2>2, <3>1 DEF Relaunch
  <2>8. phase'[Repair] # "relaunch" => ver'[Repair] = cfg'
    BY <1>1, <1>3, <2>3, <2>4, <2>5, <2>7 DEF Typed
  <2> QED
    BY <2>6, <2>8 DEF RepairIsCurrent
<1>4. CASE p # Repair
  <2>1. phase'[Repair] = phase[Repair] /\ ~ blind
    BY <1>1, <1>2, <1>4 DEF Leave, Goto, Go, Typed
  <2>2. InBody = {Repair}
    BY <2>1 DEF OpsInv, RepairIsCurrent
  <2> QED
    BY <1>1, <1>4, <2>2 DEF InBody
<1> QED
  BY <1>3, <1>4

LEMMA RepairLasts == ASSUME ContainerAssumption, OpsInv, [Next]_vars PROVE RepairIsCurrent'
<1> USE DEF stored, thing, history
<1> SUFFICES ASSUME phase'[Repair] \in Body \ {"check"}, ~ blind' PROVE RepairIsCurrent'
  BY DEF RepairIsCurrent
<1>1. Typed /\ RepairIsCurrent /\ Repair \in Procs
  BY ConfigsAreScripts DEF OpsInv
<1>2. CASE Quiet
  BY <1>2, QuietKeeps DEF OpsInv
<1>3. ASSUME NEW p \in Procs, Waits(p), phase[p] = "idle" PROVE RepairIsCurrent'
  <2>1. phase' = [phase EXCEPT ![p] = "wait"] /\ UNCHANGED <<cfg, ver, blind>>
    BY <1>3 DEF Waits
  <2>2. InBody' = InBody
    BY <1>1, <1>3, <2>1 DEF InBody, Typed, Body
  <2>3. phase'[Repair] = phase[Repair]
    BY <1>1, <2>1 DEF Typed, Body
  <2> QED
    BY <1>1, <2>1, <2>2, <2>3 DEF RepairIsCurrent
<1>4. ASSUME NEW p \in Inside, Ask(p) PROVE RepairIsCurrent'
  BY <1>3, <1>4, AskWaits, ConfigsAreScripts
<1>5. CASE RepairLost
  BY <1>1, <1>2, <1>3, <1>5, RepairWaits
<1>6. ASSUME NEW p \in Outside, Launch(p) PROVE RepairIsCurrent'
  BY <1>6, BeginningIsSeen, ConfigsAreScripts DEF Launch, Go
<1>7. ASSUME NEW p \in Procs, Enter(p) \/ GiveUp(p) PROVE RepairIsCurrent'
  BY <1>7, BeginningIsSeen DEF Enter, GiveUp, Begin, BodyOf, Go
<1>8. ASSUME NEW p \in Procs, Hang(p) PROVE RepairIsCurrent'
  <2>1. phase[p] \in Body /\ phase' = [phase EXCEPT ![p] = "hung"] /\ UNCHANGED blind
    BY <1>8 DEF Hang, Go
  <2>2. p # Repair /\ phase'[Repair] = phase[Repair]
    BY <1>1, <2>1 DEF Typed, Body
  <2>3. InBody = {Repair}
    BY <1>1, <2>1, <2>2 DEF RepairIsCurrent
  <2> QED
    BY <2>1, <2>2, <2>3 DEF InBody
<1>9. CASE Check
  <2>1. ~ Leave(Repair)
    BY <1>1 DEF Leave, Go, Typed, Body
  <2>2. /\ disk = 0 /\ NotOnDisk = {} /\ UNCHANGED cfg
        /\ ver' = [ver EXCEPT ![Repair] = cfg]
        /\ phase' = [phase EXCEPT ![Repair] = "look"]
    BY <1>9, <2>1 DEF Check, Absent, Go
  <2>3. \A p \in Procs : ver[p] # 0
    BY <1>1, ConfigsAreScripts DEF Typed
  <2>4. \A p \in InBody : p = Repair
    BY <2>2, <2>3 DEF NotOnDisk, InBody
  <2>5. InBody' = {Repair}
    BY <1>1, <2>2, <2>4 DEF InBody, Typed, Body
  <2> QED
    BY <1>1, <2>2, <2>5 DEF RepairIsCurrent, Typed
<1>10. CASE BoxLost
  BY <1>1, <1>10 DEF BoxLost, RepairIsCurrent, InBody
<1>11. CASE Crash
  <2>1. phase'[Repair] = "idle"
    BY <1>1, <1>11, ConfigsAreScripts DEF Crash
  <2> QED
    BY <2>1 DEF Body
<1> QED
  BY <1>1, <1>2, <1>4, <1>5, <1>6, <1>7, <1>8, <1>9, <1>10, <1>11,
     StepKeepsRepair, QuietSteps DEF Next, Act

(***************************************************************************)
(* The theorems.                                                           *)
(***************************************************************************)
LEMMA OpsInvHolds == ASSUME ContainerAssumption PROVE Spec => []OpsInv
<1>1. OpsInv /\ [Next]_vars => OpsInv'
  BY BaseLasts, OrderLasts, RepairLasts DEF OpsInv, Base
<1> QED
  BY <1>1, OpsInitially, PTL DEF Spec

(* Once the operations have ended, the script on the disk is the one of    *)
(* the configuration in the database, and no box outlives its row, unless  *)
(* the lock was not what ordered them (vmlocks.py:10-14).                  *)
THEOREM SerialIsSoundHolds ==
    ASSUME ContainerAssumption PROVE Spec => []SerialIsSound
<1>1. OpsInv => SerialIsSound
  BY DEF OpsInv, Ordered, Working, Agree, SerialIsSound, Rest
<1> QED
  BY <1>1, OpsInvHolds, PTL

(* A repair undoes no deployment that it could see (metrics.py:90-110). *)
THEOREM RepairKeepsNewerHolds ==
    ASSUME ContainerAssumption PROVE Spec => RepairKeepsNewer
<1> DEFINE Keeps == phase[Repair] = "persist" /\ phase'[Repair] = "relaunch" /\ cfg' # cfg => blind
<1>1. OpsInv /\ [Next]_vars => [Keeps]_vars
  <2> SUFFICES ASSUME OpsInv, [Next]_vars, phase[Repair] = "persist", cfg' # cfg, ~ blind
               PROVE  FALSE
    BY DEF OpsInv, Typed
  <2> USE DEF stored, thing, history
  <2>1. InBody = {Repair} /\ ver[Repair] = cfg
    BY DEF OpsInv, RepairIsCurrent, Body
  <2>2. PICK p \in Procs : Persist(p)
    <3>1. ~ Quiet /\ ~ \E p \in Procs : Waits(p)
      BY DEF Quiet, Waits
    <3>2. \A p \in Procs : ~ (Ask(p) \/ Launch(p) \/ Enter(p) \/ GiveUp(p) \/ Hang(p))
      BY DEF Ask, Launch, Enter, GiveUp, Hang
    <3>3. \A p \in Procs : Step(p) => Persist(p)
      BY DEF Step, Deploy, Destroy, Look, Run, Push, Relaunch, Remove, Forget, Start
    <3>4. ~ (Check \/ RepairLost \/ BoxLost \/ Crash)
      BY DEF Check, RepairLost, BoxLost, Crash
    <3> QED
      BY <3>1, <3>2, <3>3, <3>4, QuietSteps, ConfigsAreScripts DEF Next, Act
  <2>3. p = Repair
    BY <2>1, <2>2 DEF Persist, InBody, Body
  <2> QED
    BY <2>1, <2>2, <2>3 DEF Persist
<1> QED
  BY <1>1, OpsInvHolds, PTL DEF Spec, RepairKeepsNewer
=============================================================================
