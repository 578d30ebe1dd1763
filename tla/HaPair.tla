------------------------------- MODULE HaPair -------------------------------
(***************************************************************************)
(* The pair of controllers of app/ha.py and app/routes/ha.py: the role     *)
(* kept in each database, the processes that drive or not according to it, *)
(* the replication of the whole database from one to the other's staging   *)
(* area, the manual promotion and demotion, and what the operator may do   *)
(* around them (role switch, peer address, power).                         *)
(*                                                                         *)
(* A database is what the properties tell apart in it: the role, the       *)
(* address of the other controller and the set of changes it holds.  A     *)
(* staged replica is complete or absent here; how the file gets there is   *)
(* the subject of ReplicaStaging.                                          *)
(***************************************************************************)
EXTENDS Naturals, FiniteSets

CONSTANTS
    Controllers,    \* the machines of the pair
    NoOne,          \* "no peer address", "no replica", "no push"
    Changes,        \* the changes users and services may write: a bound
    FirstActive,    \* the controller that drives when the pair is set up
    MaxEvents,      \* bound on crashes, power cuts and operator commands
    Rule            \* what the operator checks before handing over control

ASSUME HaPairAssumption ==
    /\ FirstActive \in Controllers
    /\ NoOne \notin Controllers
    /\ MaxEvents \in Nat
    /\ Rule \in {"stopped", "demoted"}

VARIABLES
    db,         \* the live database of each controller
    staged,     \* the replica staged on each controller, or NoOne
    kept,       \* changes held by the pre-promotion backups of each one
    proc,       \* the service: off, down, passive or driving
    restart,    \* a systemd restart of the service is scheduled
    promo,      \* progress of promote(): idle, saved, swapped
    push,       \* the snapshot each controller has on the wire, or NoOne
    made,       \* every change ever written (history)
    events      \* crashes, power cuts and commands so far

vars == <<db, staged, kept, proc, restart, promo, push, made, events>>

Roles == {"active", "standby"}
Databases == [role : Roles, peer : Controllers \cup {NoOne}, data : SUBSET Changes]

TypeOK ==
    /\ db \in [Controllers -> Databases]
    /\ staged \in [Controllers -> Databases \cup {NoOne}]
    /\ kept \in [Controllers -> SUBSET Changes]
    /\ proc \in [Controllers -> {"off", "down", "passive", "driving"}]
    /\ restart \in [Controllers -> BOOLEAN]
    /\ promo \in [Controllers -> {"idle", "saved", "swapped"}]
    /\ push \in [Controllers -> Databases \cup {NoOne}]
    /\ made \in SUBSET Changes
    /\ events \in 0..MaxEvents

-----------------------------------------------------------------------------
Up(c) == proc[c] \in {"passive", "driving"}

\* c drives, or will drive after a restart, a crash or a boot it cannot refuse.
Claims(c) ==
    /\ proc[c] # "off"
    /\ \/ proc[c] = "driving"
       \/ db[c].role = "active"
       \/ promo[c] # "idle"

\* The operator's golden rule.  "stopped": the other controller is off, or
\* seen to have stopped driving; "demoted": its role reads standby.
MayTakeOver(c) ==
    \A d \in Controllers \ {c} :
        \/ proc[d] = "off"
        \/ Rule = "stopped" /\ ~Claims(d)
        \/ Rule = "demoted" /\ db[d].role = "standby" /\ promo[d] = "idle"

\* Nobody flips the role of a controller whose promotion is running; under
\* "stopped" the controller to promote has finished restarting as passive.
Settled(c) == promo[c] = "idle" /\ (Rule = "stopped" => proc[c] = "passive")

Event == events < MaxEvents /\ events' = events + 1

Stop(c, to) ==
    /\ proc' = [proc EXCEPT ![c] = to]
    /\ promo' = [promo EXCEPT ![c] = "idle"]

-----------------------------------------------------------------------------
(* The service: main.py starts the driving threads, the replication loop   *)
(* and nothing else that writes, only if the role read at boot is active.  *)

\* A request sent before the process died is staged or lost before it is back.
Boot(c) ==
    /\ proc[c] = "down" /\ push[c] = NoOne
    /\ proc' = [proc EXCEPT ![c] = IF db[c].role = "active" THEN "driving" ELSE "passive"]
    /\ UNCHANGED <<db, staged, kept, restart, promo, push, made, events>>

RestartFires(c) ==
    /\ restart[c] /\ proc[c] # "off"
    /\ restart' = [restart EXCEPT ![c] = FALSE]
    /\ Stop(c, "down")
    /\ UNCHANGED <<db, staged, kept, push, made, events>>

Crash(c) ==
    /\ Event
    /\ Up(c)
    /\ Stop(c, "down")
    /\ UNCHANGED <<db, staged, kept, restart, push, made>>

PowerOff(c) ==
    /\ Event
    /\ proc[c] # "off"
    /\ Stop(c, "off")
    /\ restart' = [restart EXCEPT ![c] = FALSE]
    /\ push' = [push EXCEPT ![c] = NoOne]
    /\ UNCHANGED <<db, staged, kept, made>>

\* HA.md: a former active is demoted before it is switched on again.
PowerOn(c) ==
    /\ proc[c] = "off"
    /\ db[c].role = "active" => MayTakeOver(c)
    /\ proc' = [proc EXCEPT ![c] = "down"]
    /\ UNCHANGED <<db, staged, kept, restart, promo, push, made, events>>

\* The driving threads write whatever the role says; a request of the UI
\* passes _ha_readonly_guard only when the role reads active.
Write(c, x) ==
    /\ x \notin made
    /\ proc[c] = "driving" \/ (Up(c) /\ db[c].role = "active")
    /\ db' = [db EXCEPT ![c].data = @ \cup {x}]
    /\ made' = made \cup {x}
    /\ UNCHANGED <<staged, kept, proc, restart, promo, push, events>>

-----------------------------------------------------------------------------
(* Replication: snapshot of the whole database, request to the peer's      *)
(* address, staging there, answer.                                         *)

\* By the loop of a driving controller, or by the route of any of them.
PushSnapshot(c) ==
    /\ Up(c)
    /\ push[c] = NoOne
    /\ db[c].peer # NoOne
    /\ push' = [push EXCEPT ![c] = db[c]]
    /\ UNCHANGED <<db, staged, kept, proc, restart, promo, made, events>>

\* Mutant: the receiver applies the replica at once instead of staging it.
ApplyReplica(c) ==
    /\ push[c] # NoOne
    /\ Up(push[c].peer)
    /\ db' = [db EXCEPT ![push[c].peer] = push[c]]
    /\ push' = [push EXCEPT ![c] = NoOne]
    /\ UNCHANGED <<staged, kept, proc, restart, promo, made, events>>

\* The receiver stages what it gets, whatever its own role.
StoreReplica(c) ==
    /\ push[c] # NoOne
    /\ Up(push[c].peer)
    /\ staged' = [staged EXCEPT ![push[c].peer] = push[c]]
    /\ push' = [push EXCEPT ![c] = NoOne]
    /\ UNCHANGED <<db, kept, proc, restart, promo, made, events>>

\* Peer down, refused, timed out: the snapshot is dropped until the next period.
PushFails(c) ==
    /\ push[c] # NoOne
    /\ push' = [push EXCEPT ![c] = NoOne]
    /\ UNCHANGED <<db, staged, kept, proc, restart, promo, made, events>>

-----------------------------------------------------------------------------
(* promote(): guards and safety backup, replacement of the live database   *)
(* by the replica, role and restart.                                       *)

\* Mutant: no safety backup.
PromoteUnsaved(c) ==
    /\ Event
    /\ Up(c)
    /\ db[c].role # "active"
    /\ staged[c] # NoOne
    /\ MayTakeOver(c) /\ Settled(c)
    /\ promo' = [promo EXCEPT ![c] = "saved"]
    /\ UNCHANGED <<db, staged, kept, proc, restart, push, made>>

\* Mutant: the presence of a staged replica is not checked.
PromoteBlindly(c) ==
    /\ Event
    /\ Up(c)
    /\ db[c].role # "active"
    /\ MayTakeOver(c) /\ Settled(c)
    /\ kept' = [kept EXCEPT ![c] = @ \cup db[c].data]
    /\ promo' = [promo EXCEPT ![c] = "saved"]
    /\ UNCHANGED <<db, staged, proc, restart, push, made>>

PromoteSave(c) ==
    /\ Event
    /\ Up(c)
    /\ db[c].role # "active"
    /\ staged[c] # NoOne
    /\ MayTakeOver(c) /\ Settled(c)
    /\ kept' = [kept EXCEPT ![c] = @ \cup db[c].data]
    /\ promo' = [promo EXCEPT ![c] = "saved"]
    /\ UNCHANGED <<db, staged, proc, restart, push, made>>

\* apply_replica_to: the staged copy is read and installed in one step here
\* (ReplicaStaging takes the steps apart).
PromoteSwap(c) ==
    /\ promo[c] = "saved"
    /\ db' = [db EXCEPT ![c] = staged[c]]
    /\ promo' = [promo EXCEPT ![c] = "swapped"]
    /\ UNCHANGED <<staged, kept, proc, restart, push, made, events>>

\* Mutant: the role is set and the service is not restarted.
PromoteNoRestart(c) ==
    /\ promo[c] = "swapped"
    /\ db' = [db EXCEPT ![c].role = "active"]
    /\ promo' = [promo EXCEPT ![c] = "idle"]
    /\ UNCHANGED <<staged, kept, proc, restart, push, made, events>>

PromoteFinish(c) ==
    /\ promo[c] = "swapped"
    /\ db' = [db EXCEPT ![c].role = "active"]
    /\ restart' = [restart EXCEPT ![c] = TRUE]
    /\ promo' = [promo EXCEPT ![c] = "idle"]
    /\ UNCHANGED <<staged, kept, proc, push, made, events>>

Demote(c) ==
    /\ Event
    /\ Up(c) /\ promo[c] = "idle"
    /\ db[c].role # "standby"
    /\ db' = [db EXCEPT ![c].role = "standby"]
    /\ restart' = [restart EXCEPT ![c] = TRUE]
    /\ UNCHANGED <<staged, kept, proc, promo, push, made>>

\* POST /api/ha/role: no restart, the processes keep doing what they did.
RoleSet(c, r) ==
    /\ Event
    /\ Up(c) /\ promo[c] = "idle"
    /\ r = "active" => MayTakeOver(c)
    /\ db' = [db EXCEPT ![c].role = r]
    /\ UNCHANGED <<staged, kept, proc, restart, promo, push, made>>

\* The settings page of an active controller, or the pairing of a standby.
SetPeer(c, p) ==
    /\ Event
    /\ Up(c) /\ promo[c] = "idle"
    /\ db[c].role = "active" \/ p # NoOne
    /\ db' = [db EXCEPT ![c].peer = p]
    /\ UNCHANGED <<staged, kept, proc, restart, promo, push, made>>

-----------------------------------------------------------------------------
Init ==
    /\ db \in {f \in [Controllers -> Databases] :
                 \A c \in Controllers :
                    /\ f[c].role = IF c = FirstActive THEN "active" ELSE "standby"
                    /\ f[c].peer \in Controllers \ {c}
                    /\ f[c].data = {}}
    /\ staged = [c \in Controllers |-> NoOne]
    /\ kept = [c \in Controllers |-> {}]
    /\ proc = [c \in Controllers |-> IF c = FirstActive THEN "driving" ELSE "passive"]
    /\ restart = [c \in Controllers |-> FALSE]
    /\ promo = [c \in Controllers |-> "idle"]
    /\ push = [c \in Controllers |-> NoOne]
    /\ made = {}
    /\ events = 0

Process(c) == Boot(c) \/ RestartFires(c) \/ Crash(c) \/ PowerOff(c) \/ PowerOn(c)

Replication(c) == PushSnapshot(c) \/ StoreReplica(c) \/ PushFails(c)

Switchover(c) ==
    \/ PromoteSave(c) \/ PromoteSwap(c) \/ PromoteFinish(c) \/ Demote(c)
    \/ \E r \in Roles : RoleSet(c, r)
    \/ \E p \in (Controllers \ {c}) \cup {NoOne} : SetPeer(c, p)

Next ==
    \E c \in Controllers :
        Process(c) \/ Replication(c) \/ Switchover(c) \/ \E x \in Changes : Write(c, x)

\* Threads run, systemd starts what is down and fires what it was asked.
Fairness ==
    \A c \in Controllers :
        /\ WF_vars(Boot(c)) /\ WF_vars(RestartFires(c))
        /\ WF_vars(PromoteSwap(c)) /\ WF_vars(PromoteFinish(c))
        /\ WF_vars(PushFails(c))

Spec == Init /\ [][Next]_vars
FairSpec == Spec /\ Fairness

-----------------------------------------------------------------------------
\* At most one controller runs the driving threads (main.py:997, HA.md:106),
\* across crashes in the middle of a promotion, boots and late replicas.
OneDriver ==
    \A c, d \in Controllers :
        proc[c] = "driving" /\ proc[d] = "driving" => c = d

\* The strengthening of OneDriver that is inductive (PairProofs): at most one
\* controller drives or is bound to drive.
OneClaim ==
    \A c, d \in Controllers : Claims(c) /\ Claims(d) => c = d

\* A promotion replaces a whole database: whatever it overwrites survives in
\* a live database or in a pre-promotion backup of the pair (ha.py:371).
NothingErased ==
    made \subseteq UNION {db[c].data \cup kept[c] : c \in Controllers}

\* The one setting names the OTHER controller in both roles (ha.py:224).  No
\* run checks it: a promotion installs the setting of the other (README, 7).
PeerIsOther == \A c \in Controllers : db[c].peer # c

\* A promotion that replaced the database ends with a driving controller,
\* even through crashes, unless the operator cuts it or steps back.
PromotionCompletes ==
    \A c \in Controllers :
        promo[c] = "swapped" ~>
            (proc[c] \in {"driving", "off"} \/ db[c].role = "standby")
=============================================================================
