------------------------------ MODULE EditLock ------------------------------
(***************************************************************************)
(* The advisory edit lock of one container (app/edit_lock.py), and the     *)
(* editors that take it and renew it by heartbeats.  It lives in memory,   *)
(* expires when nobody renews it, moves to another user only by a takeover *)
(* he confirmed.  What a user sees is the answer to his last call.         *)
(* The editor is external: it beats every BATTEMENT_S, late at times.      *)
(***************************************************************************)
EXTENDS Naturals

CONSTANTS
    People, NoOne,
    TTL_S,          \* in ticks
    Delay           \* the longest an open editor lets pass between two beats

ASSUME EditLockAssumption ==
    /\ NoOne \notin People
    /\ TTL_S \in Nat \ {0} /\ Delay \in Nat \ {0}

VARIABLES
    holder,     \* _verrous[vmid]["user_id"], or NoOne
    age,        \* time since it was last seen, "vu"
    open,       \* the editors that are open
    quiet,      \* time since the last beat of each editor
    told,       \* the lock was his, in the last answer each editor got
    takeover    \* time since the last takeover or restart (history)

lockVars == <<holder, age, open, quiet, told, takeover>>

Never == Delay + 1          \* longer ago than anything depends on
Older(t, cap) == IF t < cap THEN t + 1 ELSE t

LockTypeOK ==
    /\ holder \in People \cup {NoOne}
    /\ age \in 0..(TTL_S + 1)
    /\ open \subseteq People
    /\ quiet \in [People -> 0..Delay]
    /\ told \in [People -> BOOLEAN]
    /\ takeover \in 0..Never
    /\ \A u \in People : told[u] => u \in open

\* _expire: an abandoned lock belongs to nobody.
Held == IF age > TTL_S THEN NoOne ELSE holder

\* Time passes; every open editor beats before its delay is over.
Tick ==
    /\ \A u \in open : quiet[u] < Delay
    /\ age' = Older(age, TTL_S + 1)
    /\ quiet' = [u \in People |-> IF u \in open THEN quiet[u] + 1 ELSE 0]
    /\ takeover' = Older(takeover, Never)
    /\ UNCHANGED <<holder, open, told>>

Taken(u) ==
    /\ holder' = u /\ age' = 0
    /\ told' = [told EXCEPT ![u] = TRUE]

\* Mutant: being refused renews the lock of the other.
DeniedRenews(u) ==
    /\ holder' = Held /\ age' = 0
    /\ told' = [told EXCEPT ![u] = FALSE]

Denied(u) ==
    /\ holder' = Held /\ age' = IF Held = NoOne THEN 0 ELSE age
    /\ told' = [told EXCEPT ![u] = FALSE]

\* Mutant: a renewal does not refresh the time the lock was last seen.
BeatStale(u) ==
    /\ open' = open \cup {u}
    /\ quiet' = [quiet EXCEPT ![u] = 0]
    /\ IF Held \in {u, NoOne}
       THEN /\ holder' = u /\ age' = IF Held = u THEN age ELSE 0
            /\ told' = [told EXCEPT ![u] = TRUE]
       ELSE Denied(u)
    /\ UNCHANGED takeover

\* prendre: opening the editor, or a heartbeat of it.
Beat(u) ==
    /\ open' = open \cup {u}
    /\ quiet' = [quiet EXCEPT ![u] = 0]
    /\ IF Held \in {u, NoOne} THEN Taken(u) ELSE Denied(u)
    /\ UNCHANGED takeover

\* prendre with force: the user has read who is editing.
TakeOver(u) ==
    /\ u \in open /\ Held \notin {u, NoOne}
    /\ Taken(u)
    /\ quiet' = [quiet EXCEPT ![u] = 0] /\ takeover' = 0
    /\ UNCHANGED open

\* Mutant: anybody's lock is given back.
CloseAny(u) ==
    /\ u \in open /\ open' = open \ {u}
    /\ holder' = NoOne /\ age' = 0
    /\ told' = [told EXCEPT ![u] = FALSE]
    /\ UNCHANGED <<quiet, takeover>>

\* rendre: giving back somebody else's lock changes nothing.
Close(u) ==
    /\ u \in open /\ open' = open \ {u}
    /\ IF holder = u THEN holder' = NoOne /\ age' = 0 ELSE UNCHANGED <<holder, age>>
    /\ told' = [told EXCEPT ![u] = FALSE]
    /\ UNCHANGED <<quiet, takeover>>

\* The tab or the laptop is gone without a word.
Vanish(u) ==
    /\ u \in open /\ open' = open \ {u}
    /\ told' = [told EXCEPT ![u] = FALSE]
    /\ UNCHANGED <<holder, age, quiet, takeover>>

\* A restart of the orchestrator frees every lock.
Restart ==
    /\ holder' = NoOne /\ age' = 0 /\ takeover' = 0
    /\ UNCHANGED <<open, quiet, told>>

LockInit ==
    /\ holder = NoOne /\ age = 0
    /\ open = {} /\ quiet = [u \in People |-> 0]
    /\ told = [u \in People |-> FALSE]
    /\ takeover = Never

LockNext ==
    \/ Tick \/ Restart
    \/ \E u \in People : Beat(u) \/ TakeOver(u) \/ Close(u) \/ Vanish(u)

LockSpec == LockInit /\ [][LockNext]_lockVars

\* Time passes, and an editor that is left open beats.
FairLockSpec ==
    /\ LockSpec /\ WF_lockVars(Tick)
    /\ \A u \in People : WF_lockVars(u \in open /\ quiet[u] = Delay /\ Beat(u))

-----------------------------------------------------------------------------
\* "Only an explicit takeover moves it" (edit_lock.py:80-81): an editor that
\* is open and beats, late as it may be, keeps the lock but for a takeover or
\* a restart.
KeptWhileOpen ==
    [][\A u \in People : (Held = u /\ u \in open /\ u \in open') =>
          Held' = u \/ takeover' = 0]_lockVars

\* Two people see the lock as theirs only for the time of a heartbeat after a
\* takeover or a restart: what the banner says is soon true (edit_lock.py:11-13).
OneIsTold ==
    \A u, v \in People : (told[u] /\ told[v] /\ u # v) => takeover <= Delay

\* An abandoned lock does not condemn a wall (edit_lock.py:20-21): once its
\* editor is gone for good, it is free or somebody else's.
AbandonedIsFreed ==
    \A u \in People : <>[](u \notin open) => <>[](Held # u)
=============================================================================
