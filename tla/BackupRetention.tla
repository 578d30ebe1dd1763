-------------------------- MODULE BackupRetention --------------------------
(***************************************************************************)
(* The backup directory of one controller (app/backup.py): backups taken   *)
(* daily by the surveillance loop or by hand, the pre-promotion backups    *)
(* that promote() leaves in the same directory (app/ha.py:380), retention  *)
(* by file NAME, and the day mark kept in the database.                    *)
(***************************************************************************)
EXTENDS Integers, FiniteSets

CONSTANTS
    Keep,           \* the setting backup_retention
    Days,           \* bound on the days
    Minute,         \* ticks in a day; the backup is due from Sched on
    Sched,
    MaxPromotions,  \* bound on promotions
    MaxCrashes,     \* bound on crashes of the service
    MaxManual       \* bound on backups taken by hand

ASSUME BackupRetentionAssumption ==
    /\ Keep \in Nat \ {0} /\ Days \in Nat \ {0}
    /\ Minute \in Nat \ {0} /\ Sched \in 0..(Minute - 1)
    /\ MaxPromotions \in Nat /\ MaxCrashes \in Nat /\ MaxManual \in Nat

VARIABLES
    now,            \* the local clock
    files,          \* the directory
    lastDate,       \* backup_last_date in the live database, -1 at first
    run,            \* the backup holding the lock: what it is doing
    latest,         \* the last file written by run_backup (history)
    attempts,       \* automatic backups started, per day (history)
    excused,        \* crashes and promotions, per day (history)
    safety,         \* the last pre-promotion backup (history)
    promotions, crashes, manual

bounds == <<promotions, crashes, manual>>
vars == <<now, files, lastDate, run, latest, safety, attempts, excused, bounds>>

Times == 0..(Days * Minute - 1)
Day(t) == t \div Minute
Files == [kind : {"timestamp", "prepromote"}, at : Times]
NoFile == [kind |-> "none", at |-> -1]
Idle == [step |-> "idle", auto |-> FALSE]

TypeOK ==
    /\ now \in Times
    /\ files \subseteq Files
    /\ lastDate \in -1..(Days - 1)
    /\ run \in [step : {"idle", "copied", "pruned"}, auto : BOOLEAN]
    /\ latest \in Files \cup {NoFile} /\ safety \in Files \cup {NoFile}
    /\ attempts \in [0..(Days - 1) -> Nat]
    /\ excused \in [0..(Days - 1) -> Nat]
    /\ promotions \in 0..MaxPromotions /\ crashes \in 0..MaxCrashes
    /\ manual \in 0..MaxManual

-----------------------------------------------------------------------------
\* Names are compared as strings: "prepromote-..." follows every digit.
NameAbove(f, g) ==
    \/ f.kind = "prepromote" /\ g.kind = "timestamp"
    \/ f.kind = g.kind /\ f.at > g.at

\* list_backups()[:keep], the order being the names', decreasing.
Retained(fs) ==
    {f \in fs : Cardinality({g \in fs : NameAbove(g, f)}) < Keep}

Excuse == excused' = [excused EXCEPT ![Day(now)] = @ + 1]

\* maybe_daily_backup: once a day, from the hour set on, whenever the app is up.
Due == lastDate # Day(now) /\ now % Minute >= Sched

\* The loop looks every few seconds: time does not pass a backup that is due.
\* A backup lasts less than a tick, but may well see the clock move once.
Tick ==
    /\ now + 1 \in Times
    /\ run.step = "idle" => ~Due
    /\ run.step # "idle" => latest.at = now
    /\ now' = now + 1
    /\ UNCHANGED <<files, lastDate, run, latest, safety, attempts, excused, bounds>>

\* run_backup, under the lock: the copy of the database...
Copy(auto) ==
    LET f == [kind |-> "timestamp", at |-> now]
    IN  /\ run.step = "idle"
        /\ run' = [step |-> "copied", auto |-> auto]
        /\ files' = files \cup {f}
        /\ latest' = f

Daily ==
    /\ Due
    /\ Copy(TRUE)
    /\ attempts' = [attempts EXCEPT ![Day(now)] = @ + 1]
    /\ UNCHANGED <<now, lastDate, safety, excused, bounds>>

Manual ==
    /\ manual < MaxManual /\ manual' = manual + 1
    /\ Copy(FALSE)
    /\ UNCHANGED <<now, lastDate, safety, attempts, excused, promotions, crashes>>

\* Mutant: a failed backup does not mark the day.
FailUnmarked ==
    /\ Due /\ run.step = "idle"
    /\ attempts' = [attempts EXCEPT ![Day(now)] = @ + 1]
    /\ UNCHANGED <<now, files, lastDate, run, latest, safety, excused, bounds>>

\* The copy fails, leaving a part of it in the directory or nothing: the day
\* is marked all the same, not to loop on the failure.
DailyFails ==
    /\ Due /\ run.step = "idle"
    /\ attempts' = [attempts EXCEPT ![Day(now)] = @ + 1]
    /\ lastDate' = Day(now)
    /\ files' \in {files, files \cup {[kind |-> "timestamp", at |-> now]}}
    /\ UNCHANGED <<now, run, latest, safety, excused, bounds>>

\* Mutant: the retention keeps the head of the list in the wrong order.
PruneNewest ==
    /\ run.step = "copied"
    /\ files' = {f \in files : Cardinality({g \in files : NameAbove(f, g)}) < Keep}
    /\ run' = [run EXCEPT !.step = "pruned"]
    /\ UNCHANGED <<now, lastDate, latest, safety, attempts, excused, bounds>>

\* Mutant: one file too many is removed.
PruneOneMore ==
    /\ run.step = "copied"
    /\ files' = {f \in files : Cardinality({g \in files : NameAbove(g, f)}) < Keep - 1}
    /\ run' = [run EXCEPT !.step = "pruned"]
    /\ UNCHANGED <<now, lastDate, latest, safety, attempts, excused, bounds>>

\* ...the retention...
Prune ==
    /\ run.step = "copied"
    /\ files' = Retained(files)
    /\ run' = [run EXCEPT !.step = "pruned"]
    /\ UNCHANGED <<now, lastDate, latest, safety, attempts, excused, bounds>>

\* ...and the day mark.
Record ==
    /\ run.step = "pruned"
    /\ lastDate' = Day(now)
    /\ run' = Idle
    /\ UNCHANGED <<now, files, latest, safety, attempts, excused, bounds>>

\* A failure past the copy: an automatic backup marks the day it began.
RunFails ==
    /\ run.step \in {"copied", "pruned"}
    /\ lastDate' = IF run.auto THEN Day(latest.at) ELSE lastDate
    /\ run' = Idle
    /\ UNCHANGED <<now, files, latest, safety, attempts, excused, bounds>>

\* promote() leaves its safety backup here, outside the lock, without pruning,
\* and installs a database whose day mark is the other controller's.
Promote ==
    /\ promotions < MaxPromotions /\ promotions' = promotions + 1
    /\ safety' = [kind |-> "prepromote", at |-> now]
    /\ files' = files \cup {safety'}
    /\ lastDate' \in -1..Day(now)
    /\ Excuse
    /\ UNCHANGED <<now, run, latest, attempts, crashes, manual>>

\* The service dies, or the database refuses the day mark.
Crash ==
    /\ crashes < MaxCrashes /\ crashes' = crashes + 1
    /\ run' = Idle
    /\ Excuse
    /\ UNCHANGED <<now, files, lastDate, latest, safety, attempts, promotions, manual>>

-----------------------------------------------------------------------------
Init ==
    /\ now = 0 /\ files = {} /\ lastDate = -1
    /\ run = Idle
    /\ latest = NoFile /\ safety = NoFile
    /\ attempts = [d \in 0..(Days - 1) |-> 0]
    /\ excused = [d \in 0..(Days - 1) |-> 0]
    /\ promotions = 0 /\ crashes = 0 /\ manual = 0

Next ==
    \/ Tick \/ Daily \/ Manual \/ DailyFails \/ Prune \/ Record \/ RunFails
    \/ Promote \/ Crash

Spec == Init /\ [][Next]_vars

-----------------------------------------------------------------------------
\* Retention keeps the most recent backups (backup.py:47): the last one taken
\* is in the directory.
LatestKept == latest # NoFile => latest \in files

\* The safety backup of the last promotion, the only way back from it
\* (HA.md:140), is never pruned.
SafetyKept == safety # NoFile => safety \in files

\* One automatic backup a day (backup.py:87), failed ones included, but for
\* those a crash or a promotion has made the database forget.
OncePerDay ==
    \A d \in 0..(Days - 1) : attempts[d] <= 1 + excused[d]

\* A day on which the app was up past the hour has its backup (backup.py:86-89).
\* No run checks it: a backup across midnight refutes it (README, 7).
NoDaySkipped ==
    \A d \in 0..(Days - 1) :
        (d < Day(now) /\ manual = 0 /\ excused[d] = 0) => attempts[d] > 0
=============================================================================
