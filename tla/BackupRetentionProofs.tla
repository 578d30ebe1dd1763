------------------------ MODULE BackupRetentionProofs ------------------------
(***************************************************************************)
(* Theorems on the retention of backups, for any number of days, of ticks, *)
(* of backups by hand and of crashes.                                      *)
(***************************************************************************)
EXTENDS BackupRetention, FiniteSetTheorems, TLAPS

(* The backups that the names put above every other. *)
Prepromotes == {f \in files : f.kind = "prepromote"}

(* No file is newer than the clock; the last safety backup is the newest   *)
(* of its kind.                                                            *)
Dated ==
    /\ now \in Nat
    /\ \A f \in files : f.kind \in {"timestamp", "prepromote"} /\ f.at \in Nat /\ f.at <= now
    /\ safety = NoFile \/ (safety.kind = "prepromote" /\ safety \in files)
    /\ \A f \in Prepromotes : safety # NoFile /\ f.at <= safety.at

(* The last backup is there, and the newest of its kind while the lock is  *)
(* held.                                                                   *)
LatestThere ==
    /\ run \in [step : {"idle", "copied", "pruned"}, auto : BOOLEAN]
    /\ latest = NoFile \/ (latest.kind = "timestamp" /\ latest \in files)
    /\ run.step = "copied" =>
          latest # NoFile /\ \A f \in files : f.kind = "timestamp" => f.at <= latest.at

(* There are as many of the highest names as promotions, at the most. *)
Counted ==
    /\ promotions \in 0..MaxPromotions
    /\ IsFiniteSet(Prepromotes) /\ Cardinality(Prepromotes) <= promotions

IInv == Dated /\ Counted /\ LatestThere

LEMMA Initially == ASSUME BackupRetentionAssumption PROVE Init => IInv
<1> SUFFICES ASSUME Init PROVE IInv
  OBVIOUS
<1>1. Prepromotes = {}
  BY DEF Init, Prepromotes
<1>2. Counted
  BY <1>1, FS_EmptySet DEF Init, Counted, BackupRetentionAssumption
<1> QED
  BY <1>1, <1>2 DEF Init, IInv, Dated, LatestThere, Idle, BackupRetentionAssumption

(* Nothing is above the last safety backup: retention keeps it. *)
LEMMA SafetyRetained ==
    ASSUME BackupRetentionAssumption, Dated, safety # NoFile PROVE safety \in Retained(files)
<1>1. safety \in files /\ safety.kind = "prepromote"
  BY DEF Dated
<1>2. {g \in files : NameAbove(g, safety)} = {}
  BY <1>1 DEF Dated, Prepromotes, NameAbove
<1>3. Cardinality({g \in files : NameAbove(g, safety)}) < Keep
  BY <1>2, FS_EmptySet DEF BackupRetentionAssumption
<1> QED
  BY <1>1, <1>3 DEF Retained

(* Only safety backups are above the last backup, and they are few. *)
LEMMA LatestRetained ==
    ASSUME BackupRetentionAssumption, MaxPromotions < Keep, IInv, run.step = "copied"
    PROVE  latest \in Retained(files)
<1> DEFINE above == {g \in files : NameAbove(g, latest)}
<1>1. latest \in files /\ latest.kind = "timestamp"
  BY DEF IInv, LatestThere
<1>2. \A g \in above : g.kind = "prepromote"
  BY <1>1 DEF IInv, Dated, LatestThere, NameAbove
<1>3. above \in SUBSET Prepromotes
  BY <1>2 DEF Prepromotes
<1>4. Cardinality(above) <= Cardinality(Prepromotes) /\ IsFiniteSet(above)
  BY <1>3, FS_Subset DEF IInv, Counted
<1>5. Cardinality(above) \in Nat /\ Cardinality(Prepromotes) \in Nat
  BY <1>4, FS_CardinalityType DEF IInv, Counted
<1>6. Cardinality(above) < Keep
  BY <1>4, <1>5 DEF IInv, Counted, BackupRetentionAssumption
<1> QED
  BY <1>1, <1>6 DEF Retained

(* A file that is not a safety backup does not count. *)
LEMMA SamePrepromotes ==
    ASSUME Counted, UNCHANGED promotions, Prepromotes' \in SUBSET Prepromotes PROVE Counted'
<1>1. IsFiniteSet(Prepromotes') /\ Cardinality(Prepromotes') <= Cardinality(Prepromotes)
  BY FS_Subset DEF Counted
<1>2. Cardinality(Prepromotes') \in Nat /\ Cardinality(Prepromotes) \in Nat
  BY <1>1, FS_CardinalityType DEF Counted
<1> QED
  BY <1>1, <1>2 DEF Counted

LEMMA DatedInductive ==
    ASSUME BackupRetentionAssumption, Dated, [Next]_vars PROVE Dated'
<1> USE DEF Dated, Prepromotes
<1>1. CASE Tick
  BY <1>1 DEF Tick, Times
<1>2. CASE Daily \/ Manual \/ DailyFails
  <2>1. /\ files' \in {files, files \cup {[kind |-> "timestamp", at |-> now]}}
        /\ UNCHANGED <<now, safety>>
    BY <1>2 DEF Daily, Manual, Copy, DailyFails
  <2> QED
    BY <2>1 DEF NoFile
<1>3. CASE Prune
  <2>1. files' = Retained(files) /\ UNCHANGED <<now, safety>>
    BY <1>3 DEF Prune
  <2>2. safety # NoFile => safety \in Retained(files)
    BY SafetyRetained
  <2>3. Retained(files) \subseteq files
    BY DEF Retained
  <2> QED
    BY <2>1, <2>2, <2>3
<1>4. CASE Record \/ RunFails \/ Crash
  BY <1>4 DEF Record, RunFails, Crash
<1>5. CASE Promote
  <2>1. /\ safety' = [kind |-> "prepromote", at |-> now]
        /\ files' = files \cup {[kind |-> "prepromote", at |-> now]}
        /\ UNCHANGED now
    BY <1>5 DEF Promote
  <2> QED
    BY <2>1 DEF NoFile
<1>6. CASE UNCHANGED vars
  BY <1>6 DEF vars
<1> QED
  BY <1>1, <1>2, <1>3, <1>4, <1>5, <1>6 DEF Next

LEMMA LatestInductive ==
    ASSUME BackupRetentionAssumption, MaxPromotions < Keep, IInv, [Next]_vars PROVE LatestThere'
<1> USE DEF LatestThere, IInv
<1>1. CASE Tick
  BY <1>1 DEF Tick
<1>2. CASE Daily \/ Manual
  <2>1. /\ files' = files \cup {[kind |-> "timestamp", at |-> now]}
        /\ latest' = [kind |-> "timestamp", at |-> now]
        /\ \E auto \in BOOLEAN : run' = [step |-> "copied", auto |-> auto]
    BY <1>2 DEF Daily, Manual, Copy
  <2>2. \A f \in files' : f.at <= now
    BY <2>1 DEF Dated
  <2> QED
    BY <2>1, <2>2 DEF NoFile
<1>3. CASE DailyFails
  <2>1. /\ files' \in {files, files \cup {[kind |-> "timestamp", at |-> now]}}
        /\ run.step = "idle" /\ UNCHANGED <<run, latest>>
    BY <1>3 DEF DailyFails
  <2> QED
    BY <2>1
<1>4. CASE Prune
  <2>1. /\ files' = Retained(files) /\ run' = [run EXCEPT !.step = "pruned"]
        /\ UNCHANGED latest /\ run.step = "copied"
    BY <1>4 DEF Prune
  <2>2. latest \in Retained(files)
    BY <2>1, LatestRetained
  <2> QED
    BY <2>1, <2>2
<1>5. CASE Record \/ RunFails \/ Crash
  <2>1. run' = Idle /\ UNCHANGED <<files, latest>>
    BY <1>5 DEF Record, RunFails, Crash
  <2>2. Idle.step = "idle" /\ Idle \in [step : {"idle", "copied", "pruned"}, auto : BOOLEAN]
    BY DEF Idle
  <2> QED
    BY <2>1, <2>2
<1>6. CASE Promote
  <2>1. /\ files' = files \cup {[kind |-> "prepromote", at |-> now]}
        /\ UNCHANGED <<run, latest>>
    BY <1>6 DEF Promote
  <2> QED
    BY <2>1
<1>7. CASE UNCHANGED vars
  BY <1>7 DEF vars
<1> QED
  BY <1>1, <1>2, <1>3, <1>4, <1>5, <1>6, <1>7 DEF Next

LEMMA CountedInductive ==
    ASSUME BackupRetentionAssumption, Counted, [Next]_vars PROVE Counted'
<1>1. CASE Promote
  <2>1. /\ promotions < MaxPromotions /\ promotions' = promotions + 1
        /\ files' = files \cup {[kind |-> "prepromote", at |-> now]}
    BY <1>1 DEF Promote
  <2>2. Prepromotes' = Prepromotes \cup {[kind |-> "prepromote", at |-> now]}
    BY <2>1 DEF Prepromotes
  <2>3. /\ IsFiniteSet(Prepromotes')
        /\ Cardinality(Prepromotes') \in {Cardinality(Prepromotes), Cardinality(Prepromotes) + 1}
    BY <2>2, FS_AddElement DEF Counted
  <2>4. Cardinality(Prepromotes) \in Nat
    BY FS_CardinalityType DEF Counted
  <2> QED
    BY <2>1, <2>3, <2>4 DEF Counted, BackupRetentionAssumption
<1>2. CASE Next /\ ~ Promote
  <2>1. UNCHANGED promotions
    BY <1>2 DEF Next, Tick, Daily, Manual, DailyFails, Prune, Record, RunFails, Crash, bounds
  <2>2. \/ files' \in {files, files \cup {[kind |-> "timestamp", at |-> now]}}
        \/ files' = Retained(files)
    BY <1>2 DEF Next, Tick, Daily, Manual, Copy, DailyFails, Prune, Record, RunFails, Crash
  <2>3. Prepromotes' \in SUBSET Prepromotes
    <3>1. ASSUME NEW f \in files', f.kind = "prepromote" PROVE f \in files
      <4>1. f \in files \/ f = [kind |-> "timestamp", at |-> now]
        BY <2>2 DEF Retained
      <4>2. [kind |-> "timestamp", at |-> now].kind = "timestamp"
        OBVIOUS
      <4> QED
        BY <3>1, <4>1, <4>2
    <3>2. ASSUME NEW f \in Prepromotes' PROVE f \in Prepromotes
      BY <3>1 DEF Prepromotes
    <3> QED
      BY <3>2
  <2> QED
    BY <2>1, <2>3, SamePrepromotes
<1>3. CASE UNCHANGED vars
  BY <1>3 DEF vars, bounds, Counted, Prepromotes
<1> QED
  BY <1>1, <1>2, <1>3

(* Retention keeps the last backup (backup.py:47), as long as there are    *)
(* fewer promotions than files kept.                                       *)
THEOREM LatestKeptHolds ==
    ASSUME BackupRetentionAssumption, MaxPromotions < Keep PROVE Spec => []LatestKept
<1>1. IInv /\ [Next]_vars => IInv'
  BY DatedInductive, CountedInductive, LatestInductive DEF IInv
<1>2. IInv => LatestKept
  BY DEF IInv, LatestThere, LatestKept
<1> QED
  BY <1>1, <1>2, Initially, PTL DEF Spec

(* The safety backup of the last promotion, the only way back from it      *)
(* (HA.md:140), is never pruned, however many promotions there are.        *)
THEOREM SafetyKeptHolds ==
    ASSUME BackupRetentionAssumption PROVE Spec => []SafetyKept
<1>1. Init => Dated
  BY Initially DEF IInv
<1>2. Dated => SafetyKept
  BY DEF Dated, SafetyKept
<1> QED
  BY <1>1, <1>2, DatedInductive, PTL DEF Spec

-----------------------------------------------------------------------------
RunType == [step : {"idle", "copied", "pruned"}, auto : BOOLEAN]

(* What one automatic backup a day rests on. The types...                  *)
Typed ==
    /\ now \in Times
    /\ run \in RunType
    /\ run.step # "idle" => latest.at \in Times
    /\ attempts \in [0..(Days - 1) -> Nat]
    /\ excused \in [0..(Days - 1) -> Nat]

(* ...no backup for the days to come, nor for a day that began during the  *)
(* backup in progress...                                                   *)
NotYet ==
    /\ \A d \in 0..(Days - 1) : d > Day(now) => attempts[d] = 0
    /\ run.step # "idle" /\ Day(latest.at) # Day(now) => attempts[Day(now)] = 0

(* ...and a backup taken today that nothing has made forget has marked the *)
(* day, or is still in progress.                                           *)
Marked ==
    attempts[Day(now)] > excused[Day(now)] =>
        \/ lastDate = Day(now)
        \/ run.step # "idle" /\ run.auto /\ Day(latest.at) = Day(now)

DayInv == Typed /\ NotYet /\ Marked /\ OncePerDay

LEMMA RunTypes ==
    /\ [step |-> "idle", auto |-> FALSE] \in RunType
    /\ [step |-> "copied", auto |-> TRUE] \in RunType
    /\ [step |-> "copied", auto |-> FALSE] \in RunType
BY DEF RunType

(* The days of the model are those of the clock. *)
LEMMA DayInDays ==
    ASSUME BackupRetentionAssumption, NEW t \in Times PROVE t \in Nat /\ Day(t) \in 0..(Days - 1)
<1>1. t \in Nat /\ t < Days * Minute /\ Minute \in Nat \ {0} /\ Days \in Nat
  BY DEF Times, BackupRetentionAssumption
<1>2. t \div Minute \in Nat /\ t \div Minute < Days
  BY <1>1
<1> QED
  BY <1>1, <1>2 DEF Day

(* A tick stays within its day or opens a later one. *)
LEMMA DayGrows ==
    ASSUME BackupRetentionAssumption, NEW t \in Times, t + 1 \in Times
    PROVE  Day(t + 1) = Day(t) \/ Day(t + 1) > Day(t)
<1>1. t \in Nat /\ Minute \in Nat \ {0}
  BY DEF Times, BackupRetentionAssumption
<1>2. t \div Minute <= (t + 1) \div Minute /\ t \div Minute \in Nat /\ (t + 1) \div Minute \in Nat
  BY <1>1
<1> QED
  BY <1>2 DEF Day

LEMMA TickCounts ==
    ASSUME BackupRetentionAssumption, DayInv, Tick PROVE DayInv'
<1>1. /\ now \in Times /\ now + 1 \in Times /\ now' = now + 1
      /\ run.step # "idle" => latest.at = now
      /\ UNCHANGED <<lastDate, run, latest, attempts, excused>>
  BY DEF Tick, DayInv, Typed
<1>2. Day(now') = Day(now) \/ Day(now') > Day(now)
  BY <1>1, DayGrows
<1>3. Day(now) \in 0..(Days - 1) /\ Day(now') \in 0..(Days - 1)
  BY <1>1, DayInDays
<1>4. Typed' /\ OncePerDay'
  BY <1>1 DEF DayInv, Typed, OncePerDay
<1>5. CASE Day(now') = Day(now)
  BY <1>1, <1>4, <1>5 DEF DayInv, NotYet, Marked, Typed
<1>6. CASE Day(now') > Day(now)
  <2>1. attempts'[Day(now')] = 0 /\ excused'[Day(now')] \in Nat
    BY <1>1, <1>3, <1>6 DEF DayInv, NotYet, Typed
  <2>2. Marked'
    BY <2>1 DEF Marked
  <2>3. \A d \in 0..(Days - 1) : d > Day(now') => d > Day(now)
    BY <1>3, <1>6
  <2>4. NotYet'
    BY <1>1, <2>1, <2>3 DEF DayInv, NotYet
  <2> QED
    BY <1>4, <2>2, <2>4 DEF DayInv
<1> QED
  BY <1>2, <1>5, <1>6

(* A backup is begun, or fails at once, only on a day not marked. *)
LEMMA AttemptCounts ==
    ASSUME BackupRetentionAssumption, DayInv, Daily \/ DailyFails PROVE DayInv'
<1>1. /\ now \in Times /\ lastDate # Day(now) /\ run.step = "idle"
      /\ attempts' = [attempts EXCEPT ![Day(now)] = @ + 1]
      /\ UNCHANGED <<now, excused>>
  BY DEF Daily, DailyFails, Due, Copy, DayInv, Typed
<1>2. \/ lastDate' = Day(now) /\ UNCHANGED <<run, latest>>
      \/ /\ run' = [step |-> "copied", auto |-> TRUE]
         /\ latest' = [kind |-> "timestamp", at |-> now]
  BY DEF Daily, DailyFails, Copy
<1>3. now \in Nat /\ Day(now) \in 0..(Days - 1)
  BY <1>1, DayInDays
<1>4. attempts[Day(now)] <= excused[Day(now)]
  BY <1>1, <1>3 DEF DayInv, Marked, Typed
<1>5. Typed'
  <2>1. attempts' \in [0..(Days - 1) -> Nat]
    BY <1>1, <1>3 DEF DayInv, Typed
  <2>2. run' \in RunType
    BY <1>2, RunTypes DEF DayInv, Typed
  <2>3. run'.step # "idle" => latest'.at \in Times
    BY <1>1, <1>2
  <2> QED
    BY <1>1, <2>1, <2>2, <2>3 DEF DayInv, Typed
<1>6. \A d \in 0..(Days - 1) : attempts'[d] = IF d = Day(now) THEN attempts[d] + 1 ELSE attempts[d]
  BY <1>1, <1>3 DEF DayInv, Typed
<1>7. OncePerDay'
  BY <1>1, <1>3, <1>4, <1>6 DEF DayInv, Typed, OncePerDay
<1>8. \A d \in 0..(Days - 1) : d > Day(now') => attempts'[d] = 0
  BY <1>1, <1>3, <1>6 DEF DayInv, NotYet
<1>9. /\ run'.step # "idle" => run'.auto /\ Day(latest'.at) = Day(now')
      /\ lastDate' = Day(now') \/ run'.step # "idle"
  BY <1>1, <1>2
<1> QED
  BY <1>5, <1>7, <1>8, <1>9 DEF DayInv, NotYet, Marked

(* A backup that ends leaves its mark, be it on the day it began. *)
LEMMA RunCounts ==
    ASSUME BackupRetentionAssumption, DayInv, Manual \/ Prune \/ Record \/ RunFails PROVE DayInv'
<1>1. UNCHANGED <<now, attempts, excused>>
  BY DEF Manual, Prune, Record, RunFails
<1>2. now \in Times /\ now \in Nat /\ Day(now) \in 0..(Days - 1)
  BY DayInDays DEF DayInv, Typed
<1>3. attempts[Day(now)] \in Nat /\ excused[Day(now)] \in Nat
  BY <1>2 DEF DayInv, Typed
<1>4. OncePerDay'
  BY <1>1 DEF DayInv, OncePerDay
<1>5. \A d \in 0..(Days - 1) : d > Day(now') => attempts'[d] = 0
  BY <1>1 DEF DayInv, NotYet
<1>6. CASE Manual
  <2>1. /\ run.step = "idle" /\ UNCHANGED lastDate
        /\ run' = [step |-> "copied", auto |-> FALSE]
        /\ latest' = [kind |-> "timestamp", at |-> now]
    BY <1>6 DEF Manual, Copy
  <2>2. Typed'
    BY <1>1, <1>2, <2>1, RunTypes DEF DayInv, Typed
  <2>3. Day(latest'.at) = Day(now')
    BY <1>1, <2>1
  <2>4. Marked'
    BY <1>1, <2>1 DEF DayInv, Marked
  <2> QED
    BY <1>4, <1>5, <2>2, <2>3, <2>4 DEF DayInv, NotYet
<1>7. CASE Prune
  <2>1. /\ run.step = "copied" /\ run' = [run EXCEPT !.step = "pruned"]
        /\ UNCHANGED <<latest, lastDate>>
    BY <1>7 DEF Prune
  <2>2. run'.step = "pruned" /\ run'.auto = run.auto /\ run' \in RunType
    BY <2>1 DEF DayInv, Typed, RunType
  <2> QED
    BY <1>1, <1>4, <1>5, <2>1, <2>2 DEF DayInv, Typed, NotYet, Marked
<1>8. CASE Record \/ RunFails
  <2>1. /\ run.step # "idle" /\ run'.step = "idle" /\ run' = [step |-> "idle", auto |-> FALSE]
        /\ UNCHANGED latest
        /\ lastDate' = Day(now) \/ lastDate' = IF run.auto THEN Day(latest.at) ELSE lastDate
    BY <1>8 DEF Record, RunFails, Idle
  <2>2. Typed'
    BY <1>1, <2>1, RunTypes DEF DayInv, Typed
  <2>3. ASSUME attempts[Day(now)] > excused[Day(now)] PROVE lastDate' = Day(now)
    <3>1. Day(latest.at) = Day(now)
      BY <1>3, <2>1, <2>3 DEF DayInv, NotYet
    <3> QED
      BY <2>1, <2>3, <3>1 DEF DayInv, Marked
  <2> QED
    BY <1>1, <1>4, <1>5, <2>1, <2>2, <2>3 DEF DayInv, NotYet, Marked
<1> QED
  BY <1>6, <1>7, <1>8

(* A crash or a promotion may make the day forget, and is its excuse. *)
LEMMA ExcuseCounts ==
    ASSUME BackupRetentionAssumption, DayInv, Promote \/ Crash PROVE DayInv'
<1>1. /\ excused' = [excused EXCEPT ![Day(now)] = @ + 1]
      /\ UNCHANGED <<now, attempts, latest>>
      /\ run' = run \/ run' = [step |-> "idle", auto |-> FALSE]
  BY DEF Promote, Crash, Excuse, Idle
<1>2. now \in Times /\ now \in Nat /\ Day(now) \in 0..(Days - 1)
  BY DayInDays DEF DayInv, Typed
<1>3. \A d \in 0..(Days - 1) : excused'[d] = IF d = Day(now) THEN excused[d] + 1 ELSE excused[d]
  BY <1>1, <1>2 DEF DayInv, Typed
<1>4. Typed'
  <2>1. excused' \in [0..(Days - 1) -> Nat]
    BY <1>1, <1>2 DEF DayInv, Typed
  <2>2. run' \in RunType
    BY <1>1, RunTypes DEF DayInv, Typed
  <2>3. run'.step # "idle" => latest'.at \in Times
    BY <1>1 DEF DayInv, Typed
  <2> QED
    BY <1>1, <2>1, <2>2, <2>3 DEF DayInv, Typed
<1>5. OncePerDay'
  BY <1>1, <1>2, <1>3 DEF DayInv, Typed, OncePerDay
<1>6. attempts'[Day(now')] <= excused'[Day(now')]
  BY <1>1, <1>2, <1>3 DEF DayInv, Typed, OncePerDay
<1>7. Marked'
  <2>1. attempts'[Day(now')] \in Nat /\ excused'[Day(now')] \in Nat
    BY <1>1, <1>2, <1>4 DEF Typed
  <2> QED
    BY <1>6, <2>1 DEF Marked
<1>8. NotYet'
  BY <1>1 DEF DayInv, NotYet
<1> QED
  BY <1>4, <1>5, <1>7, <1>8 DEF DayInv

(* One automatic backup a day (backup.py:87), failed ones included, but    *)
(* for those a crash or a promotion has made the database forget.          *)
THEOREM OncePerDayHolds ==
    ASSUME BackupRetentionAssumption PROVE Spec => []OncePerDay
<1>1. Init => DayInv
  <2> SUFFICES ASSUME Init PROVE DayInv
    OBVIOUS
  <2>1. 0 \in Times
    <3>1. Days * Minute >= 1 /\ Days * Minute \in Nat
      BY DEF BackupRetentionAssumption
    <3> QED
      BY <3>1 DEF Times
  <2>2. Day(0) \in 0..(Days - 1)
    BY <2>1, DayInDays
  <2>3. /\ now = 0 /\ run = [step |-> "idle", auto |-> FALSE]
        /\ attempts = [d \in 0..(Days - 1) |-> 0]
        /\ excused = [d \in 0..(Days - 1) |-> 0]
    BY DEF Init, Idle
  <2> QED
    BY <2>1, <2>2, <2>3, RunTypes DEF DayInv, Typed, NotYet, Marked, OncePerDay
<1>2. DayInv /\ [Next]_vars => DayInv'
  <2> SUFFICES ASSUME DayInv, [Next]_vars PROVE DayInv'
    OBVIOUS
  <2>1. CASE UNCHANGED vars
    BY <2>1 DEF vars, DayInv, Typed, NotYet, Marked, OncePerDay
  <2> QED
    BY <2>1, TickCounts, AttemptCounts, RunCounts, ExcuseCounts DEF Next
<1>3. DayInv => OncePerDay
  BY DEF DayInv
<1> QED
  BY <1>1, <1>2, <1>3, PTL DEF Spec
=============================================================================
