----------------------------- MODULE HaWatchdog -----------------------------
(***************************************************************************)
(* The watchdog of a standby (app/ha.py:229-305): it probes the other      *)
(* controller, counts failures, journals one alert per outage and feeds    *)
(* the banner of the UI.  It never switches over by itself.  Journaling an *)
(* alert is a database write: it may raise, and the loop then goes on to   *)
(* its next probe, leaving undone what followed the write.                 *)
(***************************************************************************)
EXTENDS Integers

CONSTANTS
    Threshold,      \* the setting ha_watchdog_fails
    MaxChanges,     \* bound on the changes of the world outside
    WriteOutcomes   \* what journaling an alert may do: {"ok"} or {"ok", "raises"}

ASSUME HaWatchdogAssumption ==
    /\ Threshold \in Nat \ {0} /\ MaxChanges \in Nat
    /\ WriteOutcomes \subseteq {"ok", "raises"} /\ "ok" \in WriteOutcomes

VARIABLES
    peer,       \* what a probe meets: up, refusing, down, or unpaired (no
                \* address, or no certificate to present or to trust)
    changes,    \* changes of it so far
    alive,      \* _peer["alive"]: unknown, yes, no
    fails,      \* _peer["fails"]
    armed,      \* the loop has alerted and not seen the peer back
    silence,    \* probes in a row that met a peer down, up to now (history)
    unwritten   \* an all-clear raised, nothing cleared the count since (history)

history == <<silence, unwritten>>
watchVars == <<peer, changes, alive, fails, armed, history>>

WatchTypeOK ==
    /\ peer \in {"up", "refusing", "down", "unpaired"}
    /\ changes \in 0..MaxChanges
    /\ alive \in {"unknown", "yes", "no"}
    /\ fails \in 0..Threshold + 1
    /\ armed \in BOOLEAN
    /\ silence \in 0..Threshold + 1
    /\ unwritten \in BOOLEAN

\* What the UI shows (peer_state): computed from the counters, not from armed.
Banner == alive = "no" /\ fails >= Threshold

\* Beyond the threshold nothing depends on the count: it saturates here.
Count(n) == IF n <= Threshold THEN n + 1 ELSE n

Change ==
    /\ changes < MaxChanges /\ changes' = changes + 1
    /\ peer' \in {"up", "refusing", "down", "unpaired"} \ {peer}
    /\ UNCHANGED <<alive, fails, armed, history>>

\* Nothing to watch: nothing is claimed, and the alarm is left as it was.
ProbeUnknown ==
    /\ peer = "unpaired"
    /\ alive' = "unknown" /\ fails' = 0
    /\ silence' = 0 /\ unwritten' = FALSE
    /\ UNCHANGED <<peer, changes, armed>>

\* Mutant: an answer does not clear the count of failures.
ProbeAnswersKept ==
    /\ peer \in {"up", "refusing"}
    /\ alive' = "yes" /\ silence' = 0
    /\ armed' = FALSE /\ unwritten' = FALSE
    /\ UNCHANGED <<peer, changes, fails>>

\* Any answer counts, a refusal included: it is alive.  The all-clear of an
\* alarm is journaled first; if that raises, the alarm and the count stay.
ProbeAnswers ==
    /\ peer \in {"up", "refusing"}
    /\ alive' = "yes" /\ silence' = 0
    /\ \E write \in (IF armed THEN WriteOutcomes ELSE {"ok"}) :
          /\ IF write = "ok" THEN armed' = FALSE /\ fails' = 0
                             ELSE UNCHANGED <<armed, fails>>
          /\ unwritten' = (write = "raises")
    /\ UNCHANGED <<peer, changes>>

\* Mutant: the alert waits for one failure more than the setting.
ProbeFailsLate ==
    /\ peer = "down"
    /\ alive' = "no" /\ fails' = Count(fails)
    /\ armed' = (armed \/ fails > Threshold)
    /\ silence' = Count(silence)
    /\ UNCHANGED <<peer, changes, unwritten>>

\* Mutant: every failure starts the count again.
ProbeForgets ==
    /\ peer = "down"
    /\ alive' = "no" /\ fails' = 1
    /\ armed' = (armed \/ fails' >= Threshold)
    /\ silence' = Count(silence)
    /\ UNCHANGED <<peer, changes, unwritten>>

\* Armed before the alert is journaled: a write that raises changes nothing.
ProbeFails ==
    /\ peer = "down"
    /\ alive' = "no" /\ fails' = Count(fails)
    /\ armed' = (armed \/ fails' >= Threshold)
    /\ silence' = Count(silence)
    /\ UNCHANGED <<peer, changes, unwritten>>

WatchInit ==
    /\ peer \in {"up", "refusing", "down", "unpaired"}
    /\ changes = 0
    /\ alive = "unknown" /\ fails = 0 /\ armed = FALSE
    /\ silence = 0 /\ unwritten = FALSE

Probe == ProbeUnknown \/ ProbeAnswers \/ ProbeFails

WatchNext == Change \/ Probe

\* The loop probes for ever, every ha_watchdog_interval_s.
WatchSpec == WatchInit /\ [][WatchNext]_watchVars /\ WF_watchVars(Probe)

-----------------------------------------------------------------------------
\* The alarm is raised after ha_watchdog_fails failures, not before (HA.md:11):
\* the banner is lit only when that many probes in a row met a peer down, but
\* after an all-clear that could not be journaled, which leaves the count.
BannerIsDeserved == Banner /\ ~unwritten => silence >= Threshold

\* The operator and the journal agree: a lit banner has its alarm in the loop,
\* which is what will journal the return of the peer (ha.py:283-291).
BannerIsArmed == Banner => armed

\* An active that dies for good lights the banner for good, whatever came
\* before and whether or not its alerts could be written (HA.md:11).
DeadIsSeen == <>[](peer = "down") => <>[]Banner
=============================================================================
