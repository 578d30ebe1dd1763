--------------------------- MODULE FarmLifecycle ---------------------------
(***************************************************************************)
(* What the transcoding farm promises of each job, whatever happens to the *)
(* transcoders, the transfers and the orchestrator: it is queued, worked   *)
(* on, and ends once; every attempt but the first follows one that failed  *)
(* and they are counted one by one up to MaxTries; an end is final until   *)
(* somebody asks for the job again (app/transcode_farm.py:41-58).          *)
(***************************************************************************)
EXTENDS Naturals

CONSTANTS
    Jobs,
    MaxTries    \* a positive number

VARIABLES
    state,      \* of each job
    tries       \* failed attempts of each job since it was asked for

Unfinished == {"queued", "working"}
Finished == {"done", "failed", "cancelled"}

Init ==
    /\ state = [j \in Jobs |-> "unknown"]
    /\ tries = [j \in Jobs |-> 0]

Move(j, from, to) == state[j] \in from /\ state' = [state EXCEPT ![j] = to]

Submit(j) == Move(j, {"unknown"}, "queued") /\ UNCHANGED tries
Take(j) == Move(j, {"queued"}, "working") /\ UNCHANGED tries

\* An attempt fails: another one, of the whole job or of its last transfer.
TryAgain(j) ==
    /\ tries[j] + 1 < MaxTries
    /\ tries' = [tries EXCEPT ![j] = @ + 1]
    /\ \/ Move(j, Unfinished, "queued")
       \/ Move(j, {"working"}, "working")

\* The last attempt fails.
GiveUp(j) ==
    /\ tries[j] + 1 = MaxTries
    /\ tries' = [tries EXCEPT ![j] = @ + 1]
    /\ Move(j, Unfinished, "failed")

\* The transcoder refuses the job, or fails it: no other would do better.
Refuse(j) == Move(j, Unfinished, "failed") /\ UNCHANGED tries

Deliver(j) == Move(j, {"working"}, "done") /\ UNCHANGED tries
Cancel(j) == Move(j, Unfinished, "cancelled") /\ UNCHANGED tries

Retry(j) ==
    /\ Move(j, Finished, "queued")
    /\ tries' = [tries EXCEPT ![j] = 0]

\* A job without failure may leave the list.
Purge(j) == Move(j, {"done", "cancelled"}, "purged") /\ UNCHANGED tries

Next == \E j \in Jobs :
    \/ Submit(j) \/ Take(j) \/ TryAgain(j) \/ GiveUp(j) \/ Refuse(j)
    \/ Deliver(j) \/ Cancel(j) \/ Retry(j) \/ Purge(j)

Spec == Init /\ [][Next]_<<state, tries>>
=============================================================================
