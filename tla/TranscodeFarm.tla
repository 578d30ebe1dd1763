--------------------------- MODULE TranscodeFarm ---------------------------
(***************************************************************************)
(* The transcoding farm (app/transcode_farm.py): one queue in the database *)
(* of the orchestrator, transcoders that are handed one job at a time and  *)
(* polled.  Four kinds of threads touch a job: the loop (tick), the thread *)
(* copying a source in, the thread fetching an output back, and a request  *)
(* of the operator.  They share its row, written under a condition on the  *)
(* status (_update, expect), and _tasks, which lives in memory.            *)
(*                                                                         *)
(* The loop reads rows at the start of a pass and acts on them later, with *)
(* calls to transcoders in between; here it reads one row and acts on it   *)
(* after anything else may have happened.  Left out: choice between        *)
(* transcoders (free slots, project, ability), priorities, progress,       *)
(* tokens and working files, bins.  A transcoder is external: it queues    *)
(* what it is given under a number of its own.                             *)
(***************************************************************************)
EXTENDS Naturals, Sequences, FiniteSets

CONSTANTS
    Jobs, Workers,
    NoWorker,
    Ways,               \* how each job can be read: direct, stream, copy
    MAX_ATTEMPTS,
    MaxDowns,           \* bound on transcoders lost
    MaxCrashes,         \* bound on crashes of the orchestrator
    MaxCancels,         \* bound on cancellations
    MaxRetries          \* bound on jobs asked for again

ASSUME TranscodeFarmAssumption ==
    /\ NoWorker \notin Workers
    /\ Ways \in [Jobs -> SUBSET {"direct", "stream", "copy"}]
    /\ MAX_ATTEMPTS \in Nat \ {0}
    /\ MaxDowns \in Nat /\ MaxCrashes \in Nat
    /\ MaxCancels \in Nat /\ MaxRetries \in Nat

VARIABLES
    row,        \* farm_jobs
    tasks,      \* _tasks[job]["kind"] and its state, "none" when absent
    pass,       \* the loop: the row it has read, the call it is making
    copies,     \* the threads of _start_copy_in
    returns,    \* how many threads of _start_return run for each job
    cancelling, \* the row a cancellation has read, or Nothing
    queue,      \* the jobs given to each transcoder, by their number
    up,         \* transcoders that answer
    downs, crashes, cancels, retries

counters == <<downs, crashes, cancels, retries>>
workers == <<queue, up>>
vars == <<row, tasks, pass, copies, returns, cancelling, workers, counters>>

Active == {"pending", "transfer_in", "running", "transfer_out"}
Finished == {"done", "failed", "cancelled"}

Row == [status : Active \cup Finished \cup {"absent", "purged"},
        access : {"none", "direct", "stream", "copy"},
        worker : Workers \cup {NoWorker}, wjid : Nat,
        attempts : 0..MAX_ATTEMPTS, error : {"none", "call", "restart", "lost", "gone", "copy", "return", "worker"}]

Fresh == [status |-> "pending", access |-> "none", worker |-> NoWorker,
          wjid |-> 0, attempts |-> 0, error |-> "none"]
Nothing == [Fresh EXCEPT !.status = "absent"]

Rest(j) == [step |-> "idle", job |-> j, seen |-> Nothing, ok |-> FALSE]
Idle == Rest(CHOOSE j \in Jobs : TRUE)

TypeOK ==
    /\ row \in [Jobs -> Row]
    /\ tasks \in [Jobs -> {"none", "copy_in", "fetching", "returning", "arrived", "failed"}]
    /\ pass \in [step : {"idle", "look", "sent"}, job : Jobs, seen : Row, ok : BOOLEAN]
    /\ copies \subseteq [job : Jobs, worker : Workers, wjid : Nat, seen : Row,
                         step : {"copying", "copied", "sending", "sent", "failed", "requeue"}]
    /\ returns \in [Jobs -> Nat]
    /\ cancelling \in [Jobs -> Row]
    /\ queue \in [Workers -> Seq([job : Jobs, known : BOOLEAN,
                                  state : {"open", "done", "failed", "cancelled", "lost"}])]
    /\ up \in [Workers -> BOOLEAN]
    /\ \A j \in Jobs :
          /\ row[j].status \in {"transfer_in", "running", "transfer_out"} => row[j].worker # NoWorker
          /\ row[j].status \in {"running", "transfer_out"} => row[j].wjid > 0

-----------------------------------------------------------------------------
(* _update and what is built on it.                                        *)

\* Mutant: the row is written whatever has become of the job.
UpdateBlindly(j, expect, new) == row' = [row EXCEPT ![j] = new]

Update(j, expect, new) ==
    row' = IF row[j].status \in expect THEN [row EXCEPT ![j] = new] ELSE row

\* Mutant: attempts are not counted.
RequeueUncounted(j, seen, why) == Update(j, Active, [Fresh EXCEPT !.error = why])

\* _requeue: from the row the caller has read, which may be old.
Requeue(j, seen, why) ==
    LET n == seen.attempts + 1
    IN  Update(j, Active,
               IF n >= MAX_ATTEMPTS
               THEN [row[j] EXCEPT !.status = "failed", !.attempts = n, !.error = why]
               ELSE [Fresh EXCEPT !.attempts = n, !.error = why])

\* _requeue_return: the output is still there, only its transfer is tried again.
RequeueReturn(j, seen) ==
    LET n == seen.attempts + 1
    IN  Update(j, {"transfer_out"},
               [row[j] EXCEPT !.attempts = n, !.error = "return",
                              !.status = IF n >= MAX_ATTEMPTS THEN "failed" ELSE @])

Finish(j) == Update(j, {"running", "transfer_out"}, [row[j] EXCEPT !.status = "done"])

SetTask(j, task) == tasks' = [tasks EXCEPT ![j] = task]
PopTask(j) == SetTask(j, "none")

\* A transcoder takes a job: it answers the number it gave it, the next one.
Enqueue(w, j) == queue' = [queue EXCEPT ![w] = Append(@, [job |-> j, state |-> "open", known |-> TRUE])]

\* What a transcoder says of a number: 404 when it knows no such job.
StateOf(w, i) ==
    IF i \in DOMAIN queue[w] /\ queue[w][i].known THEN queue[w][i].state ELSE "gone"

-----------------------------------------------------------------------------
(* The operator.                                                           *)

\* submit, submit_asset, submit_proxy, submit_storyboard.
Submit(j) ==
    /\ row[j].status = "absent"
    /\ row' = [row EXCEPT ![j] = Fresh]
    /\ UNCHANGED <<tasks, pass, copies, returns, cancelling, workers, counters>>

\* cancel: the row is read; a running job is cancelled at its transcoder...
CancelRead(j) ==
    /\ cancels < MaxCancels /\ cancels' = cancels + 1
    /\ cancelling[j] = Nothing /\ row[j].status \in Active
    /\ cancelling' = [cancelling EXCEPT ![j] = row[j]]
    /\ queue' = LET w == row[j].worker
                IN  IF row[j].status = "running" /\ up[w] /\ StateOf(w, row[j].wjid) = "open"
                    THEN [queue EXCEPT ![w][row[j].wjid].state = "cancelled"]
                    ELSE queue
    /\ UNCHANGED <<row, tasks, pass, copies, returns, up, downs, crashes, retries>>

\* ...then the row is written, and what was going on in memory forgotten.
CancelWrite(j) ==
    /\ cancelling[j] # Nothing
    /\ cancelling' = [cancelling EXCEPT ![j] = Nothing]
    /\ Update(j, Active, [row[j] EXCEPT !.status = "cancelled"])
    /\ PopTask(j)
    /\ UNCHANGED <<pass, copies, returns, workers, counters>>

Retry(j) ==
    /\ retries < MaxRetries /\ retries' = retries + 1
    /\ row[j].status \in Finished
    /\ row' = [row EXCEPT ![j] = Fresh]
    /\ UNCHANGED <<tasks, pass, copies, returns, cancelling, workers, downs, crashes, cancels>>

Purge(j) ==
    /\ row[j].status \in {"done", "cancelled"}
    /\ row' = [row EXCEPT ![j].status = "purged"]
    /\ UNCHANGED <<tasks, pass, copies, returns, cancelling, workers, counters>>

-----------------------------------------------------------------------------
(* The loop: following the jobs that were handed over.                     *)

\* The row and whether its transcoder answered /state, at the start of a pass.
Look(j) ==
    /\ pass.step = "idle" /\ row[j].status \in Active
    /\ pass' = [step |-> "look", job |-> j, seen |-> row[j],
                ok |-> row[j].worker # NoWorker /\ up[row[j].worker]]
    /\ UNCHANGED <<row, tasks, copies, returns, cancelling, workers, counters>>

Acting(j) == pass.step = "look" /\ pass.job = j
ActDone == pass' = Idle

\* A copy without a thread: the orchestrator was restarted meanwhile.
FollowCopy(j) ==
    /\ Acting(j) /\ pass.seen.status = "transfer_in"
    /\ IF tasks[j] = "none" THEN Requeue(j, pass.seen, "restart") ELSE UNCHANGED row
    /\ ActDone
    /\ UNCHANGED <<tasks, copies, returns, cancelling, workers, counters>>

\* The transcoder does not answer: after MEMBER_LOST_S, the job is queued again.
FollowLost(j) ==
    /\ Acting(j) /\ pass.seen.status \in {"running", "transfer_out"} /\ ~pass.ok
    /\ Requeue(j, pass.seen, "lost") \/ UNCHANGED row
    /\ ActDone
    /\ UNCHANGED <<tasks, copies, returns, cancelling, workers, counters>>

\* Mutant: a job its transcoder does not know is taken for finished.
FollowRunningHopeful(j) ==
    /\ Acting(j) /\ pass.seen.status = "running" /\ pass.ok
    /\ IF StateOf(pass.seen.worker, pass.seen.wjid) \in {"done", "gone"}
       THEN Finish(j) ELSE UNCHANGED row
    /\ ActDone
    /\ UNCHANGED <<tasks, copies, returns, cancelling, workers, counters>>

\* What the transcoder says of its job; no answer, or not finished: wait.
\* Read in place, the output is where it should be; otherwise it must come back.
FollowRunning(j) ==
    LET seen == pass.seen
        w == seen.worker
        state == StateOf(w, seen.wjid)
    IN  /\ Acting(j) /\ seen.status = "running" /\ pass.ok
        /\ \/ ~up[w] /\ UNCHANGED row
           \/ up[w] /\ state = "open" /\ UNCHANGED row
           \/ up[w] /\ state = "gone" /\ Requeue(j, seen, "gone")
           \/ up[w] /\ state = "done" /\ seen.access = "direct" /\ Finish(j)
           \/ /\ up[w] /\ state = "done" /\ seen.access # "direct"
              /\ Update(j, {"running"}, [row[j] EXCEPT !.status = "transfer_out"])
           \/ /\ up[w] /\ state \in {"failed", "cancelled"}
              /\ Update(j, {"running"}, [row[j] EXCEPT !.status = state, !.error = "worker"])
        /\ ActDone
        /\ UNCHANGED <<tasks, copies, returns, cancelling, workers, counters>>

Returning(j) == Acting(j) /\ pass.seen.status = "transfer_out" /\ pass.ok

\* _start_return: pulled by a transcoder of the node of the source, or by its
\* host in a thread; refused or unreachable, it counts as a failed attempt.
ReturnStart(j) ==
    /\ Returning(j) /\ tasks[j] = "none"
    /\ \/ SetTask(j, "fetching") /\ UNCHANGED <<row, returns>>
       \/ /\ SetTask(j, "returning") /\ UNCHANGED row
          /\ returns' = [returns EXCEPT ![j] = @ + 1]
       \/ RequeueReturn(j, pass.seen) /\ UNCHANGED <<tasks, returns>>
    /\ ActDone
    /\ UNCHANGED <<copies, cancelling, workers, counters>>

\* Mutant: the task of a return that failed is left behind.
ReturnEndsKept(j) ==
    /\ Returning(j) /\ tasks[j] \in {"arrived", "failed"}
    /\ IF tasks[j] = "arrived" THEN Finish(j) ELSE UNCHANGED row
    /\ ActDone
    /\ UNCHANGED <<tasks, copies, returns, cancelling, workers, counters>>

ReturnEnds(j) ==
    /\ Returning(j) /\ tasks[j] \in {"arrived", "failed"}
    /\ PopTask(j)
    /\ IF tasks[j] = "arrived" THEN Finish(j) ELSE RequeueReturn(j, pass.seen)
    /\ ActDone
    /\ UNCHANGED <<copies, returns, cancelling, workers, counters>>

ReturnWait(j) ==
    /\ Returning(j) /\ tasks[j] \in {"fetching", "returning", "copy_in"}
    /\ ActDone
    /\ UNCHANGED <<row, tasks, copies, returns, cancelling, workers, counters>>

Follow(j) ==
    \/ FollowCopy(j) \/ FollowLost(j) \/ FollowRunning(j)
    \/ ReturnStart(j) \/ ReturnEnds(j) \/ ReturnWait(j)

-----------------------------------------------------------------------------
(* The loop: handing a job to a transcoder.                                *)

Dispatching(j) == Acting(j) /\ pass.seen.status = "pending"

\* No transcoder can take it now: it stays in the queue.
NoCandidate(j) ==
    /\ Dispatching(j)
    /\ ActDone
    /\ UNCHANGED <<row, tasks, copies, returns, cancelling, workers, counters>>

\* /submit is answered; the row is written next.
Send(j, w, way) ==
    /\ Dispatching(j) /\ way \in Ways[j] \ {"copy"} /\ up[w]
    /\ Enqueue(w, j)
    /\ pass' = [pass EXCEPT !.step = "sent", !.seen.worker = w, !.seen.access = way,
                            !.seen.wjid = Len(queue[w]) + 1]
    /\ UNCHANGED <<row, tasks, copies, returns, cancelling, up, counters>>

Record(j) ==
    /\ pass.step = "sent" /\ pass.job = j
    /\ Update(j, {"pending"}, [row[j] EXCEPT !.status = "running", !.error = "none",
                  !.worker = pass.seen.worker, !.access = pass.seen.access, !.wjid = pass.seen.wjid])
    /\ ActDone
    /\ UNCHANGED <<tasks, copies, returns, cancelling, workers, counters>>

\* The call fails, with the job taken all the same or not: queued again.
SendFails(j, w) ==
    /\ Dispatching(j)
    /\ (Enqueue(w, j) /\ up[w]) \/ UNCHANGED queue
    /\ Requeue(j, pass.seen, "call")
    /\ ActDone
    /\ UNCHANGED <<tasks, copies, returns, cancelling, up, counters>>

\* The transcoder refuses the job.
SendRefused(j) ==
    /\ Dispatching(j) /\ Ways[j] # {"copy"}
    /\ Update(j, {"pending"}, [row[j] EXCEPT !.status = "failed", !.error = "worker"])
    /\ ActDone
    /\ UNCHANGED <<tasks, copies, returns, cancelling, workers, counters>>

\* A copy: the row is written first, and a thread started if it was.
StartCopy(j, w) ==
    /\ Dispatching(j) /\ "copy" \in Ways[j] /\ up[w]
    /\ Update(j, {"pending"}, [row[j] EXCEPT !.status = "transfer_in", !.access = "copy",
                                             !.worker = w, !.error = "none"])
    /\ IF row[j].status = "pending"
       THEN /\ SetTask(j, "copy_in")
            /\ copies' = copies \cup {[job |-> j, worker |-> w, wjid |-> 0, seen |-> Nothing,
                                       step |-> "copying"]}
       ELSE UNCHANGED <<tasks, copies>>
    /\ ActDone
    /\ UNCHANGED <<returns, cancelling, workers, counters>>

Dispatch(j) ==
    \/ NoCandidate(j) \/ Record(j) \/ SendRefused(j)
    \/ \E w \in Workers :
          \/ SendFails(j, w) \/ StartCopy(j, w)
          \/ \E way \in {"direct", "stream"} : Send(j, w, way)

-----------------------------------------------------------------------------
(* The thread copying a source to the transcoder chosen for it.            *)

CopyGoes(c, to) == copies' = (copies \ {c}) \cup {[c EXCEPT !.step = to]}
CopyEnds(c) == copies' = copies \ {c} /\ PopTask(c.job)

\* The host of the source sends the file.
CopyFile(c) ==
    /\ c.step = "copying"
    /\ \E to \in {"copied", "failed"} : CopyGoes(c, to)
    /\ UNCHANGED <<row, tasks, pass, returns, cancelling, workers, counters>>

\* A job cancelled during the copy is not submitted.
CopyCheck(c) ==
    /\ c.step = "copied"
    /\ IF row[c.job].status = "transfer_in"
       THEN CopyGoes(c, "sending") /\ UNCHANGED tasks
       ELSE CopyEnds(c)
    /\ UNCHANGED <<row, pass, returns, cancelling, workers, counters>>

\* Mutant: the job is submitted to whichever transcoder is free by now.
CopySendAnywhere(c) ==
    /\ c.step = "sending"
    /\ \E w \in Workers :
          /\ up[w]
          /\ Enqueue(w, c.job)
          /\ copies' = (copies \ {c}) \cup {[c EXCEPT !.step = "sent", !.wjid = Len(queue[w]) + 1]}
    /\ UNCHANGED <<row, tasks, pass, returns, cancelling, up, counters>>

CopySend(c) ==
    /\ c.step = "sending"
    /\ LET w == c.worker
       IN  \/ /\ up[w]
              /\ Enqueue(w, c.job)
              /\ copies' = (copies \ {c}) \cup {[c EXCEPT !.step = "sent", !.wjid = Len(queue[w]) + 1]}
           \/ ((Enqueue(w, c.job) /\ up[w]) \/ UNCHANGED queue) /\ CopyGoes(c, "failed")
    /\ UNCHANGED <<row, tasks, pass, returns, cancelling, up, counters>>

CopyRefused(c) ==
    /\ c.step = "sending"
    /\ Update(c.job, {"transfer_in"}, [row[c.job] EXCEPT !.status = "failed", !.error = "worker"])
    /\ CopyEnds(c)
    /\ UNCHANGED <<pass, returns, cancelling, workers, counters>>

CopyRecord(c) ==
    /\ c.step = "sent"
    /\ Update(c.job, {"transfer_in"}, [row[c.job] EXCEPT !.status = "running", !.wjid = c.wjid])
    /\ CopyEnds(c)
    /\ UNCHANGED <<pass, returns, cancelling, workers, counters>>

\* Any failure: the row is read, and if it still says the copy, queued again.
CopyFails(c) ==
    /\ c.step = "failed"
    /\ IF row[c.job].status = "transfer_in"
       THEN /\ copies' = (copies \ {c}) \cup {[c EXCEPT !.step = "requeue", !.seen = row[c.job]]}
            /\ UNCHANGED tasks
       ELSE CopyEnds(c)
    /\ UNCHANGED <<row, pass, returns, cancelling, workers, counters>>

CopyRequeue(c) ==
    /\ c.step = "requeue"
    /\ Requeue(c.job, c.seen, "copy")
    /\ CopyEnds(c)
    /\ UNCHANGED <<pass, returns, cancelling, workers, counters>>

CopyIn(c) ==
    \/ CopyFile(c) \/ CopyCheck(c) \/ CopySend(c) \/ CopyRefused(c)
    \/ CopyRecord(c) \/ CopyFails(c) \/ CopyRequeue(c)

\* The host of the source has the output, or could not get it: whatever has
\* become of the job, this is what _tasks says.
HostReturns(j) ==
    /\ returns[j] > 0
    /\ returns' = [returns EXCEPT ![j] = @ - 1]
    /\ \E task \in {"arrived", "failed"} : SetTask(j, task)
    /\ UNCHANGED <<row, pass, copies, cancelling, workers, counters>>

\* The transcoder of the source has it, or could not: it is asked by its token.
ServerReturns(j) ==
    /\ tasks[j] = "fetching"
    /\ \E task \in {"arrived", "failed"} : SetTask(j, task)
    /\ UNCHANGED <<row, pass, copies, returns, cancelling, workers, counters>>

-----------------------------------------------------------------------------
(* Transcoders, and the orchestrator itself.                               *)

WorkerEnds(w, i) ==
    /\ queue[w][i].state = "open"
    /\ \E state \in {"done", "failed", "cancelled"} :
          queue' = [queue EXCEPT ![w][i].state = state]
    /\ UNCHANGED <<row, tasks, pass, copies, returns, cancelling, up, counters>>

WorkerDown(w) ==
    /\ downs < MaxDowns /\ downs' = downs + 1
    /\ up[w] /\ up' = [up EXCEPT ![w] = FALSE]
    /\ UNCHANGED <<row, tasks, pass, copies, returns, cancelling, queue, crashes, cancels, retries>>

\* Back: it was only out of reach, or it restarted with nothing left of its queue.
WorkerUp(w) ==
    /\ ~up[w] /\ up' = [up EXCEPT ![w] = TRUE]
    /\ \/ UNCHANGED queue
       \/ LET Forgotten(e) == [e EXCEPT !.known = FALSE,
                                        !.state = IF e.state = "open" THEN "lost" ELSE e.state]
          IN  queue' = [queue EXCEPT ![w] = [i \in DOMAIN queue[w] |-> Forgotten(queue[w][i])]]
    /\ UNCHANGED <<row, tasks, pass, copies, returns, cancelling, counters>>

\* The service dies and restarts: the database stays, the memory goes.
Crash ==
    /\ crashes < MaxCrashes /\ crashes' = crashes + 1
    /\ pass' = Idle /\ copies' = {}
    /\ tasks' = [j \in Jobs |-> "none"]
    /\ returns' = [j \in Jobs |-> 0]
    /\ cancelling' = [j \in Jobs |-> Nothing]
    /\ UNCHANGED <<row, workers, downs, cancels, retries>>

-----------------------------------------------------------------------------
Init ==
    /\ row = [j \in Jobs |-> Nothing]
    /\ tasks = [j \in Jobs |-> "none"]
    /\ pass = Idle /\ copies = {}
    /\ returns = [j \in Jobs |-> 0]
    /\ cancelling = [j \in Jobs |-> Nothing]
    /\ queue = [w \in Workers |-> <<>>]
    /\ up = [w \in Workers |-> TRUE]
    /\ downs = 0 /\ crashes = 0 /\ cancels = 0 /\ retries = 0

Operator(j) == Submit(j) \/ CancelRead(j) \/ CancelWrite(j) \/ Retry(j) \/ Purge(j)
Tick(j) == Look(j) \/ Follow(j) \/ Dispatch(j)

Next ==
    \/ \E j \in Jobs : Operator(j) \/ Tick(j) \/ HostReturns(j) \/ ServerReturns(j)
    \/ \E c \in copies : CopyIn(c)
    \/ \E w \in Workers :
          WorkerDown(w) \/ WorkerUp(w) \/ \E i \in DOMAIN queue[w] : WorkerEnds(w, i)
    \/ Crash

Spec == Init /\ [][Next]_vars

\* The loop visits every job again and again, threads and calls end, a started
\* encoding ends and a lost transcoder comes back; nobody is bound to cancel.
Fairness ==
    /\ \A j \in Jobs :
          /\ SF_vars(Look(j)) /\ WF_vars(Follow(j))
          /\ SF_vars(\E w \in Workers : StartCopy(j, w) \/ \E way \in {"direct", "stream"} : Send(j, w, way))
          /\ WF_vars(Dispatch(j)) /\ WF_vars(CancelWrite(j))
          /\ WF_vars(HostReturns(j)) /\ WF_vars(ServerReturns(j))
    /\ WF_vars(\E c \in copies : CopyIn(c))
    /\ \A w \in Workers :
          WF_vars(WorkerUp(w)) /\ WF_vars(\E i \in DOMAIN queue[w] : WorkerEnds(w, i))

FairSpec == Spec /\ Fairness

-----------------------------------------------------------------------------
\* A job handed over is followed under the number it has at the transcoder it
\* is said to be at, never through somebody else's work (transcode_farm.py:858);
\* but for a copied job cancelled and asked again during its copy, whose former
\* copy goes on and writes its own number (README, 7).
WorkIsOwn ==
    \A j \in Jobs : LET w == row[j].worker
                        i == row[j].wjid
                    IN  /\ row[j].status \in {"running", "transfer_out"}
                        /\ retries = 0 \/ row[j].access # "copy"
                        => i \in DOMAIN queue[w] /\ queue[w][i].job = j

\* A job is done only once a transcoder has produced its output, however many
\* were lost, asked twice or restarted on the way (transcode_farm.py:806-826).
DoneWasDone ==
    \A j \in Jobs : row[j].status = "done" =>
        \E w \in Workers : \E i \in DOMAIN queue[w] :
            queue[w][i].job = j /\ queue[w][i].state = "done"

Encodings(j) ==
    LET OfWorker(w) == {i \in DOMAIN queue[w] : queue[w][i].job = j}
    IN  UNION {{<<w, i>> : i \in OfWorker(w)} : w \in Workers}

\* Definitive failure after MAX_ATTEMPTS (transcode_farm.py:646): that many
\* encodings at the most of a job asked for once, but for those that a crash
\* between a submission and the row has made the queue forget.  A retry during
\* a copy leaves the former copy at work, as WorkIsOwn says.
EncodingsBounded ==
    retries = 0 =>
        \A j \in Jobs : Cardinality(Encodings(j)) <= MAX_ATTEMPTS + crashes

\* An end is final but for a retry, and a cancellation that came in the middle
\* of a call wins (transcode_farm.py:138-139).
EndIsFinal ==
    [][\A j \in Jobs : row[j].status \in Finished =>
          row'[j].status \in {row[j].status, "purged"}
          \/ (retries' > retries /\ row'[j] = Fresh)]_vars

\* A copy is interrupted by a restart of the orchestrator (transcode_farm.py:834):
\* a job that its copy has brought to a transcoder is not sent back for it.
CopiedIsNotInterrupted ==
    [][\A j \in Jobs : row[j].status = "running" => row'[j].error # "restart"]_vars

\* Every job asked for ends, whatever is lost on the way.
EveryJobEnds == \A j \in Jobs : row[j].status \in Active ~> row[j].status \notin Active

\* The farm keeps the promise of FarmLifecycle.
Lifecycle == INSTANCE FarmLifecycle WITH
    MaxTries <- MAX_ATTEMPTS,
    state <- [j \in Jobs |->
                CASE row[j].status = "absent" -> "unknown"
                  [] row[j].status = "pending" -> "queued"
                  [] row[j].status \in {"transfer_in", "running", "transfer_out"} -> "working"
                  [] OTHER -> row[j].status],
    tries <- [j \in Jobs |-> row[j].attempts]

KeepsPromise == Lifecycle!Spec
=============================================================================
