------------------------- MODULE TranscodeFarmProofs -------------------------
(***************************************************************************)
(* Theorems on the farm, for any jobs, transcoders and bounds: whose work  *)
(* is followed, what "done" stands for, how many encodings there are, that *)
(* an end is final, and that every step is one of FarmLifecycle.           *)
(***************************************************************************)
EXTENDS TranscodeFarm, FiniteSetTheorems, TLAPS

(***************************************************************************)
(* Parts of the invariant.                                                 *)
(***************************************************************************)
Working == {"running", "transfer_out"}
Ended == Finished \cup {"purged"}

Entry == [job : Jobs, known : BOOLEAN, state : {"open", "done", "failed", "cancelled", "lost"}]
CopySteps == {"copying", "copied", "sending", "sent", "failed", "requeue"}

Typed ==
    /\ row \in [Jobs -> Row]
    /\ tasks \in [Jobs -> {"none", "copy_in", "fetching", "returning", "arrived", "failed"}]
    /\ pass \in [step : {"idle", "look", "sent"}, job : {pass.job}, seen : Row, ok : BOOLEAN]
    /\ copies \subseteq [job : Jobs, worker : Workers, wjid : Nat, seen : Row, step : CopySteps]
    /\ queue \in [Workers -> Seq(Entry)]
    /\ retries \in 0..MaxRetries /\ crashes \in Nat

(* Number i at transcoder w is work of job j. *)
Owned(q, w, i, j) == w \in Workers /\ i \in DOMAIN q[w] /\ q[w][i].job = j

(* A row, in the database or as the loop has read it; q: the queues, asked: *)
(* how many jobs were asked for again.                                     *)
Plausible(r, j, q, asked) ==
    /\ r.status \in Active => r.attempts < MAX_ATTEMPTS
    /\ r.status = "transfer_in" => r.access = "copy"
    /\ r.access = "copy" => "copy" \in Ways[j]
    /\ r.status = "absent" => r.attempts = 0
    /\ r.status \in Working /\ (asked = 0 \/ r.access # "copy") => Owned(q, r.worker, r.wjid, j)

RowsArePlausible == \A j \in Jobs : Plausible(row[j], j, queue, retries)

PassIsPlausible ==
    pass.step # "idle" =>
        /\ pass.job \in Jobs
        /\ pass.seen.status \in Active /\ Plausible(pass.seen, pass.job, queue, retries)
        /\ pass.step = "sent" =>
              /\ pass.seen.status = "pending" /\ pass.seen.access # "copy"
              /\ Owned(queue, pass.seen.worker, pass.seen.wjid, pass.job)

CopiesArePlausible == \A c \in copies :
    /\ "copy" \in Ways[c.job]
    /\ c.step = "sent" => Owned(queue, c.worker, c.wjid, c.job)
    /\ c.step = "requeue" => c.seen.attempts < MAX_ATTEMPTS

Plain == Typed /\ RowsArePlausible /\ PassIsPlausible /\ CopiesArePlausible

(***************************************************************************)
(* Lemmas about the operators of the model.                                *)
(***************************************************************************)
(* The row of j alone is written, if its status allows, and then says this. *)
Writes(j, from, status, attempts, access, worker, wjid) ==
    /\ row' \in [Jobs -> Row]
    /\ \A k \in Jobs : k # j => row'[k] = row[k]
    /\ IF row[j].status \in from
       THEN /\ row'[j].status = status /\ row'[j].attempts = attempts
            /\ row'[j].access = access /\ row'[j].worker = worker /\ row'[j].wjid = wjid
       ELSE row'[j] = row[j]

(* The status changes, and nothing else that matters. *)
Marks(j, from, status) ==
    Writes(j, from, status, row[j].attempts, row[j].access, row[j].worker, row[j].wjid)

(* The job is queued as if new, after that many attempts. *)
Renews(j, from, attempts) == Writes(j, from, "pending", attempts, "none", NoWorker, 0)

LEMMA UpdateWrites ==
    ASSUME NEW j \in Jobs, NEW expect, NEW new \in Row, row \in [Jobs -> Row], Update(j, expect, new)
    PROVE  Writes(j, expect, new.status, new.attempts, new.access, new.worker, new.wjid)
  BY DEF Update, Writes

LEMMA UpdateMarks ==
    ASSUME NEW j \in Jobs, NEW expect, NEW s \in Active \cup Finished \cup {"purged"},
           row \in [Jobs -> Row], Update(j, expect, [row[j] EXCEPT !.status = s])
    PROVE  Marks(j, expect, s)
<1> DEFINE new == [row[j] EXCEPT !.status = s]
<1>1. /\ new \in Row
      /\ new.status = s /\ new.attempts = row[j].attempts /\ new.access = row[j].access
      /\ new.worker = row[j].worker /\ new.wjid = row[j].wjid
  BY DEF Row
<1>2. Writes(j, expect, new.status, new.attempts, new.access, new.worker, new.wjid)
  BY <1>1, UpdateWrites
<1> HIDE DEF new
<1> QED
  BY <1>1, <1>2 DEF Marks

Refused(r, s) == [r EXCEPT !.status = s, !.error = "worker"]

LEMMA RefusedMarks ==
    ASSUME NEW j \in Jobs, NEW expect, NEW s \in {"failed", "cancelled"},
           row \in [Jobs -> Row], Update(j, expect, Refused(row[j], s))
    PROVE  Marks(j, expect, s)
<1> DEFINE new == Refused(row[j], s)
<1>1. /\ new \in Row
      /\ new.status = s /\ new.attempts = row[j].attempts /\ new.access = row[j].access
      /\ new.worker = row[j].worker /\ new.wjid = row[j].wjid
  BY DEF Row, Finished, Refused
<1>2. Writes(j, expect, new.status, new.attempts, new.access, new.worker, new.wjid)
  BY <1>1, UpdateWrites
<1> HIDE DEF new
<1> QED
  BY <1>1, <1>2 DEF Marks

Errors == {"none", "call", "restart", "lost", "gone", "copy", "return", "worker"}

LEMMA FreshIs ==
    ASSUME TranscodeFarmAssumption
    PROVE  /\ Fresh \in Row
           /\ Fresh.status = "pending" /\ Fresh.attempts = 0 /\ Fresh.access = "none"
           /\ Fresh.worker = NoWorker /\ Fresh.wjid = 0
  BY DEF TranscodeFarmAssumption, Fresh, Row, Active

Again(n, why) == [Fresh EXCEPT !.attempts = n, !.error = why]

LEMMA AgainIs ==
    ASSUME TranscodeFarmAssumption, NEW n \in 0..MAX_ATTEMPTS, NEW why \in Errors
    PROVE  /\ Again(n, why) \in Row
           /\ Again(n, why).status = "pending" /\ Again(n, why).attempts = n
           /\ Again(n, why).access = "none"
           /\ Again(n, why).worker = NoWorker /\ Again(n, why).wjid = 0
  BY DEF TranscodeFarmAssumption, Again, Fresh, Row, Errors, Active

LEMMA RequeueWrites ==
    ASSUME TranscodeFarmAssumption, NEW j \in Jobs, NEW seen \in Row, NEW why \in Errors,
           row \in [Jobs -> Row], seen.attempts < MAX_ATTEMPTS, Requeue(j, seen, why)
    PROVE  IF seen.attempts + 1 = MAX_ATTEMPTS
           THEN Writes(j, Active, "failed", MAX_ATTEMPTS, row[j].access, row[j].worker, row[j].wjid)
           ELSE /\ seen.attempts + 1 < MAX_ATTEMPTS
                /\ Renews(j, Active, seen.attempts + 1)
<1> DEFINE n == seen.attempts + 1
           last == [row[j] EXCEPT !.status = "failed", !.attempts = n, !.error = why]
           again == Again(n, why)
           new == IF n >= MAX_ATTEMPTS THEN last ELSE again
<1>1. seen.attempts \in Nat /\ n \in 0..MAX_ATTEMPTS
  BY DEF TranscodeFarmAssumption, Row
<1>2. /\ last \in Row
      /\ last.status = "failed" /\ last.attempts = n /\ last.access = row[j].access
      /\ last.worker = row[j].worker /\ last.wjid = row[j].wjid
  BY <1>1 DEF Row, Finished, Errors
<1>3. /\ again \in Row
      /\ again.status = "pending" /\ again.attempts = n /\ again.access = "none"
      /\ again.worker = NoWorker /\ again.wjid = 0
  BY <1>1, AgainIs
<1>4. new \in Row
  BY <1>2, <1>3
<1>5. Update(j, Active, new)
  BY DEF Requeue, Again
<1> HIDE DEF last, again
<1>6. Writes(j, Active, new.status, new.attempts, new.access, new.worker, new.wjid)
  BY <1>4, <1>5, UpdateWrites
<1>7. CASE n >= MAX_ATTEMPTS
  <2>1. n = MAX_ATTEMPTS /\ new = last
    BY <1>1, <1>7 DEF TranscodeFarmAssumption
  <2> QED
    BY <1>2, <1>6, <2>1
<1>8. CASE ~ (n >= MAX_ATTEMPTS)
  <2>1. n < MAX_ATTEMPTS /\ n # MAX_ATTEMPTS /\ new = again
    BY <1>1, <1>8 DEF TranscodeFarmAssumption
  <2> QED
    BY <1>3, <1>6, <2>1 DEF Renews
<1> QED
  BY <1>7, <1>8

LEMMA RequeueReturnWrites ==
    ASSUME TranscodeFarmAssumption, NEW j \in Jobs, NEW seen \in Row, row \in [Jobs -> Row],
           seen.attempts < MAX_ATTEMPTS, RequeueReturn(j, seen)
    PROVE  /\ seen.attempts + 1 <= MAX_ATTEMPTS
           /\ Writes(j, {"transfer_out"},
                     IF seen.attempts + 1 = MAX_ATTEMPTS THEN "failed" ELSE "transfer_out",
                     seen.attempts + 1, row[j].access, row[j].worker, row[j].wjid)
<1> DEFINE n == seen.attempts + 1
           new == [row[j] EXCEPT !.attempts = n, !.error = "return",
                                 !.status = IF n >= MAX_ATTEMPTS THEN "failed" ELSE @]
<1>1. seen.attempts \in Nat /\ n \in 0..MAX_ATTEMPTS /\ (n >= MAX_ATTEMPTS <=> n = MAX_ATTEMPTS)
  BY DEF TranscodeFarmAssumption, Row
<1>2. new \in Row
  BY <1>1 DEF Row, Finished
<1>3. /\ new.attempts = n /\ new.access = row[j].access
      /\ new.worker = row[j].worker /\ new.wjid = row[j].wjid
      /\ new.status = IF n = MAX_ATTEMPTS THEN "failed" ELSE row[j].status
  BY <1>1 DEF Row
<1>4. Update(j, {"transfer_out"}, new)
  BY DEF RequeueReturn
<1>5. Writes(j, {"transfer_out"}, new.status, new.attempts, new.access, new.worker, new.wjid)
  BY <1>2, <1>4, UpdateWrites
<1> HIDE DEF new
<1>6. Writes(j, {"transfer_out"}, IF n = MAX_ATTEMPTS THEN "failed" ELSE "transfer_out",
             n, row[j].access, row[j].worker, row[j].wjid)
  BY <1>3, <1>5 DEF Writes
<1> QED
  BY <1>1, <1>6

(* The rows written when a job is handed over. *)
Recorded(r, w, access, i) ==
    [r EXCEPT !.status = "running", !.error = "none", !.worker = w, !.access = access, !.wjid = i]
Copied(r, w) == [r EXCEPT !.status = "transfer_in", !.access = "copy", !.worker = w, !.error = "none"]
Brought(r, i) == [r EXCEPT !.status = "running", !.wjid = i]

LEMMA RecordedIs ==
    ASSUME NEW r \in Row, NEW s \in Row
    PROVE  LET new == Recorded(r, s.worker, s.access, s.wjid)
           IN  /\ new \in Row
               /\ new.status = "running" /\ new.attempts = r.attempts
               /\ new.access = s.access /\ new.worker = s.worker /\ new.wjid = s.wjid
  BY DEF Recorded, Row, Active

LEMMA CopiedIs ==
    ASSUME NEW r \in Row, NEW w \in Workers
    PROVE  LET new == Copied(r, w)
           IN  /\ new \in Row
               /\ new.status = "transfer_in" /\ new.attempts = r.attempts
               /\ new.access = "copy" /\ new.worker = w /\ new.wjid = r.wjid
  BY DEF Copied, Row, Active

LEMMA BroughtIs ==
    ASSUME NEW r \in Row, NEW i \in Nat
    PROVE  LET new == Brought(r, i)
           IN  /\ new \in Row
               /\ new.status = "running" /\ new.attempts = r.attempts
               /\ new.access = r.access /\ new.worker = r.worker /\ new.wjid = i
  BY DEF Brought, Row, Active

(***************************************************************************)
(* Transcoders forget what they do, not what they were given.              *)
(***************************************************************************)
Grows(q, p) == \A w \in Workers : \A i \in DOMAIN q[w] :
    /\ i \in DOMAIN p[w] /\ p[w][i].job = q[w][i].job
    /\ q[w][i].state = "done" => p[w][i].state = "done"

\* The same work under the same numbers, whatever has become of it.
Same(q, p) == \A w \in Workers :
    DOMAIN p[w] = DOMAIN q[w] /\ \A i \in DOMAIN q[w] : p[w][i].job = q[w][i].job

LEMMA EnqueueIs ==
    ASSUME NEW w \in Workers, NEW j \in Jobs, queue \in [Workers -> Seq(Entry)], Enqueue(w, j)
    PROVE  /\ queue' \in [Workers -> Seq(Entry)]
           /\ Grows(queue, queue')
           /\ queue'[w] = Append(queue[w], [job |-> j, state |-> "open", known |-> TRUE])
           /\ \A v \in Workers : v # w => queue'[v] = queue[v]
<1> DEFINE e == [job |-> j, state |-> "open", known |-> TRUE]
<1>1. e \in Entry
  BY DEF Entry
<1>2. queue' = [queue EXCEPT ![w] = Append(queue[w], e)]
  BY DEF Enqueue
<1> HIDE DEF e
<1>3. Append(queue[w], e) \in Seq(Entry)
  BY <1>1
<1>4. queue' \in [Workers -> Seq(Entry)] /\ queue'[w] = Append(queue[w], e)
      /\ \A v \in Workers : v # w => queue'[v] = queue[v]
  BY <1>2, <1>3
<1>5. \A i \in DOMAIN queue[w] : i \in DOMAIN queue'[w] /\ queue'[w][i] = queue[w][i]
  BY <1>1, <1>4
<1>6. Grows(queue, queue')
  BY <1>4, <1>5 DEF Grows
<1> QED
  BY <1>4, <1>6 DEF e

(* One entry of one queue is marked, and was not done. *)
LEMMA MarkIs ==
    ASSUME NEW w \in Workers, NEW i \in DOMAIN queue[w], NEW s \in {"done", "failed", "cancelled"},
           queue \in [Workers -> Seq(Entry)], queue[w][i].state = "open",
           queue' = [queue EXCEPT ![w][i].state = s]
    PROVE  queue' \in [Workers -> Seq(Entry)] /\ Grows(queue, queue') /\ Same(queue, queue')
<1> DEFINE e == [queue[w][i] EXCEPT !.state = s]
           q == [queue[w] EXCEPT ![i] = e]
<1>1. queue[w] \in Seq(Entry) /\ queue[w][i] \in Entry
  OBVIOUS
<1>2. e \in Entry /\ e.job = queue[w][i].job
  BY <1>1 DEF Entry
<1>3. queue' = [queue EXCEPT ![w] = q]
  OBVIOUS
<1> HIDE DEF e
<1>4. q \in Seq(Entry) /\ DOMAIN q = DOMAIN queue[w]
  BY <1>1, <1>2
<1>5. q[i] = e /\ \A k \in DOMAIN queue[w] : k # i => q[k] = queue[w][k]
  BY <1>1
<1> HIDE DEF q
<1>6. queue'[w] = q /\ \A v \in Workers : v # w => queue'[v] = queue[v]
  BY <1>3
<1> QED
  BY <1>2, <1>3, <1>4, <1>5, <1>6 DEF Grows, Same

LEMMA WorkerUpIs ==
    ASSUME NEW w \in Workers, queue \in [Workers -> Seq(Entry)], WorkerUp(w)
    PROVE  queue' \in [Workers -> Seq(Entry)] /\ Grows(queue, queue') /\ Same(queue, queue')
<1>1. CASE UNCHANGED queue
  BY <1>1 DEF Grows, Same
<1>2. CASE ~ UNCHANGED queue
  <2> DEFINE lost(e) == [e EXCEPT !.known = FALSE, !.state = IF e.state = "open" THEN "lost" ELSE e.state]
             q == [i \in DOMAIN queue[w] |-> lost(queue[w][i])]
  <2>1. queue' = [queue EXCEPT ![w] = q]
    BY <1>2 DEF WorkerUp
  <2>2. \A e \in Entry : /\ lost(e) \in Entry /\ lost(e).job = e.job
                         /\ e.state = "done" => lost(e).state = "done"
    BY DEF Entry
  <2>3. queue[w] \in Seq(Entry)
    OBVIOUS
  <2> HIDE DEF lost
  <2>4. q \in Seq(Entry) /\ DOMAIN q = DOMAIN queue[w]
    BY <2>2, <2>3
  <2>5. \A i \in DOMAIN queue[w] : queue[w][i] \in Entry /\ q[i] = lost(queue[w][i])
    BY <2>3
  <2> HIDE DEF q
  <2>6. queue'[w] = q /\ \A v \in Workers : v # w => queue'[v] = queue[v]
    BY <2>1
  <2> QED
    BY <2>1, <2>2, <2>4, <2>5, <2>6 DEF Grows, Same
<1> QED
  BY <1>1, <1>2

LEMMA CancelReadIs ==
    ASSUME NEW j \in Jobs, Typed, CancelRead(j)
    PROVE  queue' \in [Workers -> Seq(Entry)] /\ Grows(queue, queue') /\ Same(queue, queue')
<1>1. CASE UNCHANGED queue
  BY <1>1 DEF Grows, Same, Typed
<1>2. CASE ~ UNCHANGED queue
  <2> DEFINE w == row[j].worker
             i == row[j].wjid
  <2>1. /\ row[j].status = "running" /\ up[w] /\ StateOf(w, i) = "open"
        /\ queue' = [queue EXCEPT ![w][i].state = "cancelled"]
    BY <1>2 DEF CancelRead
  <2>2. w \in Workers
    <3>1. ASSUME w \notin Workers PROVE UNCHANGED queue
      <4> HIDE DEF w, i
      <4> QED
        BY <2>1, <3>1 DEF Typed
    <3> QED
      BY <1>2, <3>1
  <2>3. i \in DOMAIN queue[w] /\ queue[w][i].state = "open"
    BY <2>1 DEF StateOf
  <2> HIDE DEF w, i
  <2> QED
    BY <2>1, <2>2, <2>3, MarkIs DEF Typed
<1> QED
  BY <1>1, <1>2

\* Transcoder w is handed j: the three calls that do it.
Hands(w, j) ==
    /\ Enqueue(w, j)
    /\ \/ \E way \in {"direct", "stream"} : Send(j, w, way)
       \/ SendFails(j, w)
       \/ \E c \in copies : c.worker = w /\ c.job = j /\ CopySend(c)

LEMMA Queues ==
    ASSUME Typed, [Next]_vars
    PROVE  /\ queue' \in [Workers -> Seq(Entry)] /\ Grows(queue, queue')
           /\ Same(queue, queue') \/ \E w \in Workers, j \in Jobs : Hands(w, j)
<1> DEFINE Kept == queue' \in [Workers -> Seq(Entry)] /\ Grows(queue, queue') /\ Same(queue, queue')
           Given == /\ queue' \in [Workers -> Seq(Entry)] /\ Grows(queue, queue')
                    /\ \E w \in Workers, j \in Jobs : Hands(w, j)
<1>1. UNCHANGED queue => Kept
  BY DEF Typed, Grows, Same
<1>2. ASSUME NEW j \in Jobs, CancelRead(j) PROVE Kept
  BY <1>2, CancelReadIs
<1>3. ASSUME NEW w \in Workers, NEW j \in Jobs, Hands(w, j) PROVE Given
  BY <1>3, EnqueueIs DEF Hands, Typed
<1>4. ASSUME NEW c \in copies, CopySend(c) PROVE Kept \/ Given
  <2>1. c.worker \in Workers /\ c.job \in Jobs
    BY DEF Typed
  <2>2. UNCHANGED queue \/ Enqueue(c.worker, c.job)
    BY <1>4 DEF CopySend
  <2> QED
    BY <1>1, <1>3, <1>4, <2>1, <2>2 DEF Hands
<1>5. ASSUME NEW w \in Workers, WorkerUp(w) PROVE Kept
  BY <1>5, WorkerUpIs DEF Typed
<1>6. ASSUME NEW w \in Workers, NEW i \in DOMAIN queue[w], WorkerEnds(w, i) PROVE Kept
  BY <1>6, MarkIs DEF WorkerEnds, Typed
<1>7. ASSUME NEW j \in Jobs, Operator(j) \/ Tick(j) PROVE Kept \/ Given
  <2>1. \/ UNCHANGED queue \/ CancelRead(j)
        \/ \E w \in Workers, way \in {"direct", "stream"} : Send(j, w, way)
        \/ \E w \in Workers : SendFails(j, w) /\ Enqueue(w, j)
    BY <1>7
       DEF Operator, Submit, CancelWrite, Retry, Purge, Tick, Look, Follow, FollowCopy, FollowLost,
           FollowRunning, ReturnStart, ReturnEnds, ReturnWait, Dispatch, NoCandidate, Record,
           SendFails, SendRefused, StartCopy, workers
  <2>2. \A w \in Workers, way \in {"direct", "stream"} : Send(j, w, way) => Hands(w, j)
    BY DEF Send, Hands
  <2>3. \A w \in Workers : SendFails(j, w) /\ Enqueue(w, j) => Hands(w, j)
    BY DEF Hands
  <2> QED
    BY <1>1, <1>2, <1>3, <2>1, <2>2, <2>3
<1>8. ASSUME NEW c \in copies, CopyIn(c) PROVE Kept \/ Given
  BY <1>1, <1>4, <1>8
     DEF CopyIn, CopyFile, CopyCheck, CopyRefused, CopyRecord, CopyFails, CopyRequeue, workers
<1>9. ASSUME NEW j \in Jobs, HostReturns(j) \/ ServerReturns(j) PROVE Kept
  BY <1>1, <1>9 DEF HostReturns, ServerReturns, workers
<1>10. ASSUME NEW w \in Workers, WorkerDown(w) PROVE Kept
  BY <1>1, <1>10 DEF WorkerDown
<1>11. CASE Crash \/ UNCHANGED vars
  BY <1>1, <1>11 DEF Crash, workers, vars
<1> QED
  BY <1>5, <1>6, <1>7, <1>8, <1>9, <1>10, <1>11 DEF Next

LEMMA PlausibleLasts ==
    ASSUME NEW q, NEW p, Grows(q, p), NEW m \in Nat, NEW n \in Nat, n = 0 => m = 0, NEW j
    PROVE  /\ \A w, i : Owned(q, w, i, j) => Owned(p, w, i, j)
           /\ \A r : Plausible(r, j, q, m) => Plausible(r, j, p, n)
<1>1. \A w, i : Owned(q, w, i, j) => Owned(p, w, i, j)
  BY DEF Owned, Grows
<1> QED
  BY <1>1 DEF Plausible

LEMMA Counts ==
    ASSUME TranscodeFarmAssumption, Typed, [Next]_vars
    PROVE  /\ retries \in Nat /\ retries' \in 0..MaxRetries /\ crashes' \in Nat
           /\ retries' = 0 => retries = 0
           /\ crashes \in Nat /\ crashes <= crashes'
<1> USE DEF TranscodeFarmAssumption, Typed
<1>1. CASE UNCHANGED <<retries, crashes>>
  BY <1>1
<1>2. ASSUME NEW j \in Jobs, Retry(j)
      PROVE  /\ retries \in Nat /\ retries' \in 0..MaxRetries /\ crashes' \in Nat
             /\ retries' = 0 => retries = 0
             /\ crashes \in Nat /\ crashes <= crashes'
  BY <1>2 DEF Retry
<1>3. CASE Crash
  BY <1>3 DEF Crash
<1>4. ASSUME NEW j \in Jobs, Operator(j) \/ Tick(j), ~ Retry(j) PROVE UNCHANGED <<retries, crashes>>
  BY <1>4
     DEF Operator, Submit, CancelRead, CancelWrite, Purge, Tick, Look, Follow, FollowCopy,
         FollowLost, FollowRunning, ReturnStart, ReturnEnds, ReturnWait, Dispatch, NoCandidate,
         Send, Record, SendFails, SendRefused, StartCopy, counters
<1>5. ASSUME NEW c \in copies, CopyIn(c) PROVE UNCHANGED <<retries, crashes>>
  BY <1>5 DEF CopyIn, CopyFile, CopyCheck, CopySend, CopyRefused, CopyRecord, CopyFails,
              CopyRequeue, counters
<1>6. ASSUME NEW j \in Jobs, HostReturns(j) \/ ServerReturns(j) PROVE UNCHANGED <<retries, crashes>>
  BY <1>6 DEF HostReturns, ServerReturns, counters
<1>7. ASSUME NEW w \in Workers, WorkerDown(w) \/ WorkerUp(w) \/ \E i \in DOMAIN queue[w] : WorkerEnds(w, i)
      PROVE  UNCHANGED <<retries, crashes>>
  BY <1>7 DEF WorkerDown, WorkerUp, WorkerEnds, counters
<1>8. CASE UNCHANGED vars
  BY <1>1, <1>8 DEF vars, counters
<1> QED
  BY <1>1, <1>2, <1>3, <1>4, <1>5, <1>6, <1>7, <1>8 DEF Next

(***************************************************************************)
(* What each writer of a row writes.                                       *)
(***************************************************************************)
(* The job is queued again after one failed attempt more, or has failed. *)
Requeues(j, attempts) ==
    IF attempts = MAX_ATTEMPTS
    THEN Writes(j, Active, "failed", MAX_ATTEMPTS, row[j].access, row[j].worker, row[j].wjid)
    ELSE attempts < MAX_ATTEMPTS /\ Renews(j, Active, attempts)

LEMMA PassSeen ==
    ASSUME Typed, PassIsPlausible, pass.step # "idle"
    PROVE  /\ pass.job \in Jobs /\ pass.seen \in Row
           /\ pass.seen.attempts \in Nat /\ pass.seen.attempts < MAX_ATTEMPTS
           /\ Plausible(pass.seen, pass.job, queue, retries)
  BY DEF Typed, PassIsPlausible, Plausible, Row

LEMMA OperatorWrites ==
    ASSUME TranscodeFarmAssumption, Typed, NEW j \in Jobs
    PROVE  /\ Submit(j) => Renews(j, {"absent"}, 0)
           /\ CancelWrite(j) => Marks(j, Active, "cancelled")
           /\ Retry(j) => Renews(j, Finished, 0)
           /\ Purge(j) => Marks(j, {"done", "cancelled"}, "purged")
<1> USE DEF Typed
<1>1. ASSUME Submit(j) PROVE Renews(j, {"absent"}, 0)
  BY <1>1, FreshIs DEF Submit, Renews, Writes
<1>2. ASSUME CancelWrite(j) PROVE Marks(j, Active, "cancelled")
  BY <1>2, UpdateMarks DEF CancelWrite, Finished
<1>3. ASSUME Retry(j) PROVE Renews(j, Finished, 0)
  BY <1>3, FreshIs DEF Retry, Renews, Writes
<1>4. ASSUME Purge(j) PROVE Marks(j, {"done", "cancelled"}, "purged")
  <2>1. Update(j, {"done", "cancelled"}, [row[j] EXCEPT !.status = "purged"])
    BY <1>4 DEF Purge, Update
  <2> QED
    BY <2>1, UpdateMarks
<1> QED
  BY <1>1, <1>2, <1>3, <1>4

LEMMA FollowWrites ==
    ASSUME TranscodeFarmAssumption, Typed, PassIsPlausible, NEW j \in Jobs
    PROVE  /\ FollowCopy(j) => IF tasks[j] = "none" THEN Requeues(j, pass.seen.attempts + 1)
                                                    ELSE UNCHANGED row
           /\ FollowLost(j) => Requeues(j, pass.seen.attempts + 1) \/ UNCHANGED row
           /\ FollowRunning(j) =>
                 LET state == StateOf(pass.seen.worker, pass.seen.wjid)
                 IN  \/ UNCHANGED row
                     \/ Requeues(j, pass.seen.attempts + 1)
                     \/ state = "done" /\ Marks(j, Working, "done")
                     \/ state = "done" /\ Marks(j, {"running"}, "transfer_out")
                     \/ Marks(j, {"running"}, "failed")
                     \/ Marks(j, {"running"}, "cancelled")
<1> USE DEF Typed
<1>1. ASSUME NEW why \in Errors, Acting(j), Requeue(j, pass.seen, why)
      PROVE  Requeues(j, pass.seen.attempts + 1)
  BY <1>1, PassSeen, RequeueWrites DEF Requeues, Acting
<1>2. "restart" \in Errors /\ "lost" \in Errors /\ "gone" \in Errors
  BY DEF Errors
<1>3. ASSUME FollowRunning(j)
      PROVE  LET state == StateOf(pass.seen.worker, pass.seen.wjid)
             IN  \/ UNCHANGED row
                 \/ Requeues(j, pass.seen.attempts + 1)
                 \/ state = "done" /\ Marks(j, Working, "done")
                 \/ state = "done" /\ Marks(j, {"running"}, "transfer_out")
                 \/ Marks(j, {"running"}, "failed")
                 \/ Marks(j, {"running"}, "cancelled")
  <2>1. CASE UNCHANGED row
    BY <2>1
  <2>2. CASE Requeue(j, pass.seen, "gone")
    BY <1>1, <1>2, <1>3, <2>2 DEF FollowRunning
  <2>3. CASE StateOf(pass.seen.worker, pass.seen.wjid) = "done" /\ Finish(j)
    BY <2>3, UpdateMarks DEF Finish, Working, Finished
  <2>4. CASE /\ StateOf(pass.seen.worker, pass.seen.wjid) = "done"
             /\ Update(j, {"running"}, [row[j] EXCEPT !.status = "transfer_out"])
    BY <2>4, UpdateMarks DEF Active
  <2> DEFINE state == StateOf(pass.seen.worker, pass.seen.wjid)
  <2>5. CASE state \in {"failed", "cancelled"} /\ Update(j, {"running"}, Refused(row[j], state))
    <3> HIDE DEF state
    <3>1. Marks(j, {"running"}, state)
      BY <2>5, RefusedMarks
    <3> QED
      BY <2>5, <3>1
  <2> QED
    BY <1>3, <2>1, <2>2, <2>3, <2>4, <2>5 DEF FollowRunning, Refused
<1>4. ASSUME FollowCopy(j)
      PROVE  IF tasks[j] = "none" THEN Requeues(j, pass.seen.attempts + 1) ELSE UNCHANGED row
  BY <1>1, <1>2, <1>4 DEF FollowCopy
<1>5. ASSUME FollowLost(j) PROVE Requeues(j, pass.seen.attempts + 1) \/ UNCHANGED row
  BY <1>1, <1>2, <1>5 DEF FollowLost
<1> QED
  BY <1>3, <1>4, <1>5

LEMMA ReturnWrites ==
    ASSUME TranscodeFarmAssumption, Typed, PassIsPlausible, NEW j \in Jobs,
           ReturnStart(j) \/ ReturnEnds(j)
    PROVE  LET n == pass.seen.attempts + 1
           IN  \/ UNCHANGED row
               \/ Marks(j, Working, "done")
               \/ /\ n <= MAX_ATTEMPTS
                  /\ Writes(j, {"transfer_out"}, IF n = MAX_ATTEMPTS THEN "failed" ELSE "transfer_out",
                            n, row[j].access, row[j].worker, row[j].wjid)
<1> USE DEF Typed
<1>1. Acting(j)
  BY DEF ReturnStart, ReturnEnds, Returning
<1>2. UNCHANGED row \/ RequeueReturn(j, pass.seen) \/ Finish(j)
  BY DEF ReturnStart, ReturnEnds
<1>3. CASE Finish(j)
  BY <1>3, UpdateMarks DEF Finish, Working, Finished
<1>4. CASE RequeueReturn(j, pass.seen)
  BY <1>1, <1>4, PassSeen, RequeueReturnWrites DEF Acting
<1> QED
  BY <1>2, <1>3, <1>4

LEMMA DispatchWrites ==
    ASSUME TranscodeFarmAssumption, Typed, PassIsPlausible, NEW j \in Jobs
    PROVE  /\ Record(j) => Writes(j, {"pending"}, "running", row[j].attempts, pass.seen.access,
                                  pass.seen.worker, pass.seen.wjid)
           /\ SendRefused(j) => Marks(j, {"pending"}, "failed")
           /\ \A w \in Workers :
                 /\ SendFails(j, w) => Requeues(j, pass.seen.attempts + 1)
                 /\ StartCopy(j, w) => Writes(j, {"pending"}, "transfer_in", row[j].attempts, "copy",
                                              w, row[j].wjid)
<1> USE DEF Typed
<1>1. ASSUME Record(j)
      PROVE  Writes(j, {"pending"}, "running", row[j].attempts, pass.seen.access,
                    pass.seen.worker, pass.seen.wjid)
  <2> DEFINE new == Recorded(row[j], pass.seen.worker, pass.seen.access, pass.seen.wjid)
  <2>1. /\ new \in Row
        /\ new.status = "running" /\ new.attempts = row[j].attempts
        /\ new.access = pass.seen.access /\ new.worker = pass.seen.worker
        /\ new.wjid = pass.seen.wjid
    BY RecordedIs
  <2>2. Update(j, {"pending"}, new)
    BY <1>1 DEF Record, Recorded
  <2>3. Writes(j, {"pending"}, new.status, new.attempts, new.access, new.worker, new.wjid)
    BY <2>1, <2>2, UpdateWrites
  <2> HIDE DEF new
  <2> QED
    BY <2>1, <2>3
<1>2. ASSUME SendRefused(j) PROVE Marks(j, {"pending"}, "failed")
  BY <1>2, RefusedMarks DEF SendRefused, Refused
<1>3. ASSUME NEW w \in Workers, SendFails(j, w) PROVE Requeues(j, pass.seen.attempts + 1)
  <2>1. "call" \in Errors
    BY DEF Errors
  <2>2. pass.step # "idle" /\ Requeue(j, pass.seen, "call")
    BY <1>3 DEF SendFails, Dispatching, Acting
  <2> QED
    BY <2>1, <2>2, PassSeen, RequeueWrites DEF Requeues
<1>4. ASSUME NEW w \in Workers, StartCopy(j, w)
      PROVE  Writes(j, {"pending"}, "transfer_in", row[j].attempts, "copy", w, row[j].wjid)
  <2> DEFINE new == Copied(row[j], w)
  <2>1. /\ new \in Row
        /\ new.status = "transfer_in" /\ new.attempts = row[j].attempts
        /\ new.access = "copy" /\ new.worker = w /\ new.wjid = row[j].wjid
    BY CopiedIs
  <2>2. Update(j, {"pending"}, new)
    BY <1>4 DEF StartCopy, Copied
  <2>3. Writes(j, {"pending"}, new.status, new.attempts, new.access, new.worker, new.wjid)
    BY <2>1, <2>2, UpdateWrites
  <2> HIDE DEF new
  <2> QED
    BY <2>1, <2>3
<1> QED
  BY <1>1, <1>2, <1>3, <1>4

LEMMA CopyWrites ==
    ASSUME TranscodeFarmAssumption, Typed, CopiesArePlausible, NEW c \in copies
    PROVE  LET j == c.job
           IN  /\ CopyRefused(c) => Marks(j, {"transfer_in"}, "failed")
               /\ CopyRecord(c) => Writes(j, {"transfer_in"}, "running", row[j].attempts,
                                          row[j].access, row[j].worker, c.wjid)
               /\ CopyRequeue(c) => /\ c.seen.attempts < MAX_ATTEMPTS
                                    /\ Requeues(j, c.seen.attempts + 1)
<1> USE DEF Typed
<1> DEFINE j == c.job
<1>0. j \in Jobs /\ c.wjid \in Nat /\ c.seen \in Row
  OBVIOUS
<1> HIDE DEF j
<1>1. ASSUME CopyRefused(c) PROVE Marks(j, {"transfer_in"}, "failed")
  BY <1>0, <1>1, RefusedMarks DEF CopyRefused, Refused, j
<1>2. ASSUME CopyRecord(c)
      PROVE  Writes(j, {"transfer_in"}, "running", row[j].attempts, row[j].access,
                    row[j].worker, c.wjid)
  <2> DEFINE new == Brought(row[j], c.wjid)
  <2>0. row[j] \in Row
    BY <1>0
  <2>1. /\ new \in Row
        /\ new.status = "running" /\ new.attempts = row[j].attempts
        /\ new.access = row[j].access /\ new.worker = row[j].worker /\ new.wjid = c.wjid
    BY ONLY <1>0, <2>0, BroughtIs
  <2>2. Update(j, {"transfer_in"}, new)
    BY <1>2 DEF CopyRecord, Brought, j
  <2>3. Writes(j, {"transfer_in"}, new.status, new.attempts, new.access, new.worker, new.wjid)
    BY <1>0, <2>1, <2>2, UpdateWrites
  <2> HIDE DEF new
  <2> QED
    BY <2>1, <2>3
<1>3. ASSUME CopyRequeue(c) PROVE c.seen.attempts < MAX_ATTEMPTS /\ Requeues(j, c.seen.attempts + 1)
  <2>1. "copy" \in Errors
    BY DEF Errors
  <2>2. c.seen.attempts < MAX_ATTEMPTS /\ Requeue(j, c.seen, "copy")
    BY <1>3 DEF CopyRequeue, CopiesArePlausible, j
  <2> QED
    BY <1>0, <2>1, <2>2, RequeueWrites DEF Requeues
<1> QED
  BY <1>1, <1>2, <1>3 DEF j

(* All the ways a row is written. *)
Begins(j) == Renews(j, {"absent"}, 0) \/ (Retry(j) /\ Renews(j, Finished, 0))
Ends(j) ==
    \/ \E s \in Finished, from \in SUBSET Active : Marks(j, from, s)
    \/ Marks(j, {"done", "cancelled"}, "purged")
Returns(j) ==
    \E n \in 0..MAX_ATTEMPTS :
        Writes(j, {"transfer_out"}, IF n = MAX_ATTEMPTS THEN "failed" ELSE "transfer_out",
               n, row[j].access, row[j].worker, row[j].wjid)
Starts(j) ==
    \/ Marks(j, {"running"}, "transfer_out")
    \/ Record(j) /\ Writes(j, {"pending"}, "running", row[j].attempts, pass.seen.access,
                           pass.seen.worker, pass.seen.wjid)
    \/ \E w \in Workers :
          StartCopy(j, w) /\ Writes(j, {"pending"}, "transfer_in", row[j].attempts, "copy",
                                    w, row[j].wjid)
    \/ \E c \in copies :
          /\ c.job = j /\ CopyRecord(c)
          /\ Writes(j, {"transfer_in"}, "running", row[j].attempts, row[j].access,
                    row[j].worker, c.wjid)
Written(j) == Begins(j) \/ Ends(j) \/ (\E n \in Nat : Requeues(j, n)) \/ Returns(j) \/ Starts(j)

LEMMA RowSteps ==
    ASSUME TranscodeFarmAssumption, Plain, [Next]_vars
    PROVE  UNCHANGED row \/ \E j \in Jobs : Written(j)
<1> USE DEF Plain
<1>1. ASSUME NEW j \in Jobs, Operator(j) PROVE UNCHANGED row \/ Written(j)
  <2>1. CancelRead(j) => UNCHANGED row
    BY DEF CancelRead
  <2> QED
    BY <1>1, <2>1, OperatorWrites DEF Operator, Written, Begins, Ends, Finished
<1>2. ASSUME NEW j \in Jobs, Tick(j) PROVE UNCHANGED row \/ Written(j)
  <2>1. ASSUME pass.step # "idle" PROVE pass.seen.attempts + 1 \in Nat /\ pass.seen.attempts + 1 \in 0..MAX_ATTEMPTS
    BY <2>1, PassSeen DEF TranscodeFarmAssumption
  <2>2. CASE Look(j) \/ ReturnWait(j) \/ NoCandidate(j)
    BY <2>2 DEF Look, ReturnWait, NoCandidate
  <2>3. CASE FollowCopy(j) \/ FollowLost(j) \/ FollowRunning(j)
    <3>1. pass.step # "idle"
      BY <2>3 DEF FollowCopy, FollowLost, FollowRunning, Acting
    <3>2. \/ UNCHANGED row \/ Requeues(j, pass.seen.attempts + 1)
          \/ Marks(j, Working, "done") \/ Marks(j, {"running"}, "transfer_out")
          \/ Marks(j, {"running"}, "failed") \/ Marks(j, {"running"}, "cancelled")
      BY <2>3, FollowWrites
    <3>3. Working \in SUBSET Active /\ {"running"} \in SUBSET Active
      BY DEF Working, Active
    <3> QED
      BY <2>1, <3>1, <3>2, <3>3 DEF Written, Ends, Starts, Finished
  <2>4. CASE ReturnStart(j) \/ ReturnEnds(j)
    <3>1. pass.step # "idle"
      BY <2>4 DEF ReturnStart, ReturnEnds, Returning, Acting
    <3>2. Working \in SUBSET Active
      BY DEF Working, Active
    <3> QED
      BY <2>1, <2>4, <3>1, <3>2, ReturnWrites DEF Written, Ends, Returns, Finished
  <2>5. CASE Record(j) \/ SendRefused(j)
    <3>1. {"pending"} \in SUBSET Active
      BY DEF Active
    <3> QED
      BY <2>5, <3>1, DispatchWrites DEF Written, Ends, Starts, Finished
  <2>6. ASSUME NEW w \in Workers, SendFails(j, w) \/ StartCopy(j, w) PROVE Written(j)
    <3>1. pass.step # "idle"
      BY <2>6 DEF SendFails, StartCopy, Dispatching, Acting
    <3> QED
      BY <2>1, <2>6, <3>1, DispatchWrites DEF Written, Starts
  <2>7. ASSUME NEW w \in Workers, NEW way, Send(j, w, way) PROVE UNCHANGED row
    BY <2>7 DEF Send
  <2> QED
    BY <1>2, <2>2, <2>3, <2>4, <2>5, <2>6, <2>7 DEF Tick, Follow, Dispatch
<1>3. ASSUME NEW c \in copies, CopyIn(c) PROVE UNCHANGED row \/ \E j \in Jobs : Written(j)
  <2>1. c.job \in Jobs /\ c.seen.attempts + 1 \in Nat
    BY DEF Typed, Row
  <2>2. CASE CopyRefused(c) \/ CopyRecord(c) \/ CopyRequeue(c)
    <3>1. {"transfer_in"} \in SUBSET Active
      BY DEF Active
    <3> QED
      BY <2>1, <2>2, <3>1, CopyWrites DEF Written, Ends, Starts, Finished
  <2>3. CASE CopyFile(c) \/ CopyCheck(c) \/ CopySend(c) \/ CopyFails(c)
    BY <2>3 DEF CopyFile, CopyCheck, CopySend, CopyFails
  <2> QED
    BY <1>3, <2>2, <2>3 DEF CopyIn
<1>4. ASSUME NEW j \in Jobs, HostReturns(j) \/ ServerReturns(j) PROVE UNCHANGED row
  BY <1>4 DEF HostReturns, ServerReturns
<1>5. ASSUME NEW w \in Workers, WorkerDown(w) \/ WorkerUp(w) \/ \E i \in DOMAIN queue[w] : WorkerEnds(w, i)
      PROVE  UNCHANGED row
  BY <1>5 DEF WorkerDown, WorkerUp, WorkerEnds
<1>6. CASE Crash \/ UNCHANGED vars
  BY <1>6 DEF Crash, vars
<1> QED
  BY <1>1, <1>2, <1>3, <1>4, <1>5, <1>6 DEF Next

(* An end is final but for a retry, and a cancellation that came in the    *)
(* middle of a call wins (transcode_farm.py:138-139).                      *)
LEMMA EndStep ==
    ASSUME TranscodeFarmAssumption, Plain, [Next]_vars, NEW j \in Jobs, row[j].status \in Finished
    PROVE  \/ row'[j].status \in {row[j].status, "purged"}
           \/ retries' > retries /\ row'[j] = Fresh
<1> SUFFICES ASSUME NEW k \in Jobs, Written(k), k = j
             PROVE  \/ row'[j].status \in {row[j].status, "purged"}
                    \/ retries' > retries /\ row'[j] = Fresh
  <2>1. ASSUME NEW k \in Jobs, Written(k), k # j PROVE row'[j] = row[j]
    BY <2>1 DEF Written, Begins, Ends, Requeues, Returns, Starts, Renews, Marks, Writes
  <2> QED
    BY <2>1, RowSteps
<1>1. row[j].status \notin Active /\ row[j].status \notin {"absent", "pending", "transfer_in", "running", "transfer_out"}
  BY DEF Finished, Active
<1>2. CASE Begins(j)
  <2>1. CASE Retry(j)
    BY <2>1 DEF Retry, Plain, Typed
  <2>2. CASE Renews(j, {"absent"}, 0)
    BY <1>1, <2>2 DEF Renews, Writes
  <2> QED
    BY <1>2, <2>1, <2>2 DEF Begins
<1>3. CASE Ends(j)
  BY <1>1, <1>3 DEF Ends, Marks, Writes
<1>4. CASE \E n \in Nat : Requeues(j, n)
  BY <1>1, <1>4 DEF Requeues, Renews, Writes
<1>5. CASE Returns(j) \/ Starts(j)
  BY <1>1, <1>5 DEF Returns, Starts, Marks, Writes
<1> QED
  BY <1>2, <1>3, <1>4, <1>5 DEF Written

(***************************************************************************)
(* What each step leaves of the pass of the loop, of its tasks and of the  *)
(* threads that copy.                                                      *)
(***************************************************************************)
Handed(w, access, i) ==
    [pass EXCEPT !.step = "sent", !.seen.worker = w, !.seen.access = access, !.seen.wjid = i]

LEMMA PassSteps ==
    ASSUME [Next]_vars
    PROVE  \/ pass' = pass
           \/ pass' = Idle
           \/ \E j \in Jobs : Look(j) \/ \E w \in Workers, way \in {"direct", "stream"} : Send(j, w, way)
<1>1. ASSUME NEW j \in Jobs, Operator(j) PROVE pass' = pass
  BY <1>1 DEF Operator, Submit, CancelRead, CancelWrite, Retry, Purge
<1>2. ASSUME NEW j \in Jobs, Tick(j)
      PROVE  \/ pass' = Idle \/ Look(j)
             \/ \E w \in Workers, way \in {"direct", "stream"} : Send(j, w, way)
  BY <1>2 DEF Tick, Follow, FollowCopy, FollowLost, FollowRunning, ReturnStart, ReturnEnds,
              ReturnWait, Dispatch, NoCandidate, Record, SendFails, SendRefused, StartCopy, ActDone
<1>3. ASSUME NEW c \in copies, CopyIn(c) PROVE pass' = pass
  BY <1>3 DEF CopyIn, CopyFile, CopyCheck, CopySend, CopyRefused, CopyRecord, CopyFails, CopyRequeue
<1>4. ASSUME NEW j \in Jobs, HostReturns(j) \/ ServerReturns(j) PROVE pass' = pass
  BY <1>4 DEF HostReturns, ServerReturns
<1>5. ASSUME NEW w \in Workers, WorkerDown(w) \/ WorkerUp(w) \/ \E i \in DOMAIN queue[w] : WorkerEnds(w, i)
      PROVE  pass' = pass
  BY <1>5 DEF WorkerDown, WorkerUp, WorkerEnds
<1>6. Crash => pass' = Idle
  BY DEF Crash
<1>7. UNCHANGED vars => pass' = pass
  BY DEF vars
<1> QED
  BY <1>1, <1>2, <1>3, <1>4, <1>5, <1>6, <1>7 DEF Next

LEMMA IdleIs ==
    ASSUME TranscodeFarmAssumption
    PROVE  Idle.step = "idle" /\ Idle \in [step : {"idle", "look", "sent"}, job : {Idle.job}, seen : Row, ok : BOOLEAN]
<1>1. Nothing \in Row
  BY FreshIs DEF Nothing, Row
<1> QED
  BY <1>1 DEF Idle, Rest

\* What the loop holds once a transcoder has answered that it took the job.
LEMMA SendIs ==
    ASSUME Typed, NEW j \in Jobs, NEW w \in Workers, NEW way \in {"direct", "stream"}, Send(j, w, way)
    PROVE  /\ pass'.step = "sent" /\ pass'.job = j /\ pass.job = j /\ pass.step = "look"
           /\ pass' \in [step : {"idle", "look", "sent"}, job : {j}, seen : Row, ok : BOOLEAN]
           /\ pass.seen.status = "pending" /\ pass'.seen.status = "pending"
           /\ pass'.seen.attempts = pass.seen.attempts
           /\ pass'.seen.access = way /\ pass'.seen.worker = w
           /\ pass'.seen.wjid = Len(queue[w]) + 1
           /\ Enqueue(w, j) /\ UNCHANGED <<row, tasks, copies, retries, crashes>>
<1> DEFINE i == Len(queue[w]) + 1
<1>1. i \in Nat
  BY DEF Typed
<1>2. pass' = Handed(w, way, i)
  BY DEF Send, Handed
<1> HIDE DEF i
<1>3. pass \in [step : {"idle", "look", "sent"}, job : {pass.job}, seen : Row, ok : BOOLEAN]
      /\ pass.job = j /\ pass.step = "look"
  BY DEF Typed, Send, Dispatching, Acting
<1>4. /\ pass'.step = "sent" /\ pass'.job = j
      /\ pass' \in [step : {"idle", "look", "sent"}, job : {j}, seen : Row, ok : BOOLEAN]
      /\ pass'.seen.status = pass.seen.status /\ pass'.seen.attempts = pass.seen.attempts
      /\ pass'.seen.access = way /\ pass'.seen.worker = w /\ pass'.seen.wjid = i
  BY ONLY <1>1, <1>2, <1>3, w \in Workers, way \in {"direct", "stream"} DEF Handed, Row
<1>5. /\ pass.seen.status = "pending" /\ Enqueue(w, j)
      /\ UNCHANGED <<row, tasks, copies, retries, crashes>>
  BY DEF Send, Dispatching, counters
<1> QED
  BY <1>3, <1>4, <1>5 DEF i

LEMMA LookIs ==
    ASSUME Typed, NEW j \in Jobs, Look(j)
    PROVE  /\ pass.step = "idle" /\ row[j].status \in Active
           /\ pass' \in [step : {"idle", "look", "sent"}, job : {j}, seen : Row, ok : BOOLEAN]
           /\ pass'.step = "look" /\ pass'.job = j /\ pass'.seen = row[j]
           /\ UNCHANGED <<row, tasks, copies, queue, retries, crashes>>
  BY DEF Typed, Look, workers, counters

LEMMA PassLasts ==
    ASSUME TranscodeFarmAssumption, Plain, [Next]_vars
    PROVE  /\ pass' \in [step : {"idle", "look", "sent"}, job : {pass'.job}, seen : Row, ok : BOOLEAN]
           /\ PassIsPlausible'
<1> USE DEF Plain
<1>1. CASE pass' = pass
  <2>1. ASSUME pass.step # "idle"
        PROVE  /\ Plausible(pass.seen, pass.job, queue', retries')
               /\ \A w, i : Owned(queue, w, i, pass.job) => Owned(queue', w, i, pass.job)
    <3>1. Plausible(pass.seen, pass.job, queue, retries)
      BY <2>1, PassSeen
    <3>2. Grows(queue, queue')
      BY Queues
    <3>3. retries \in Nat /\ retries' \in Nat /\ (retries' = 0 => retries = 0)
      BY Counts DEF TranscodeFarmAssumption
    <3> QED
      BY ONLY <3>1, <3>2, <3>3, PlausibleLasts
  <2>2. pass' \in [step : {"idle", "look", "sent"}, job : {pass'.job}, seen : Row, ok : BOOLEAN]
    BY <1>1 DEF Typed
  <2>3. PassIsPlausible'
    BY <1>1, <2>1 DEF PassIsPlausible
  <2> QED
    BY <2>2, <2>3
<1>2. CASE pass' = Idle
  BY <1>2, IdleIs DEF PassIsPlausible
<1>3. ASSUME NEW j \in Jobs, Look(j)
      PROVE  /\ pass' \in [step : {"idle", "look", "sent"}, job : {pass'.job}, seen : Row, ok : BOOLEAN]
             /\ PassIsPlausible'
  BY <1>3, LookIs DEF PassIsPlausible, RowsArePlausible
<1>4. ASSUME NEW j \in Jobs, NEW w \in Workers, NEW way \in {"direct", "stream"}, Send(j, w, way)
      PROVE  /\ pass' \in [step : {"idle", "look", "sent"}, job : {pass'.job}, seen : Row, ok : BOOLEAN]
             /\ PassIsPlausible'
  <2> DEFINE i == Len(queue[w]) + 1
  <2>1. Owned(queue', w, i, j)
    <3>1. Enqueue(w, j) /\ queue \in [Workers -> Seq(Entry)]
      BY <1>4, SendIs DEF Typed
    <3>2. queue'[w] = Append(queue[w], [job |-> j, state |-> "open", known |-> TRUE])
      BY <3>1, EnqueueIs
    <3>3. i \in DOMAIN queue'[w] /\ queue'[w][i].job = j
      BY <3>1, <3>2
    <3> QED
      BY <3>3 DEF Owned
  <2>2. pass.seen.attempts < MAX_ATTEMPTS
    BY <1>4, SendIs DEF PassIsPlausible, Plausible, Active
  <2> QED
    BY <1>4, <2>1, <2>2, SendIs DEF PassIsPlausible, Plausible, Active, Working
<1> QED
  BY <1>1, <1>2, <1>3, <1>4, PassSteps

Tasks == {"none", "copy_in", "fetching", "returning", "arrived", "failed"}

LEMMA TasksLast ==
    ASSUME Typed, [Next]_vars PROVE tasks' \in [Jobs -> Tasks]
<1> USE DEF Tasks
<1>0. tasks \in [Jobs -> Tasks]
  BY DEF Typed
<1>1. ASSUME NEW j \in Jobs, NEW task \in Tasks, SetTask(j, task) PROVE tasks' \in [Jobs -> Tasks]
  BY <1>0, <1>1 DEF SetTask
<1> USE DEF PopTask
<1>2. ASSUME NEW j \in Jobs, Operator(j) PROVE tasks' \in [Jobs -> Tasks]
  BY <1>0, <1>1, <1>2 DEF Operator, Submit, CancelRead, CancelWrite, Retry, Purge
<1>3. ASSUME NEW j \in Jobs, Tick(j) PROVE tasks' \in [Jobs -> Tasks]
  BY <1>0, <1>1, <1>3
     DEF Tick, Look, Follow, FollowCopy, FollowLost, FollowRunning, ReturnStart, ReturnEnds,
         ReturnWait, Dispatch, NoCandidate, Record, Send, SendFails, SendRefused, StartCopy
<1>4. ASSUME NEW c \in copies, CopyIn(c) PROVE tasks' \in [Jobs -> Tasks]
  <2>1. c.job \in Jobs
    BY DEF Typed
  <2> QED
    BY <1>0, <1>1, <1>4, <2>1
       DEF CopyIn, CopyFile, CopyCheck, CopySend, CopyRefused, CopyRecord, CopyFails, CopyRequeue,
           CopyEnds
<1>5. ASSUME NEW j \in Jobs, HostReturns(j) \/ ServerReturns(j) PROVE tasks' \in [Jobs -> Tasks]
  BY <1>1, <1>5 DEF HostReturns, ServerReturns
<1>6. ASSUME NEW w \in Workers, WorkerDown(w) \/ WorkerUp(w) \/ \E i \in DOMAIN queue[w] : WorkerEnds(w, i)
      PROVE  tasks' \in [Jobs -> Tasks]
  BY <1>0, <1>6 DEF WorkerDown, WorkerUp, WorkerEnds
<1>7. CASE Crash \/ UNCHANGED vars
  BY <1>0, <1>7 DEF Crash, vars
<1> QED
  BY <1>2, <1>3, <1>4, <1>5, <1>6, <1>7 DEF Next

Copy == [job : Jobs, worker : Workers, wjid : Nat, seen : Row, step : CopySteps]

\* A thread is started for the job of the row just written.
Comes(d) ==
    /\ d \in Copy /\ d.step = "copying"
    /\ row[d.job].status = "pending"
    /\ StartCopy(d.job, d.worker) /\ copies' = copies \cup {d}

\* A thread makes a step.
Goes(c, d) ==
    /\ d \in Copy /\ d.job = c.job /\ d.worker = c.worker
    /\ copies' = (copies \ {c}) \cup {d}
    /\ UNCHANGED <<row, tasks, pass, retries, crashes>>
    /\ \/ d.step = "failed"
       \/ d.step \in {"copied", "sending"} /\ c.step \in {"copying", "copied"}
       \/ d.step = "sent" /\ Enqueue(c.worker, c.job) /\ d.wjid = Len(queue[c.worker]) + 1
       \/ d.step = "requeue" /\ d.seen = row[c.job] /\ row[c.job].status = "transfer_in"

Moved(c, to) == [c EXCEPT !.step = to]
Numbered(c, i) == [c EXCEPT !.step = "sent", !.wjid = i]
Reading(c, r) == [c EXCEPT !.step = "requeue", !.seen = r]

LEMMA CopyGoesSteps ==
    ASSUME Typed, NEW c \in copies, CopyIn(c)
    PROVE  copies' = copies \ {c} \/ \E d \in Copy : Goes(c, d)
<1>0. c \in Copy /\ c.job \in Jobs /\ c.worker \in Workers /\ row[c.job] \in Row
  BY DEF Typed, Copy
<1>1. ASSUME NEW to \in {"copied", "sending", "failed"}, CopyGoes(c, to),
             to = "failed" \/ c.step \in {"copying", "copied"},
             UNCHANGED <<row, tasks, pass, retries, crashes>>
      PROVE  Goes(c, Moved(c, to)) /\ Moved(c, to) \in Copy
  <2>1. Moved(c, to) \in Copy /\ Moved(c, to).job = c.job
        /\ Moved(c, to).worker = c.worker /\ Moved(c, to).step = to
    BY ONLY <1>0, to \in {"copied", "sending", "failed"} DEF Moved, Copy, CopySteps
  <2>2. copies' = (copies \ {c}) \cup {Moved(c, to)}
    BY <1>1 DEF CopyGoes, Moved
  <2> QED
    BY <1>1, <2>1, <2>2 DEF Goes
<1>2. CASE CopyFile(c) \/ CopyCheck(c)
  BY <1>1, <1>2 DEF CopyFile, CopyCheck, CopyEnds, counters
<1>3. ASSUME CopySend(c) PROVE \E d \in Copy : Goes(c, d)
  <2> DEFINE i == Len(queue[c.worker]) + 1
  <2>1. i \in Nat
    BY <1>0 DEF Typed
  <2>2. CASE CopyGoes(c, "failed")
    BY <1>1, <1>3, <2>2 DEF CopySend, counters
  <2>3. CASE Enqueue(c.worker, c.job) /\ copies' = (copies \ {c}) \cup {Numbered(c, i)}
    <3> HIDE DEF i
    <3>1. Numbered(c, i) \in Copy /\ Numbered(c, i).job = c.job
          /\ Numbered(c, i).worker = c.worker /\ Numbered(c, i).step = "sent"
          /\ Numbered(c, i).wjid = i
      BY ONLY <1>0, <2>1 DEF Numbered, Copy, CopySteps
    <3>2. UNCHANGED <<row, tasks, pass, retries, crashes>>
      BY <1>3 DEF CopySend, counters
    <3> QED
      BY <2>3, <3>1, <3>2 DEF Goes, i
  <2> QED
    BY <1>3, <2>2, <2>3 DEF CopySend, Numbered
<1>4. ASSUME CopyFails(c) PROVE copies' = copies \ {c} \/ \E d \in Copy : Goes(c, d)
  <2>1. CASE row[c.job].status # "transfer_in"
    BY <1>4, <2>1 DEF CopyFails, CopyEnds
  <2>2. CASE row[c.job].status = "transfer_in"
    <3> DEFINE r == row[c.job]
    <3>1. copies' = (copies \ {c}) \cup {Reading(c, r)}
      BY <1>4, <2>2 DEF CopyFails, Reading
    <3>2. UNCHANGED <<row, tasks, pass, retries, crashes>>
      BY <1>4, <2>2 DEF CopyFails, counters
    <3>3. r \in Row
      BY <1>0
    <3> HIDE DEF r
    <3>4. Reading(c, r) \in Copy /\ Reading(c, r).job = c.job
          /\ Reading(c, r).worker = c.worker /\ Reading(c, r).step = "requeue"
          /\ Reading(c, r).seen = r
      BY ONLY <1>0, <3>3 DEF Reading, Copy, CopySteps
    <3> QED
      BY <2>2, <3>1, <3>2, <3>4 DEF Goes, r
  <2> QED
    BY <2>1, <2>2
<1>5. CASE CopyRefused(c) \/ CopyRecord(c) \/ CopyRequeue(c)
  BY <1>5 DEF CopyRefused, CopyRecord, CopyRequeue, CopyEnds
<1> QED
  BY <1>2, <1>3, <1>4, <1>5 DEF CopyIn

LEMMA CopiesSteps ==
    ASSUME TranscodeFarmAssumption, Typed, [Next]_vars
    PROVE  \/ copies' \subseteq copies
           \/ \E d \in Copy : Comes(d)
           \/ \E c \in copies, d \in Copy : Goes(c, d)
<1>1. ASSUME NEW j \in Jobs, Operator(j) PROVE copies' = copies
  BY <1>1 DEF Operator, Submit, CancelRead, CancelWrite, Retry, Purge
<1>2. ASSUME NEW j \in Jobs, NEW w \in Workers, StartCopy(j, w)
      PROVE  copies' = copies \/ \E d \in Copy : Comes(d)
  <2> DEFINE d == [job |-> j, worker |-> w, wjid |-> 0, seen |-> Nothing, step |-> "copying"]
  <2>1. Nothing \in Row
    BY FreshIs DEF Nothing, Row
  <2>2. d \in Copy
    BY <2>1 DEF Copy, CopySteps
  <2> QED
    BY <1>2, <2>2 DEF StartCopy, Comes
<1>3. ASSUME NEW j \in Jobs, Tick(j) PROVE copies' = copies \/ \E d \in Copy : Comes(d)
  BY <1>2, <1>3
     DEF Tick, Look, Follow, FollowCopy, FollowLost, FollowRunning, ReturnStart, ReturnEnds,
         ReturnWait, Dispatch, NoCandidate, Record, Send, SendFails, SendRefused
<1>4. ASSUME NEW c \in copies, CopyIn(c) PROVE copies' \subseteq copies \/ \E d \in Copy : Goes(c, d)
  BY <1>4, CopyGoesSteps
<1>5. ASSUME NEW j \in Jobs, HostReturns(j) \/ ServerReturns(j) PROVE copies' = copies
  BY <1>5 DEF HostReturns, ServerReturns
<1>6. ASSUME NEW w \in Workers, WorkerDown(w) \/ WorkerUp(w) \/ \E i \in DOMAIN queue[w] : WorkerEnds(w, i)
      PROVE  copies' = copies
  BY <1>6 DEF WorkerDown, WorkerUp, WorkerEnds
<1>7. CASE Crash
  BY <1>7 DEF Crash
<1>8. CASE UNCHANGED vars
  BY <1>8 DEF vars
<1> QED
  BY <1>1, <1>3, <1>4, <1>5, <1>6, <1>7, <1>8 DEF Next

LEMMA CopiesLast ==
    ASSUME TranscodeFarmAssumption, Plain, [Next]_vars
    PROVE  copies' \subseteq Copy /\ CopiesArePlausible'
<1>0. Typed /\ copies \subseteq Copy /\ queue \in [Workers -> Seq(Entry)]
  BY DEF Plain, Typed, Copy
<1>1. Grows(queue, queue')
  BY <1>0, Queues
<1>2. ASSUME NEW c \in copies
      PROVE  /\ "copy" \in Ways[c.job]
             /\ c.step = "sent" => Owned(queue', c.worker, c.wjid, c.job)
             /\ c.step = "requeue" => c.seen.attempts < MAX_ATTEMPTS
  BY <1>1 DEF Plain, CopiesArePlausible, Owned, Grows
<1>3. ASSUME NEW d \in Copy, Comes(d) PROVE copies' \subseteq Copy /\ CopiesArePlausible'
  <2>1. "copy" \in Ways[d.job]
    BY <1>3 DEF Comes, StartCopy
  <2> QED
    BY <1>0, <1>2, <1>3, <2>1 DEF Comes, CopiesArePlausible
<1>4. ASSUME NEW c \in copies, NEW d \in Copy, Goes(c, d) PROVE copies' \subseteq Copy /\ CopiesArePlausible'
  <2>1. "copy" \in Ways[d.job]
    BY <1>2, <1>4 DEF Goes
  <2>2. d.step = "sent" => Owned(queue', d.worker, d.wjid, d.job)
    <3>1. SUFFICES ASSUME d.step = "sent" PROVE Owned(queue', d.worker, d.wjid, d.job)
      OBVIOUS
    <3> DEFINE w == d.worker
               j == d.job
               i == d.wjid
    <3>2. w \in Workers /\ j \in Jobs /\ Enqueue(w, j) /\ i = Len(queue[w]) + 1
      BY <1>4, <3>1 DEF Goes, Copy
    <3> HIDE DEF w, j, i
    <3>3. queue'[w] = Append(queue[w], [job |-> j, state |-> "open", known |-> TRUE])
      BY <1>0, <3>2, EnqueueIs
    <3>4. i \in DOMAIN queue'[w] /\ queue'[w][i].job = j
      BY <1>0, <3>2, <3>3
    <3> QED
      BY <3>2, <3>4 DEF Owned, w, j, i
  <2>3. d.step = "requeue" => d.seen.attempts < MAX_ATTEMPTS
    <3>1. c.job \in Jobs
      BY <1>0 DEF Copy
    <3> QED
      BY <1>4, <3>1 DEF Goes, Plain, RowsArePlausible, Plausible, Active
  <2> QED
    BY <1>0, <1>2, <1>4, <2>1, <2>2, <2>3 DEF Goes, CopiesArePlausible
<1> QED
  BY <1>0, <1>2, <1>3, <1>4, CopiesSteps DEF CopiesArePlausible

(***************************************************************************)
(* Of a job asked for once there is one copy at most, the loop reads what  *)
(* is still so, and what a copy has brought is recorded for the transcoder *)
(* of the row.                                                             *)
(***************************************************************************)
CopiesAlone == \A c \in copies :
    /\ row[c.job].status \in {"transfer_in"} \cup Ended /\ row[c.job].attempts < MAX_ATTEMPTS
    /\ row[c.job].status = "transfer_in" =>
          /\ tasks[c.job] # "none"
          /\ row[c.job].worker = c.worker
          /\ c.step = "requeue" => c.seen.attempts = row[c.job].attempts
    /\ \A d \in copies : c.job = d.job => c = d
    /\ pass.step # "idle" /\ pass.job = c.job => pass.seen.status # "pending"

(* s, read earlier, against r: at worst its copy has ended meanwhile. *)
Recent(s, r) ==
    /\ s.status = "pending" => r.attempts = s.attempts
    /\ \/ r.status \in Ended
       \/ r.attempts = s.attempts /\ r.status = s.status
       \/ r.attempts = s.attempts /\ s.status = "transfer_in" /\ r.status = "running"
       \/ r.attempts = s.attempts + 1 /\ s.status = "transfer_in" /\ r.status = "pending"

SeenIsRecent == pass.step # "idle" => Recent(pass.seen, row[pass.job])

LEMMA RowsLast ==
    ASSUME TranscodeFarmAssumption, Plain, retries = 0 => CopiesAlone, [Next]_vars
    PROVE  row' \in [Jobs -> Row] /\ RowsArePlausible'
<1>0. Typed /\ row \in [Jobs -> Row] /\ RowsArePlausible
  BY DEF Plain, Typed
<1>1. /\ Grows(queue, queue')
      /\ retries \in Nat /\ retries' \in Nat /\ (retries' = 0 => retries = 0)
  BY <1>0, Queues, Counts DEF TranscodeFarmAssumption
<1>2. \A k \in Jobs : Plausible(row[k], k, queue', retries')
  <2> SUFFICES ASSUME NEW k \in Jobs PROVE Plausible(row[k], k, queue', retries')
    OBVIOUS
  <2>1. Plausible(row[k], k, queue, retries)
    BY <1>0 DEF RowsArePlausible
  <2> QED
    BY ONLY <1>1, <2>1, PlausibleLasts
<1>3. CASE UNCHANGED row
  BY <1>0, <1>2, <1>3 DEF RowsArePlausible
<1>4. ASSUME NEW j \in Jobs, Written(j) PROVE row' \in [Jobs -> Row] /\ RowsArePlausible'
  <2> DEFINE r == row[j]
             s == row'[j]
  <2>1. row' \in [Jobs -> Row] /\ \A k \in Jobs : k # j => row'[k] = row[k]
    BY <1>4 DEF Written, Begins, Ends, Requeues, Returns, Starts, Renews, Marks, Writes
  <2>2. r \in Row /\ Plausible(r, j, queue', retries')
    BY <1>0, <1>2
  <2>3. MAX_ATTEMPTS \in Nat \ {0}
    BY DEF TranscodeFarmAssumption
  <2>4. Plausible(s, j, queue', retries')
    <3>1. CASE Begins(j) \/ \E n \in Nat : Requeues(j, n)
      BY <2>2, <2>3, <3>1 DEF Begins, Requeues, Renews, Writes, Plausible, Active, Working
    <3>2. CASE Ends(j)
      <4>1. s = r \/ (s.status \in Finished \cup {"purged"} /\ s.access = r.access)
        BY <3>2 DEF Ends, Marks, Writes
      <4> QED
        BY <2>2, <4>1 DEF Plausible, Active, Working, Finished
    <3>3. CASE Returns(j)
      <4>1. PICK n \in 0..MAX_ATTEMPTS :
              Writes(j, {"transfer_out"}, IF n = MAX_ATTEMPTS THEN "failed" ELSE "transfer_out",
                     n, row[j].access, row[j].worker, row[j].wjid)
        BY <3>3 DEF Returns
      <4>2. \/ s = r
            \/ s.status = "failed" /\ s.access = r.access
            \/ /\ r.status = "transfer_out" /\ s.status = "transfer_out" /\ n < MAX_ATTEMPTS
               /\ s.attempts = n /\ s.access = r.access /\ s.worker = r.worker /\ s.wjid = r.wjid
        BY <2>3, <4>1 DEF Writes
      <4> QED
        BY <2>2, <4>2 DEF Plausible, Active, Working
    <3>4. CASE Starts(j)
      <4>1. CASE Marks(j, {"running"}, "transfer_out")
        BY <2>2, <4>1 DEF Marks, Writes, Plausible, Active, Working
      <4>2. CASE /\ Record(j)
                 /\ Writes(j, {"pending"}, "running", row[j].attempts, pass.seen.access,
                           pass.seen.worker, pass.seen.wjid)
        <5>1. /\ pass.seen.access # "copy"
              /\ Owned(queue, pass.seen.worker, pass.seen.wjid, j)
          BY <4>2 DEF Record, Plain, PassIsPlausible
        <5>2. Owned(queue', pass.seen.worker, pass.seen.wjid, j)
          BY <1>1, <5>1 DEF Owned, Grows
        <5> QED
          BY <2>2, <4>2, <5>1, <5>2 DEF Writes, Plausible, Active, Working
      <4>3. ASSUME NEW w \in Workers, StartCopy(j, w),
                   Writes(j, {"pending"}, "transfer_in", row[j].attempts, "copy", w, row[j].wjid)
            PROVE  Plausible(s, j, queue', retries')
        <5>1. "copy" \in Ways[j]
          BY <4>3 DEF StartCopy
        <5> QED
          BY <2>2, <4>3, <5>1 DEF Writes, Plausible, Active, Working
      <4>4. ASSUME NEW c \in copies, c.job = j, CopyRecord(c),
                   Writes(j, {"transfer_in"}, "running", row[j].attempts, row[j].access,
                          row[j].worker, c.wjid)
            PROVE  Plausible(s, j, queue', retries')
        <5>1. Owned(queue', c.worker, c.wjid, j)
          BY <1>1, <4>4 DEF CopyRecord, Plain, CopiesArePlausible, Owned, Grows
        <5>2. retries = 0 /\ r.status = "transfer_in" => r.worker = c.worker
          BY <4>4 DEF CopiesAlone
        <5>3. \/ s = r
              \/ /\ r.status = "transfer_in" /\ s.status = "running" /\ s.attempts = r.attempts
                 /\ s.access = r.access /\ s.worker = r.worker /\ s.wjid = c.wjid
          BY <4>4 DEF Writes
        <5>4. CASE s = r
          BY <2>2, <5>4
        <5>5. CASE s # r
          <6>1. s.access = "copy" /\ "copy" \in Ways[j] /\ s.attempts < MAX_ATTEMPTS
            BY <2>2, <5>3, <5>5 DEF Plausible, Active
          <6>2. retries' = 0 => Owned(queue', s.worker, s.wjid, j)
            BY <1>1, <5>1, <5>2, <5>3, <5>5
          <6> QED
            BY <5>3, <5>5, <6>1, <6>2 DEF Plausible, Active, Working
        <5> QED
          BY <5>4, <5>5
      <4> QED
        BY <3>4, <4>1, <4>2, <4>3, <4>4 DEF Starts
    <3> QED
      BY <1>4, <3>1, <3>2, <3>3, <3>4 DEF Written
  <2> QED
    BY <1>2, <2>1, <2>4 DEF RowsArePlausible
<1> QED
  BY <1>3, <1>4, RowSteps

LEMMA PlainLasts ==
    ASSUME TranscodeFarmAssumption, Plain, retries = 0 => CopiesAlone, [Next]_vars
    PROVE  Plain'
<1>1. row' \in [Jobs -> Row] /\ RowsArePlausible'
  BY RowsLast
<1>2. /\ pass' \in [step : {"idle", "look", "sent"}, job : {pass'.job}, seen : Row, ok : BOOLEAN]
      /\ PassIsPlausible'
  BY PassLasts
<1>3. copies' \subseteq Copy /\ CopiesArePlausible'
  BY CopiesLast
<1>4. tasks' \in [Jobs -> Tasks] /\ queue' \in [Workers -> Seq(Entry)]
      /\ retries' \in 0..MaxRetries /\ crashes' \in Nat
  BY TasksLast, Queues, Counts DEF Plain
<1> QED
  BY <1>1, <1>2, <1>3, <1>4 DEF Plain, Typed, Copy, Tasks

\* Nothing happens to the job that its copy or the loop could mistake.
Settled(k) ==
    \/ /\ row'[k] = row[k]
       /\ row[k].status = "transfer_in" /\ tasks[k] # "none" => tasks'[k] # "none"
    \/ row'[k].status \in Ended /\ row'[k].attempts = row[k].attempts
    \/ row[k].status = "absent"

LEMMA OtherSettles ==
    ASSUME TranscodeFarmAssumption, Typed,
           \/ \E j \in Jobs : (Operator(j) /\ ~ Retry(j)) \/ HostReturns(j) \/ ServerReturns(j)
           \/ \E w \in Workers :
                 WorkerDown(w) \/ WorkerUp(w) \/ \E i \in DOMAIN queue[w] : WorkerEnds(w, i)
           \/ UNCHANGED vars
    PROVE  pass' = pass /\ copies' = copies /\ \A k \in Jobs : Settled(k)
<1>1. ASSUME UNCHANGED <<row, tasks>> PROVE \A k \in Jobs : Settled(k)
  BY <1>1 DEF Settled
<1>2. ASSUME NEW j \in Jobs, Submit(j) PROVE \A k \in Jobs : Settled(k)
  <2>1. \A k \in Jobs : k # j => row'[k] = row[k]
    BY <1>2, OperatorWrites DEF Renews, Writes
  <2> QED
    BY <1>2, <2>1 DEF Submit, Settled
<1>3. ASSUME NEW j \in Jobs, CancelWrite(j) PROVE \A k \in Jobs : Settled(k)
  <2>1. \A k \in Jobs : k # j => row'[k] = row[k]
    BY <1>3, OperatorWrites DEF Marks, Writes
  <2>2. \A k \in Jobs : k # j => tasks'[k] = tasks[k]
    BY <1>3 DEF CancelWrite, PopTask, SetTask, Typed
  <2>3. (row'[j].status = "cancelled" /\ row'[j].attempts = row[j].attempts)
        \/ (row'[j] = row[j] /\ row[j].status \notin Active)
    BY <1>3, OperatorWrites DEF Marks, Writes
  <2> QED
    BY <2>1, <2>2, <2>3 DEF Settled, Ended, Finished, Active
<1>4. ASSUME NEW j \in Jobs, Purge(j) PROVE \A k \in Jobs : Settled(k)
  <2>1. \A k \in Jobs : (k # j => row'[k] = row[k]) /\ tasks'[k] = tasks[k]
    BY <1>4, OperatorWrites DEF Marks, Writes, Purge
  <2>2. (row'[j].status = "purged" /\ row'[j].attempts = row[j].attempts) \/ row'[j] = row[j]
    BY <1>4, OperatorWrites DEF Marks, Writes
  <2> QED
    BY <2>1, <2>2 DEF Settled, Ended
<1>5. ASSUME NEW j \in Jobs, HostReturns(j) \/ ServerReturns(j) PROVE \A k \in Jobs : Settled(k)
  BY <1>5 DEF HostReturns, ServerReturns, SetTask, Settled, Typed
<1>6. ASSUME NEW j \in Jobs, Operator(j), ~ Retry(j)
      PROVE  pass' = pass /\ copies' = copies /\ \A k \in Jobs : Settled(k)
  <2>1. pass' = pass /\ copies' = copies
    BY <1>6 DEF Operator, Submit, CancelRead, CancelWrite, Purge
  <2>2. CancelRead(j) => UNCHANGED <<row, tasks>>
    BY DEF CancelRead
  <2> QED
    BY <1>1, <1>2, <1>3, <1>4, <1>6, <2>1, <2>2 DEF Operator
<1>7. ASSUME NEW w \in Workers, WorkerDown(w) \/ WorkerUp(w) \/ \E i \in DOMAIN queue[w] : WorkerEnds(w, i)
      PROVE  UNCHANGED <<row, tasks, pass, copies>>
  BY <1>7 DEF WorkerDown, WorkerUp, WorkerEnds
<1>8. UNCHANGED vars => UNCHANGED <<row, tasks, pass, copies>>
  BY DEF vars
<1>9. \A j \in Jobs : HostReturns(j) \/ ServerReturns(j) => UNCHANGED <<pass, copies>>
  BY DEF HostReturns, ServerReturns
<1> QED
  BY <1>1, <1>5, <1>6, <1>7, <1>8, <1>9

\* What the loop knows of a job being copied is so.
LEMMA CopiedIsSeen ==
    ASSUME CopiesAlone, SeenIsRecent, NEW c \in copies, pass.step # "idle", pass.job = c.job,
           row[c.job].status \notin Ended
    PROVE  /\ row[c.job].status = "transfer_in" /\ pass.seen.status = "transfer_in"
           /\ pass.seen.attempts = row[c.job].attempts /\ tasks[c.job] # "none"
  BY DEF CopiesAlone, SeenIsRecent, Recent, Ended, Finished

LEMMA TickSettles ==
    ASSUME TranscodeFarmAssumption, Plain, CopiesAlone, SeenIsRecent, NEW j \in Jobs, Tick(j),
           \A d \in Copy : ~ Comes(d),
           ~ Look(j), \A w \in Workers, way \in {"direct", "stream"} : ~ Send(j, w, way)
    PROVE  pass' = Idle /\ copies' = copies /\ \A c \in copies : Settled(c.job)
<1>0. Typed /\ PassIsPlausible /\ pass.step # "idle" /\ pass.job = j
  BY DEF Plain, Tick, Follow, FollowCopy, FollowLost, FollowRunning, ReturnStart, ReturnEnds,
         ReturnWait, Dispatch, NoCandidate, Record, SendFails, SendRefused, StartCopy,
         Returning, Dispatching, Acting
<1>1. pass' = Idle
  BY DEF Tick, Follow, FollowCopy, FollowLost, FollowRunning, ReturnStart, ReturnEnds, ReturnWait,
         Dispatch, NoCandidate, Record, SendFails, SendRefused, StartCopy, ActDone
<1>2. ASSUME NEW w \in Workers, StartCopy(j, w)
      PROVE  row[j].status # "pending" /\ UNCHANGED <<row, tasks, copies>>
  <2> DEFINE d == [job |-> j, worker |-> w, wjid |-> 0, seen |-> Nothing, step |-> "copying"]
  <2>1. Nothing \in Row
    BY FreshIs DEF Nothing, Row
  <2>2. d \in Copy
    BY <2>1 DEF Copy, CopySteps
  <2>3. row[j].status # "pending"
    BY <1>2, <2>2 DEF StartCopy, Comes
  <2>4. UNCHANGED <<tasks, copies>>
    BY <1>2, <2>3 DEF StartCopy
  <2>5. UNCHANGED row
    BY <1>2, <2>3 DEF StartCopy, Update
  <2> QED
    BY <2>3, <2>4, <2>5
<1>3. copies' = copies
  BY <1>2 DEF Tick, Follow, FollowCopy, FollowLost, FollowRunning, ReturnStart, ReturnEnds,
              ReturnWait, Dispatch, NoCandidate, Record, SendFails, SendRefused
<1>4. ASSUME NEW k \in Jobs, k # j PROVE row'[k] = row[k] /\ tasks'[k] = tasks[k]
  <2>1. row'[k] = row[k]
    BY <1>0, <1>2, <1>4
       DEF Typed, Update, Requeue, RequeueReturn, Finish, Tick, Follow, FollowCopy, FollowLost,
           FollowRunning, ReturnStart, ReturnEnds, ReturnWait, Dispatch, NoCandidate, Record,
           SendFails, SendRefused
  <2>2. tasks'[k] = tasks[k]
    BY <1>0, <1>2, <1>4
       DEF Typed, PopTask, SetTask, Tick, Follow, FollowCopy, FollowLost,
           FollowRunning, ReturnStart, ReturnEnds, ReturnWait, Dispatch, NoCandidate, Record,
           SendFails, SendRefused
  <2> QED
    BY <2>1, <2>2
<1>5. ASSUME NEW c \in copies, c.job = j, row[j].status \notin Ended PROVE UNCHANGED <<row, tasks>>
  <2>1. /\ row[j].status = "transfer_in" /\ pass.seen.status = "transfer_in"
        /\ tasks[j] # "none"
    BY <1>0, <1>5, CopiedIsSeen
  <2>2. CASE FollowCopy(j)
    BY <2>1, <2>2 DEF FollowCopy
  <2>3. ~ Record(j)
    BY <1>0, <2>1 DEF Record, PassIsPlausible
  <2>4. FollowCopy(j)
    BY <2>1, <2>3 DEF Tick, Follow, FollowCopy, FollowLost, FollowRunning, ReturnStart, ReturnEnds,
              ReturnWait, Returning, Dispatch, Dispatching, NoCandidate, SendFails,
              SendRefused, StartCopy
  <2> QED
    BY <2>2, <2>4
<1>6. ASSUME row[j].status \in Ended PROVE row'[j] = row[j]
  BY <1>2, <1>6
     DEF Update, Requeue, RequeueReturn, Finish, Tick, Follow, FollowCopy, FollowLost,
         FollowRunning, ReturnStart, ReturnEnds, ReturnWait, Dispatch, NoCandidate, Record,
         SendFails, SendRefused, Active, Finished, Ended
<1>7. \A c \in copies : Settled(c.job)
  <2> SUFFICES ASSUME NEW c \in copies PROVE Settled(c.job)
    OBVIOUS
  <2>1. c.job \in Jobs
    BY <1>0 DEF Typed
  <2> QED
    BY <1>4, <1>5, <1>6, <2>1 DEF Settled, Ended, Finished
<1> QED
  BY <1>1, <1>3, <1>7

\* A copy ends: the job it was of is running, or to be tried again, or over.
LEMMA CopyEndsSo ==
    ASSUME TranscodeFarmAssumption, Plain, CopiesAlone, NEW c \in copies, CopyIn(c)
    PROVE  /\ pass' = pass
           /\ \A k \in Jobs : k # c.job => row'[k] = row[k] /\ tasks'[k] = tasks[k]
           /\ \/ row'[c.job] = row[c.job]
              \/ row'[c.job].status \in Ended
              \/ /\ row[c.job].status = "transfer_in" /\ row'[c.job].status = "running"
                 /\ row'[c.job].attempts = row[c.job].attempts
              \/ /\ row[c.job].status = "transfer_in" /\ row'[c.job].status = "pending"
                 /\ row'[c.job].attempts = row[c.job].attempts + 1
<1> DEFINE j == c.job
<1>0. Typed /\ CopiesArePlausible /\ j \in Jobs /\ row[j].attempts \in Nat
  <2>1. Typed /\ CopiesArePlausible
    BY DEF Plain
  <2>2. j \in Jobs
    BY <2>1 DEF Typed
  <2>3. row[j] \in Row
    BY <2>1, <2>2 DEF Typed
  <2> QED
    BY <2>1, <2>2, <2>3 DEF Row
<1>1. pass' = pass
  BY DEF CopyIn, CopyFile, CopyCheck, CopySend, CopyRefused, CopyRecord, CopyFails, CopyRequeue
<1>2. ASSUME NEW k \in Jobs, k # j PROVE tasks'[k] = tasks[k]
  BY <1>0, <1>2 DEF CopyIn, CopyFile, CopyCheck, CopySend, CopyRefused, CopyRecord, CopyFails,
                    CopyRequeue, CopyEnds, PopTask, SetTask, Typed
<1>3. ASSUME NEW k \in Jobs, k # j PROVE row'[k] = row[k]
  BY <1>0, <1>3 DEF CopyIn, CopyFile, CopyCheck, CopySend, CopyRefused, CopyRecord, CopyFails,
                    CopyRequeue, Requeue, Update, Typed
<1>4. \/ row'[j] = row[j]
      \/ row'[j].status \in Ended
      \/ /\ row[j].status = "transfer_in" /\ row'[j].status = "running"
         /\ row'[j].attempts = row[j].attempts
      \/ /\ row[j].status = "transfer_in" /\ row'[j].status = "pending"
         /\ row'[j].attempts = row[j].attempts + 1
  <2>1. CASE CopyFile(c) \/ CopyCheck(c) \/ CopySend(c) \/ CopyFails(c)
    BY <2>1 DEF CopyFile, CopyCheck, CopySend, CopyFails
  <2>2. CASE CopyRefused(c)
    BY <1>0, <2>2, CopyWrites DEF Marks, Writes, Ended, Finished
  <2>3. CASE CopyRecord(c)
    BY <1>0, <2>3, CopyWrites DEF Writes
  <2>4. CASE CopyRequeue(c)
    <3>1. Requeues(j, c.seen.attempts + 1) /\ c.step = "requeue"
      BY <1>0, <2>4, CopyWrites DEF CopyRequeue
    <3>2. /\ row[j].status \in {"transfer_in"} \cup Ended
          /\ row[j].status = "transfer_in" => c.seen.attempts = row[j].attempts
      BY <3>1 DEF CopiesAlone
    <3>3. row[j].status \in Ended => row'[j] = row[j]
      BY <3>1 DEF Requeues, Renews, Writes, Ended, Finished, Active
    <3>4. CASE row[j].status = "transfer_in"
      BY <3>1, <3>2, <3>4 DEF Requeues, Renews, Writes, Ended, Finished
    <3> QED
      BY <3>2, <3>3, <3>4
  <2> QED
    BY <2>1, <2>2, <2>3, <2>4 DEF CopyIn
<1> QED
  BY <1>1, <1>2, <1>3, <1>4

LEMMA AloneLasts ==
    ASSUME TranscodeFarmAssumption, Plain, CopiesAlone, SeenIsRecent, [Next]_vars, retries' = 0
    PROVE  CopiesAlone'
<1>0. Typed /\ copies \subseteq Copy /\ row \in [Jobs -> Row] /\ tasks \in [Jobs -> Tasks]
  BY DEF Plain, Typed, Copy, Tasks
<1>1. \A j \in Jobs : ~ Retry(j)
  BY <1>0 DEF Retry, Typed, TranscodeFarmAssumption
<1>2. ASSUME pass' = pass \/ pass' = Idle, copies' \subseteq copies,
             \A c \in copies' : Settled(c.job)
      PROVE  CopiesAlone'
  <2>1. pass' = pass \/ pass'.step = "idle"
    BY <1>2, IdleIs
  <2> SUFFICES ASSUME NEW c \in copies'
               PROVE  /\ row'[c.job].status \in {"transfer_in"} \cup Ended
                      /\ row'[c.job].attempts < MAX_ATTEMPTS
                      /\ row'[c.job].status = "transfer_in" =>
                            /\ tasks'[c.job] # "none"
                            /\ row'[c.job].worker = c.worker
                            /\ c.step = "requeue" => c.seen.attempts = row'[c.job].attempts
                      /\ \A d \in copies' : c.job = d.job => c = d
                      /\ pass'.step # "idle" /\ pass'.job = c.job => pass'.seen.status # "pending"
    BY DEF CopiesAlone
  <2>2. c \in copies /\ Settled(c.job)
    BY <1>2
  <2>3. row[c.job].status # "absent"
    BY <2>2 DEF CopiesAlone, Ended, Finished
  <2>4. /\ row'[c.job].status \in {"transfer_in"} \cup Ended
        /\ row'[c.job].attempts < MAX_ATTEMPTS
        /\ row'[c.job].status = "transfer_in" =>
              /\ tasks'[c.job] # "none"
              /\ row'[c.job].worker = c.worker
              /\ c.step = "requeue" => c.seen.attempts = row'[c.job].attempts
    <3>1. CASE row'[c.job].status \in Ended
      BY <2>2, <2>3, <3>1 DEF Ended, Finished, Settled, CopiesAlone
    <3>2. CASE row'[c.job] = row[c.job]
               /\ (row[c.job].status = "transfer_in" /\ tasks[c.job] # "none" => tasks'[c.job] # "none")
      BY <2>2, <3>2 DEF CopiesAlone
    <3> QED
      BY <2>2, <2>3, <3>1, <3>2 DEF Settled
  <2> QED
    BY <1>2, <2>1, <2>2, <2>4 DEF CopiesAlone
<1>3. ASSUME NEW j \in Jobs, Look(j) PROVE CopiesAlone'
  <2>1. /\ pass'.step = "look" /\ pass'.job = j /\ pass'.seen = row[j]
        /\ UNCHANGED <<row, tasks, copies>>
    BY <1>0, <1>3, LookIs
  <2>2. \A c \in copies : row[c.job].status # "pending"
    BY DEF CopiesAlone, Ended, Finished
  <2> QED
    BY <2>1, <2>2 DEF CopiesAlone
<1>4. ASSUME NEW j \in Jobs, NEW w \in Workers, NEW way \in {"direct", "stream"}, Send(j, w, way)
      PROVE  CopiesAlone'
  <2>1. /\ pass.step # "idle" /\ pass.job = j /\ pass'.job = j /\ pass.seen.status = "pending"
        /\ UNCHANGED <<row, tasks, copies>>
    BY <1>0, <1>4, SendIs
  <2>2. \A c \in copies : c.job # j
    BY <2>1 DEF CopiesAlone
  <2> QED
    BY <2>1, <2>2 DEF CopiesAlone
<1>5. ASSUME NEW d \in Copy, Comes(d) PROVE CopiesAlone'
  <2> DEFINE j == d.job
  <2>1. /\ j \in Jobs /\ d.worker \in Workers /\ d.step = "copying"
        /\ row[j].status = "pending" /\ StartCopy(j, d.worker) /\ copies' = copies \cup {d}
    BY <1>5 DEF Comes, Copy
  <2>2. \A c \in copies : c.job # j
    BY <2>1 DEF CopiesAlone, Ended, Finished
  <2>3. tasks' = [tasks EXCEPT ![j] = "copy_in"] /\ pass' = Idle
    BY <2>1 DEF StartCopy, SetTask, ActDone
  <2>4. tasks'[j] = "copy_in" /\ \A c \in copies : tasks'[c.job] = tasks[c.job]
    BY <1>0, <2>1, <2>2, <2>3 DEF Copy
  <2>5. /\ row'[j].status = "transfer_in" /\ row'[j].worker = d.worker
        /\ row'[j].attempts = row[j].attempts
        /\ \A c \in copies : row'[c.job] = row[c.job]
    <3>1. Writes(j, {"pending"}, "transfer_in", row[j].attempts, "copy", d.worker, row[j].wjid)
      BY <1>0, <2>1, DispatchWrites DEF Plain
    <3> QED
      BY <1>0, <2>1, <2>2, <3>1 DEF Writes, Copy
  <2>6. row[j].attempts < MAX_ATTEMPTS
    BY <2>1 DEF Plain, RowsArePlausible, Plausible, Active
  <2>7. ASSUME NEW c \in copies', c \in copies
        PROVE  /\ row'[c.job].status \in {"transfer_in"} \cup Ended
               /\ row'[c.job].attempts < MAX_ATTEMPTS
               /\ row'[c.job].status = "transfer_in" =>
                     /\ tasks'[c.job] # "none"
                     /\ row'[c.job].worker = c.worker
                     /\ c.step = "requeue" => c.seen.attempts = row'[c.job].attempts
               /\ \A e \in copies' : c.job = e.job => c = e
    BY <2>1, <2>2, <2>4, <2>5, <2>7 DEF CopiesAlone
  <2>8. /\ row'[d.job].status = "transfer_in" /\ tasks'[d.job] # "none"
        /\ row'[d.job].attempts < MAX_ATTEMPTS
        /\ row'[d.job].worker = d.worker /\ d.step # "requeue"
        /\ \A e \in copies' : d.job = e.job => d = e
    BY <2>1, <2>2, <2>4, <2>5, <2>6
  <2>9. pass'.step = "idle"
    BY <2>3, IdleIs
  <2> QED
    BY <2>1, <2>7, <2>8, <2>9 DEF CopiesAlone
<1>6. ASSUME NEW c \in copies, NEW d \in Copy, Goes(c, d) PROVE CopiesAlone'
  <2>1. /\ d.job = c.job /\ d.worker = c.worker /\ copies' = (copies \ {c}) \cup {d}
        /\ UNCHANGED <<row, tasks, pass>>
        /\ d.step = "requeue" => d.seen = row[d.job]
    BY <1>6 DEF Goes
  <2>2. \A e \in copies \ {c} : e.job # d.job
    BY <2>1 DEF CopiesAlone
  <2>3. /\ row[d.job].status \in {"transfer_in"} \cup Ended /\ row[d.job].attempts < MAX_ATTEMPTS
        /\ row[d.job].status = "transfer_in" => tasks[d.job] # "none" /\ row[d.job].worker = d.worker
        /\ pass.step # "idle" /\ pass.job = d.job => pass.seen.status # "pending"
    BY <2>1 DEF CopiesAlone
  <2> QED
    BY <2>1, <2>2, <2>3 DEF CopiesAlone
<1>7. ASSUME NEW j \in Jobs, Tick(j) PROVE CopiesAlone'
  BY <1>2, <1>3, <1>4, <1>5, <1>7, TickSettles
<1>8. ASSUME NEW c \in copies, CopyIn(c) PROVE CopiesAlone'
  <2>1. CASE copies' = copies \ {c}
    <3>1. \A d \in copies' : d \in copies /\ d.job \in Jobs /\ d.job # c.job
      BY <1>0, <2>1 DEF CopiesAlone, Copy
    <3>2. pass' = pass /\ \A d \in copies' : Settled(d.job)
      BY <1>8, <3>1, CopyEndsSo DEF Settled
    <3> QED
      BY <1>2, <2>1, <3>2
  <2> QED
    BY <1>0, <1>6, <1>8, <2>1, CopyGoesSteps
<1>9. CASE Crash
  BY <1>9 DEF Crash, CopiesAlone
<1>10. CASE \/ \E j \in Jobs : Operator(j) \/ HostReturns(j) \/ ServerReturns(j)
            \/ \E w \in Workers :
                  WorkerDown(w) \/ WorkerUp(w) \/ \E i \in DOMAIN queue[w] : WorkerEnds(w, i)
            \/ UNCHANGED vars
  <2>1. pass' = pass /\ copies' = copies /\ \A k \in Jobs : Settled(k)
    BY <1>0, <1>1, <1>10, OtherSettles
  <2> QED
    BY <1>0, <1>2, <2>1 DEF Copy
<1> QED
  BY <1>7, <1>8, <1>9, <1>10 DEF Next

LEMMA RecentLasts ==
    ASSUME TranscodeFarmAssumption, Plain, CopiesAlone, SeenIsRecent, [Next]_vars, retries' = 0
    PROVE  SeenIsRecent'
<1>0. Typed /\ PassIsPlausible /\ row \in [Jobs -> Row]
  BY DEF Plain, Typed
<1>1. \A j \in Jobs : ~ Retry(j)
  BY <1>0 DEF Retry, Typed, TranscodeFarmAssumption
<1>2. pass' = Idle => SeenIsRecent'
  BY IdleIs DEF SeenIsRecent
<1>3. ASSUME pass' = pass, \A k \in Jobs : Settled(k) PROVE SeenIsRecent'
  <2> SUFFICES ASSUME pass.step # "idle" PROVE Recent(pass.seen, row'[pass.job])
    BY <1>3 DEF SeenIsRecent
  <2>1. Settled(pass.job) /\ pass.seen.status \in Active /\ Recent(pass.seen, row[pass.job])
    BY <1>0, <1>3 DEF PassIsPlausible, SeenIsRecent
  <2> QED
    BY <2>1 DEF Settled, Recent, Active, Ended, Finished
<1>4. ASSUME NEW j \in Jobs, Tick(j) PROVE SeenIsRecent'
  <2>1. CASE Look(j)
    BY <1>0, <2>1, LookIs DEF SeenIsRecent, Recent
  <2>2. ASSUME NEW w \in Workers, NEW way \in {"direct", "stream"}, Send(j, w, way) PROVE SeenIsRecent'
    BY <1>0, <2>2, SendIs DEF SeenIsRecent, Recent
  <2>3. CASE pass' = Idle
    BY <1>2, <2>3
  <2> QED
    BY <1>4, <2>1, <2>2, <2>3
       DEF Tick, Follow, FollowCopy, FollowLost, FollowRunning, ReturnStart, ReturnEnds, ReturnWait,
           Dispatch, NoCandidate, Record, SendFails, SendRefused, StartCopy, ActDone
<1>5. ASSUME NEW c \in copies, CopyIn(c) PROVE SeenIsRecent'
  <2>1. pass' = pass /\ \A k \in Jobs : k # c.job => row'[k] = row[k]
    BY <1>5, CopyEndsSo
  <2> SUFFICES ASSUME pass.step # "idle" PROVE Recent(pass.seen, row'[pass.job])
    BY <2>1 DEF SeenIsRecent
  <2>2. pass.job \in Jobs /\ Recent(pass.seen, row[pass.job])
    BY <1>0 DEF PassIsPlausible, SeenIsRecent
  <2>3. CASE pass.job # c.job
    BY <2>1, <2>2, <2>3
  <2>4. CASE pass.job = c.job
    <3>1. row[c.job].status = "transfer_in" =>
             pass.seen.status = "transfer_in" /\ pass.seen.attempts = row[c.job].attempts
      BY <2>4, CopiedIsSeen DEF Ended, Finished
    <3>2. pass.seen.status # "pending"
      BY <2>4 DEF CopiesAlone
    <3> QED
      BY <1>5, <2>2, <2>4, <3>1, <3>2, CopyEndsSo DEF Recent
  <2> QED
    BY <2>3, <2>4
<1>6. CASE Crash
  BY <1>2, <1>6 DEF Crash
<1>7. CASE \/ \E j \in Jobs : Operator(j) \/ HostReturns(j) \/ ServerReturns(j)
           \/ \E w \in Workers :
                 WorkerDown(w) \/ WorkerUp(w) \/ \E i \in DOMAIN queue[w] : WorkerEnds(w, i)
           \/ UNCHANGED vars
  BY <1>0, <1>1, <1>3, <1>7, OtherSettles
<1> QED
  BY <1>4, <1>5, <1>6, <1>7 DEF Next

(***************************************************************************)
(* The inductive invariant, and what follows from it.                      *)
(***************************************************************************)
IInv == Plain /\ (retries = 0 => CopiesAlone /\ SeenIsRecent)

\* Every reachable state of the farm satisfies IInv.
THEOREM Inductive == ASSUME TranscodeFarmAssumption PROVE Spec => []IInv
<1>1. Init => IInv
  <2> SUFFICES ASSUME Init PROVE IInv
    OBVIOUS
  <2>1. Nothing \in Row /\ Nothing.status = "absent" /\ Nothing.access = "none"
        /\ Nothing.attempts = 0 /\ 0 \in 0..MaxRetries
    BY FreshIs DEF Nothing, Row, TranscodeFarmAssumption
  <2>2. Typed
    BY <2>1, IdleIs DEF Init, Typed
  <2>3. RowsArePlausible
    BY <2>1 DEF Init, RowsArePlausible, Plausible, Active, Working
  <2>4. PassIsPlausible /\ CopiesArePlausible /\ CopiesAlone /\ SeenIsRecent
    BY IdleIs DEF Init, PassIsPlausible, CopiesArePlausible, CopiesAlone, SeenIsRecent
  <2> QED
    BY <2>2, <2>3, <2>4 DEF IInv, Plain
<1>2. IInv /\ [Next]_vars => IInv'
  <2> SUFFICES ASSUME IInv, [Next]_vars PROVE IInv'
    OBVIOUS
  <2>1. Plain'
    BY PlainLasts DEF IInv
  <2>2. retries' = 0 => CopiesAlone' /\ SeenIsRecent'
    BY Counts, AloneLasts, RecentLasts DEF IInv, Plain
  <2> QED
    BY <2>1, <2>2 DEF IInv
<1> QED
  BY <1>1, <1>2, PTL DEF Spec

\* A job handed over is followed under the number it has at the transcoder it
\* is said to be at (transcode_farm.py:858), but for a copied job asked again.
THEOREM WorkIsOwnHolds == ASSUME TranscodeFarmAssumption PROVE Spec => []WorkIsOwn
<1>1. IInv => WorkIsOwn
  BY DEF IInv, Plain, RowsArePlausible, Plausible, Working, Owned, WorkIsOwn
<1> QED
  BY <1>1, Inductive, PTL

\* An end is final but for a retry, and a cancellation that came in the middle
\* of a call wins (transcode_farm.py:138-139).
THEOREM EndIsFinalHolds == ASSUME TranscodeFarmAssumption PROVE Spec => EndIsFinal
<1> DEFINE Final == \A j \in Jobs : row[j].status \in Finished =>
                       row'[j].status \in {row[j].status, "purged"}
                       \/ (retries' > retries /\ row'[j] = Fresh)
<1>1. IInv /\ [Next]_vars => [Final]_vars
  BY EndStep DEF IInv
<1> QED
  BY <1>1, Inductive, PTL DEF Spec, EndIsFinal

(***************************************************************************)
(* Every step of the farm is one that FarmLifecycle allows.                *)
(***************************************************************************)
StateIn(r) ==
    CASE r.status = "absent" -> "unknown"
      [] r.status = "pending" -> "queued"
      [] r.status \in {"transfer_in", "running", "transfer_out"} -> "working"
      [] OTHER -> r.status

States == [j \in Jobs |->
             CASE row[j].status = "absent" -> "unknown"
               [] row[j].status = "pending" -> "queued"
               [] row[j].status \in {"transfer_in", "running", "transfer_out"} -> "working"
               [] OTHER -> row[j].status]
Tries == [j \in Jobs |-> row[j].attempts]

\* The row of j alone changes: this is what FarmLifecycle sees of it.
Sees(j, from, to, n) ==
    /\ StateIn(row[j]) \in from
    /\ StateIn(row'[j]) = to
    /\ row'[j].attempts = n
    /\ \A k \in Jobs : k # j => row'[k] = row[k]

LEMMA SeesIs ==
    ASSUME NEW j \in Jobs, NEW from, NEW to, NEW n, Sees(j, from, to, n)
    PROVE  /\ Lifecycle!Move(j, from, to)
           /\ n = row[j].attempts => Tries' = Tries
           /\ Tries[j] = row[j].attempts
           /\ Tries' = [Tries EXCEPT ![j] = n]
<1>1. States[j] \in from
  BY DEF Sees, States, StateIn
<1>2. States' = [States EXCEPT ![j] = to]
  <2>1. \A k \in Jobs : States[k] = StateIn(row[k]) /\ States'[k] = StateIn(row'[k])
    BY DEF States, StateIn
  <2>2. DOMAIN States = Jobs /\ DOMAIN States' = Jobs /\ States \in [Jobs -> {States[k] : k \in Jobs}]
    BY DEF States
  <2>3. States' = [k \in Jobs |-> States'[k]] /\ States = [k \in Jobs |-> States[k]]
    BY DEF States
  <2>4. \A k \in Jobs : States'[k] = IF k = j THEN to ELSE States[k]
    BY <2>1 DEF Sees
  <2> HIDE DEF States
  <2> QED
    BY <2>2, <2>3, <2>4
<1>3. Tries' = [Tries EXCEPT ![j] = n] /\ Tries[j] = row[j].attempts
  BY DEF Tries, Sees
<1>4. n = row[j].attempts => Tries' = Tries
  BY DEF Tries, Sees
<1>5. Lifecycle!Move(j, from, to)
  BY <1>1, <1>2 DEF Lifecycle!Move, States
<1> QED
  BY <1>3, <1>4, <1>5

\* One more failed attempt: another try, or none is left.
LEMMA RequeueIsKept ==
    ASSUME TranscodeFarmAssumption, Plain, NEW j \in Jobs, NEW n \in Nat, Requeues(j, n),
           row[j].status \in Active => n = row[j].attempts + 1
    PROVE  Lifecycle!TryAgain(j) \/ Lifecycle!GiveUp(j) \/ UNCHANGED row
<1>0. row \in [Jobs -> Row] /\ MAX_ATTEMPTS \in Nat \ {0}
  BY DEF Plain, Typed, TranscodeFarmAssumption
<1>1. row' \in [Jobs -> Row] /\ \A k \in Jobs : k # j => row'[k] = row[k]
  BY DEF Requeues, Renews, Writes
<1>2. CASE row[j].status \notin Active
  BY <1>0, <1>1, <1>2 DEF Requeues, Renews, Writes
<1>3. ASSUME row[j].status \in Active, n = MAX_ATTEMPTS PROVE Lifecycle!GiveUp(j)
  <2>1. Sees(j, Lifecycle!Unfinished, "failed", n)
    BY <1>1, <1>3 DEF Requeues, Writes, Sees, StateIn, Active, Lifecycle!Unfinished
  <2> QED
    BY <1>3, <2>1, SeesIs DEF Lifecycle!GiveUp, Tries
<1>4. ASSUME row[j].status \in Active, n # MAX_ATTEMPTS PROVE Lifecycle!TryAgain(j)
  <2>1. n < MAX_ATTEMPTS
    BY <1>4 DEF Requeues
  <2>2. Sees(j, Lifecycle!Unfinished, "queued", n)
    BY <1>1, <1>4 DEF Requeues, Renews, Writes, Sees, StateIn, Active, Lifecycle!Unfinished
  <2> QED
    BY <1>4, <2>1, <2>2, SeesIs DEF Lifecycle!TryAgain, Tries
<1> QED
  BY <1>2, <1>3, <1>4

Kept == Lifecycle!Next \/ UNCHANGED <<States, Tries>>

LEMMA SameIsKept == ASSUME UNCHANGED row PROVE Kept
  BY DEF Kept, States, Tries

\* The status and nothing else that FarmLifecycle sees.
LEMMA WriteIsKept ==
    ASSUME NEW j \in Jobs, NEW from, NEW to, NEW access, NEW worker, NEW wjid, row \in [Jobs -> Row],
           Writes(j, from, to, row[j].attempts, access, worker, wjid),
           \/ from \subseteq Active /\ to \in {"failed", "cancelled"}
           \/ from \subseteq Working /\ to = "done"
           \/ from = {"done", "cancelled"} /\ to = "purged"
           \/ from = {"pending"} /\ to \in {"transfer_in", "running"}
           \/ from \subseteq {"running", "transfer_in"} /\ to \in {"running", "transfer_out"}
    PROVE  Kept
<1>1. /\ row' \in [Jobs -> Row] /\ \A k \in Jobs : k # j => row'[k] = row[k]
      /\ row'[j].attempts = row[j].attempts
  BY DEF Writes
<1>2. CASE row[j].status \notin from
  <2>1. row' = row
    BY <1>1, <1>2 DEF Writes
  <2> QED
    BY <2>1, SameIsKept
<1>3. CASE row[j].status \in from
  <2>1. row'[j].status = to
    BY <1>3 DEF Writes
  <2>2. \A f, t : StateIn(row[j]) \in f /\ StateIn(row'[j]) = t =>
                     Lifecycle!Move(j, f, t) /\ Tries' = Tries
    BY <1>1, SeesIs DEF Sees
  <2>3. ASSUME from \subseteq Active, to = "failed" PROVE Lifecycle!Refuse(j)
    <3>1. StateIn(row[j]) \in Lifecycle!Unfinished /\ StateIn(row'[j]) = "failed"
      BY <1>3, <2>1, <2>3 DEF StateIn, Active, Lifecycle!Unfinished
    <3> QED
      BY <2>2, <3>1 DEF Lifecycle!Refuse, Tries
  <2>4. ASSUME from \subseteq Active, to = "cancelled" PROVE Lifecycle!Cancel(j)
    <3>1. StateIn(row[j]) \in Lifecycle!Unfinished /\ StateIn(row'[j]) = "cancelled"
      BY <1>3, <2>1, <2>4 DEF StateIn, Active, Lifecycle!Unfinished
    <3> QED
      BY <2>2, <3>1 DEF Lifecycle!Cancel, Tries
  <2>5. ASSUME from \subseteq Working, to = "done" PROVE Lifecycle!Deliver(j)
    <3>1. StateIn(row[j]) \in {"working"} /\ StateIn(row'[j]) = "done"
      BY <1>3, <2>1, <2>5 DEF StateIn, Working
    <3> QED
      BY <2>2, <3>1 DEF Lifecycle!Deliver, Tries
  <2>6. ASSUME from = {"done", "cancelled"}, to = "purged" PROVE Lifecycle!Purge(j)
    <3>1. StateIn(row[j]) \in {"done", "cancelled"} /\ StateIn(row'[j]) = "purged"
      BY <1>3, <2>1, <2>6 DEF StateIn
    <3> QED
      BY <2>2, <3>1 DEF Lifecycle!Purge, Tries
  <2>7. ASSUME from = {"pending"}, to \in {"transfer_in", "running"} PROVE Lifecycle!Take(j)
    <3>1. StateIn(row[j]) \in {"queued"} /\ StateIn(row'[j]) = "working"
      BY <1>3, <2>1, <2>7 DEF StateIn
    <3> QED
      BY <2>2, <3>1 DEF Lifecycle!Take, Tries
  <2>8. ASSUME from \subseteq {"running", "transfer_in"}, to \in {"running", "transfer_out"}
        PROVE  UNCHANGED <<States, Tries>>
    <3>1. StateIn(row'[j]) = StateIn(row[j])
      BY <1>3, <2>1, <2>8 DEF StateIn
    <3>2. \A k \in Jobs : StateIn(row'[k]) = StateIn(row[k]) /\ row'[k].attempts = row[k].attempts
      BY <1>1, <3>1
    <3> QED
      BY <3>2 DEF States, Tries, StateIn
  <2> QED
    BY <2>3, <2>4, <2>5, <2>6, <2>7, <2>8 DEF Kept, Lifecycle!Next
<1> QED
  BY <1>2, <1>3

LEMMA OperatorKeeps ==
    ASSUME TranscodeFarmAssumption, Plain, NEW j \in Jobs, Operator(j), ~ Retry(j)
    PROVE  Kept
<1>0. Typed /\ row \in [Jobs -> Row]
  BY DEF Plain, Typed
<1>1. CASE Submit(j)
  <2>1. Renews(j, {"absent"}, 0)
    BY <1>0, <1>1, OperatorWrites
  <2>2. row[j].status = "absent" /\ row[j].attempts = 0
    BY <1>1 DEF Submit, Plain, RowsArePlausible, Plausible
  <2>3. Sees(j, {"unknown"}, "queued", 0)
    BY <2>1, <2>2 DEF Renews, Writes, Sees, StateIn
  <2>4. Lifecycle!Submit(j)
    BY <2>2, <2>3, SeesIs DEF Lifecycle!Submit, Tries
  <2> QED
    BY <2>4 DEF Kept, Lifecycle!Next
<1>2. CASE CancelRead(j)
  BY <1>2, SameIsKept DEF CancelRead
<1>3. CASE CancelWrite(j)
  BY <1>0, <1>3, OperatorWrites, WriteIsKept DEF Marks
<1>4. CASE Purge(j)
  BY <1>0, <1>4, OperatorWrites, WriteIsKept DEF Marks
<1> QED
  BY <1>1, <1>2, <1>3, <1>4 DEF Operator

LEMMA TickKeeps ==
    ASSUME TranscodeFarmAssumption, Plain, SeenIsRecent, NEW j \in Jobs, Tick(j)
    PROVE  Kept
<1>0. Typed /\ PassIsPlausible /\ row \in [Jobs -> Row]
  BY DEF Plain, Typed
<1>1. CASE Look(j) \/ ReturnWait(j) \/ NoCandidate(j)
  BY <1>1, SameIsKept DEF Look, ReturnWait, NoCandidate
<1>2. ASSUME NEW w \in Workers, NEW way \in {"direct", "stream"}, Send(j, w, way) PROVE Kept
  BY <1>2, SameIsKept DEF Send
<1>3. ASSUME Acting(j), row[j].status \in Active, pass.seen.status # "transfer_in"
      PROVE  pass.seen.attempts = row[j].attempts /\ pass.seen.status = row[j].status
  BY <1>3 DEF Acting, SeenIsRecent, Recent, Ended, Finished, Active
<1>4. ASSUME Acting(j), Requeues(j, pass.seen.attempts + 1), pass.seen.status # "transfer_in"
      PROVE  Kept
  <2>1. pass.seen.attempts + 1 \in Nat
    BY <1>0, <1>4, PassSeen DEF Acting
  <2>2. Lifecycle!TryAgain(j) \/ Lifecycle!GiveUp(j) \/ UNCHANGED row
    BY <1>3, <1>4, <2>1, RequeueIsKept
  <2> QED
    BY <2>2, SameIsKept DEF Kept, Lifecycle!Next
<1>5. CASE FollowCopy(j)
  <2> DEFINE n == pass.seen.attempts + 1
  <2>1. Acting(j) /\ n \in Nat /\ (Requeues(j, n) \/ UNCHANGED row)
    BY <1>0, <1>5, FollowWrites, PassSeen DEF FollowCopy, Acting
  <2>2. CASE UNCHANGED row
    BY <2>2, SameIsKept
  <2>3. CASE Requeues(j, n) /\ (row[j].status \in Active => n = row[j].attempts + 1)
    <3>1. Lifecycle!TryAgain(j) \/ Lifecycle!GiveUp(j) \/ UNCHANGED row
      BY <2>1, <2>3, RequeueIsKept
    <3> QED
      BY <3>1, SameIsKept DEF Kept, Lifecycle!Next
  <2>4. CASE Requeues(j, n) /\ row[j].status \in Active /\ n # row[j].attempts + 1
    <3>1. row[j].status = "pending" /\ row[j].attempts = n
      BY <2>1, <2>4 DEF Acting, SeenIsRecent, Recent, Ended, Finished, Active
    <3>2. n # MAX_ATTEMPTS
      <4>1. row[j].attempts < MAX_ATTEMPTS /\ MAX_ATTEMPTS \in Nat
        BY <2>4 DEF Plain, RowsArePlausible, Plausible, TranscodeFarmAssumption
      <4> QED
        BY <2>1, <3>1, <4>1
    <3>3. /\ \A k \in Jobs : k # j => row'[k] = row[k]
          /\ row'[j].status = "pending" /\ row'[j].attempts = n
      BY <2>4, <3>1, <3>2 DEF Requeues, Renews, Writes
    <3>4. \A k \in Jobs : StateIn(row'[k]) = StateIn(row[k]) /\ row'[k].attempts = row[k].attempts
      BY <3>1, <3>3 DEF StateIn
    <3>5. UNCHANGED <<States, Tries>>
      BY <3>4 DEF States, Tries, StateIn
    <3> QED
      BY <3>5 DEF Kept
  <2> QED
    BY <2>1, <2>2, <2>3, <2>4
<1>6. CASE FollowLost(j)
  BY <1>0, <1>4, <1>6, FollowWrites, SameIsKept DEF FollowLost
<1>7. CASE FollowRunning(j)
  <2>1. Acting(j) /\ pass.seen.status # "transfer_in"
    BY <1>7 DEF FollowRunning
  <2>2. \/ UNCHANGED row
        \/ Requeues(j, pass.seen.attempts + 1)
        \/ Marks(j, Working, "done")
        \/ Marks(j, {"running"}, "transfer_out")
        \/ Marks(j, {"running"}, "failed")
        \/ Marks(j, {"running"}, "cancelled")
    BY <1>0, <1>7, FollowWrites
  <2>3. {"running"} \subseteq Active
    BY DEF Active
  <2> QED
    BY <1>0, <1>4, <2>1, <2>2, <2>3, SameIsKept, WriteIsKept DEF Marks
<1>8. CASE ReturnStart(j) \/ ReturnEnds(j)
  <2> DEFINE n == pass.seen.attempts + 1
  <2>1. Acting(j) /\ pass.seen.status = "transfer_out" /\ n \in Nat
    BY <1>0, <1>8, PassSeen DEF ReturnStart, ReturnEnds, Returning, Acting
  <2>2. CASE UNCHANGED row
    BY <2>2, SameIsKept
  <2>3. CASE Marks(j, Working, "done")
    BY <1>0, <2>3, WriteIsKept DEF Marks
  <2>4. CASE /\ n <= MAX_ATTEMPTS
             /\ Writes(j, {"transfer_out"}, IF n = MAX_ATTEMPTS THEN "failed" ELSE "transfer_out",
                       n, row[j].access, row[j].worker, row[j].wjid)
    <3>1. /\ row' \in [Jobs -> Row]
          /\ \A k \in Jobs : k # j => row'[k] = row[k]
      BY <2>4 DEF Writes
    <3>2. CASE row[j].status # "transfer_out"
      <4>1. row' = row
        BY <1>0, <2>4, <3>1, <3>2 DEF Writes
      <4> QED
        BY <4>1, SameIsKept
    <3>3. CASE row[j].status = "transfer_out"
      <4>1. n = row[j].attempts + 1
        BY <1>3, <2>1, <3>3 DEF Active
      <4>2. CASE n = MAX_ATTEMPTS
        <5>1. Sees(j, Lifecycle!Unfinished, "failed", n)
          BY <2>4, <3>3, <4>2 DEF Writes, Sees, StateIn, Lifecycle!Unfinished
        <5>2. Lifecycle!GiveUp(j)
          BY <4>1, <4>2, <5>1, SeesIs DEF Lifecycle!GiveUp, Tries
        <5> QED
          BY <5>2 DEF Kept, Lifecycle!Next
      <4>3. CASE n # MAX_ATTEMPTS
        <5>1. Sees(j, {"working"}, "working", n)
          BY <2>4, <3>3, <4>3 DEF Writes, Sees, StateIn
        <5>2. n < MAX_ATTEMPTS
          BY <2>1, <2>4, <4>3 DEF TranscodeFarmAssumption
        <5>3. Lifecycle!TryAgain(j)
          BY <4>1, <5>1, <5>2, SeesIs DEF Lifecycle!TryAgain, Tries
        <5> QED
          BY <5>3 DEF Kept, Lifecycle!Next
      <4> QED
        BY <4>2, <4>3
    <3> QED
      BY <3>2, <3>3
  <2> QED
    BY <1>0, <1>8, <2>2, <2>3, <2>4, ReturnWrites
<1>9. CASE Record(j)
  BY <1>0, <1>9, DispatchWrites, WriteIsKept
<1>10. CASE SendRefused(j)
  <2>1. {"pending"} \subseteq Active
    BY DEF Active
  <2> QED
    BY <1>0, <1>10, <2>1, DispatchWrites, WriteIsKept DEF Marks
<1>11. ASSUME NEW w \in Workers, SendFails(j, w) PROVE Kept
  <2>1. Requeues(j, pass.seen.attempts + 1)
    BY <1>0, <1>11, DispatchWrites
  <2> QED
    BY <1>4, <1>11, <2>1 DEF SendFails, Dispatching
<1>12. ASSUME NEW w \in Workers, StartCopy(j, w) PROVE Kept
  BY <1>0, <1>12, DispatchWrites, WriteIsKept
<1> QED
  BY <1>1, <1>2, <1>5, <1>6, <1>7, <1>8, <1>9, <1>10, <1>11, <1>12 DEF Tick, Follow, Dispatch

LEMMA CopyKeeps ==
    ASSUME TranscodeFarmAssumption, Plain, CopiesAlone, NEW c \in copies, CopyIn(c)
    PROVE  Kept
<1> DEFINE j == c.job
<1>0. Typed /\ CopiesArePlausible /\ row \in [Jobs -> Row] /\ j \in Jobs
  BY DEF Plain, Typed
<1>1. CASE CopyFile(c) \/ CopyCheck(c) \/ CopySend(c) \/ CopyFails(c)
  BY <1>1, SameIsKept DEF CopyFile, CopyCheck, CopySend, CopyFails
<1>2. CASE CopyRefused(c)
  <2>1. {"transfer_in"} \subseteq Active
    BY DEF Active
  <2> QED
    BY <1>0, <1>2, <2>1, CopyWrites, WriteIsKept DEF Marks
<1>3. CASE CopyRecord(c)
  BY <1>0, <1>3, CopyWrites, WriteIsKept
<1>4. CASE CopyRequeue(c)
  <2> DEFINE n == c.seen.attempts + 1
  <2>1. Requeues(j, n) /\ c.step = "requeue"
    BY <1>0, <1>4, CopyWrites DEF CopyRequeue
  <2>2. c.seen.attempts \in Nat
    BY <1>0 DEF Typed, Row
  <2>3. row[j].status \in Active => n = row[j].attempts + 1
    BY <2>1 DEF CopiesAlone, Active, Ended, Finished
  <2>4. Lifecycle!TryAgain(j) \/ Lifecycle!GiveUp(j) \/ UNCHANGED row
    BY <1>0, <2>1, <2>2, <2>3, RequeueIsKept
  <2> QED
    BY <1>0, <2>4, SameIsKept DEF Kept, Lifecycle!Next
<1> QED
  BY <1>1, <1>2, <1>3, <1>4 DEF CopyIn

(* All that is known of the farm while no job has been asked for again. *)
Enough == Plain /\ CopiesAlone /\ SeenIsRecent

LEMMA KeptSteps ==
    ASSUME TranscodeFarmAssumption, Enough, retries = 0, retries' = 0, [Next]_vars
    PROVE  Kept
<1>1. Plain /\ CopiesAlone /\ SeenIsRecent
  BY DEF Enough
<1>2. \A j \in Jobs : ~ Retry(j)
  BY DEF Retry
<1>3. ASSUME NEW j \in Jobs, HostReturns(j) \/ ServerReturns(j) PROVE UNCHANGED row
  BY <1>3 DEF HostReturns, ServerReturns
<1>4. ASSUME NEW w \in Workers, WorkerDown(w) \/ WorkerUp(w) \/ \E i \in DOMAIN queue[w] : WorkerEnds(w, i)
      PROVE  UNCHANGED row
  BY <1>4 DEF WorkerDown, WorkerUp, WorkerEnds
<1>5. Crash \/ UNCHANGED vars => UNCHANGED row
  BY DEF Crash, vars
<1> QED
  BY <1>1, <1>2, <1>3, <1>4, <1>5, OperatorKeeps, TickKeeps, CopyKeeps, SameIsKept DEF Next

\* The farm keeps the promise of FarmLifecycle as long as no job is asked for
\* again: a retry in the middle of a pass is counted from the old row (README, 7).
THEOREM KeepsPromiseHolds ==
    ASSUME TranscodeFarmAssumption PROVE Spec /\ [](retries = 0) => KeepsPromise
<1>1. Init => Lifecycle!Init
  BY DEF Init, Nothing, Fresh, Lifecycle!Init
<1>2. IInv /\ retries = 0 /\ (retries = 0)' /\ [Next]_vars => [Lifecycle!Next]_<<States, Tries>>
  BY KeptSteps DEF IInv, Enough, Kept
<1> QED
  BY <1>1, <1>2, Inductive, PTL DEF Spec, KeepsPromise, Lifecycle!Spec, States, Tries

(***************************************************************************)
(* What "done" stands for.                                                 *)
(***************************************************************************)
Produced(q, j) ==
    \E w \in Workers : \E i \in DOMAIN q[w] : q[w][i].job = j /\ q[w][i].state = "done"

(* No former copy of the job may still be at work. *)
Sound(j, asked) == asked = 0 \/ "copy" \notin Ways[j]

DoneFirst ==
    /\ \A j \in Jobs : Sound(j, retries) /\ row[j].status \in {"transfer_out", "done"} => Produced(queue, j)
    /\ /\ pass.step # "idle" /\ pass.seen.status = "transfer_out" /\ Sound(pass.job, retries)
       => Produced(queue, pass.job)

\* Of a job that its transcoder says is done, the output has been produced.
LEMMA DoneIsProduced ==
    ASSUME Plain, NEW j \in Jobs, Acting(j), pass.seen.status = "running", Sound(j, retries),
           StateOf(pass.seen.worker, pass.seen.wjid) = "done"
    PROVE  Produced(queue, j)
<1>1. Plausible(pass.seen, j, queue, retries)
  BY DEF Plain, PassIsPlausible, Acting
<1>2. Owned(queue, pass.seen.worker, pass.seen.wjid, j)
  BY <1>1 DEF Plausible, Working, Sound
<1> QED
  BY <1>2 DEF Owned, StateOf, Produced

LEMMA DoneIsWritten ==
    ASSUME TranscodeFarmAssumption, Plain, DoneFirst, [Next]_vars, NEW k \in Jobs,
           Sound(k, retries), row'[k].status \in {"transfer_out", "done"}
    PROVE  Produced(queue, k)
<1>0. Typed /\ PassIsPlausible /\ CopiesArePlausible
  BY DEF Plain
<1>1. SUFFICES ASSUME row[k].status \notin {"transfer_out", "done"} PROVE Produced(queue, k)
  BY DEF DoneFirst
<1>2. row'[k] # row[k]
  BY <1>1
<1>3. ASSUME NEW j \in Jobs, NEW from, NEW to, to \notin {"transfer_out", "done"}, NEW n, NEW access,
             NEW worker, NEW wjid, Writes(j, from, to, n, access, worker, wjid)
      PROVE  FALSE
  BY <1>1, <1>2, <1>3 DEF Writes
<1>4. ASSUME NEW j \in Jobs, Operator(j) PROVE Produced(queue, k)
  <2>1. CancelRead(j) => UNCHANGED row
    BY DEF CancelRead
  <2>2. Submit(j) \/ CancelWrite(j) \/ Retry(j) \/ Purge(j)
    BY <1>2, <1>4, <2>1 DEF Operator
  <2> QED
    BY <1>0, <1>3, <2>2, OperatorWrites DEF Renews, Marks
<1>5. ASSUME NEW j \in Jobs, NEW n, Requeues(j, n) PROVE FALSE
  BY <1>3, <1>5 DEF Requeues, Renews
<1>6. ASSUME NEW j \in Jobs, NEW from, NEW to, Marks(j, from, to) PROVE k = j
  BY <1>2, <1>6 DEF Marks, Writes
<1>7. ASSUME NEW j \in Jobs, Tick(j) PROVE Produced(queue, k)
  <2>1. ~ (Look(j) \/ ReturnWait(j) \/ NoCandidate(j))
    BY <1>2 DEF Look, ReturnWait, NoCandidate
  <2>2. \A w \in Workers, way \in {"direct", "stream"} : ~ Send(j, w, way)
    BY <1>2 DEF Send
  <2>3. ~ (FollowCopy(j) \/ FollowLost(j))
    BY <1>0, <1>2, <1>5, FollowWrites
  <2>4. ASSUME FollowRunning(j) PROVE Produced(queue, k)
    <3>1. Acting(j) /\ pass.seen.status = "running"
      BY <2>4 DEF FollowRunning
    <3>2. ~ (Marks(j, {"running"}, "failed") \/ Marks(j, {"running"}, "cancelled"))
      BY <1>3 DEF Marks
    <3>3. /\ StateOf(pass.seen.worker, pass.seen.wjid) = "done"
          /\ Marks(j, Working, "done") \/ Marks(j, {"running"}, "transfer_out")
      BY <1>0, <1>2, <1>5, <2>4, <3>2, FollowWrites
    <3>4. k = j
      BY <1>6, <3>3
    <3> QED
      BY <3>1, <3>3, <3>4, DoneIsProduced
  <2>5. ASSUME ReturnStart(j) \/ ReturnEnds(j) PROVE Produced(queue, k)
    <3>1. pass.step # "idle" /\ pass.job = j /\ pass.seen.status = "transfer_out"
      BY <2>5 DEF ReturnStart, ReturnEnds, Returning, Acting
    <3>2. k = j
      <4>1. CASE Marks(j, Working, "done")
        BY <1>6, <4>1
      <4>2. ASSUME NEW to, NEW n, NEW access, NEW worker, NEW wjid,
                   Writes(j, {"transfer_out"}, to, n, access, worker, wjid)
            PROVE  k = j
        BY <1>2, <4>2 DEF Writes
      <4> QED
        BY <1>0, <1>2, <2>5, <4>1, <4>2, ReturnWrites
    <3> QED
      BY <3>1, <3>2 DEF DoneFirst
  <2>6. ~ (Record(j) \/ SendRefused(j))
    BY <1>0, <1>3, DispatchWrites DEF Marks
  <2>7. \A w \in Workers : ~ (SendFails(j, w) \/ StartCopy(j, w))
    BY <1>0, <1>3, <1>5, DispatchWrites
  <2> QED
    BY <1>7, <2>1, <2>2, <2>3, <2>4, <2>5, <2>6, <2>7 DEF Tick, Follow, Dispatch
<1>8. ASSUME NEW c \in copies, CopyIn(c) PROVE FALSE
  <2>1. c.job \in Jobs
    BY <1>0 DEF Typed
  <2>2. ~ (CopyFile(c) \/ CopyCheck(c) \/ CopySend(c) \/ CopyFails(c))
    BY <1>2 DEF CopyFile, CopyCheck, CopySend, CopyFails
  <2> QED
    BY <1>0, <1>3, <1>5, <1>8, <2>1, <2>2, CopyWrites DEF CopyIn, Marks
<1>9. ASSUME NEW j \in Jobs, HostReturns(j) \/ ServerReturns(j) PROVE FALSE
  BY <1>2, <1>9 DEF HostReturns, ServerReturns
<1>10. ASSUME NEW w \in Workers, WorkerDown(w) \/ WorkerUp(w) \/ \E i \in DOMAIN queue[w] : WorkerEnds(w, i)
       PROVE  FALSE
  BY <1>2, <1>10 DEF WorkerDown, WorkerUp, WorkerEnds
<1>11. ~ (Crash \/ UNCHANGED vars)
  BY <1>2 DEF Crash, vars
<1> QED
  BY <1>4, <1>7, <1>8, <1>9, <1>10, <1>11 DEF Next

\* A job is done only once a transcoder has produced its output, unless a former
\* copy of a job asked again may still be at work (transcode_farm.py:806-826).
THEOREM DoneWasDoneHolds ==
    ASSUME TranscodeFarmAssumption
    PROVE  Spec /\ [](\A j \in Jobs : Sound(j, retries)) => []DoneWasDone
<1>1. Init => DoneFirst
  <2>1. Nothing.status = "absent"
    BY DEF Nothing, Fresh
  <2> QED
    BY <2>1, IdleIs DEF Init, DoneFirst
<1>2. IInv /\ DoneFirst /\ [Next]_vars => DoneFirst'
  <2> SUFFICES ASSUME IInv, DoneFirst, [Next]_vars PROVE DoneFirst'
    OBVIOUS
  <2>0. Plain /\ Typed /\ RowsArePlausible
    BY DEF IInv, Plain
  <2>1. \A j : Sound(j, retries') => Sound(j, retries)
    BY <2>0, Counts DEF Sound
  <2>2. \A j : Produced(queue, j) => Produced(queue', j)
    BY <2>0, Queues DEF Produced, Grows
  <2>3. \A k \in Jobs : Sound(k, retries') /\ row'[k].status \in {"transfer_out", "done"} => Produced(queue', k)
    BY <2>0, <2>1, <2>2, DoneIsWritten
  <2>4. ASSUME pass'.step # "idle", pass'.seen.status = "transfer_out", Sound(pass'.job, retries')
        PROVE  Produced(queue', pass'.job)
    <3>1. CASE pass' = pass
      BY <2>1, <2>2, <2>4, <3>1 DEF DoneFirst
    <3>2. CASE pass' = Idle
      BY <2>4, <3>2, IdleIs
    <3>3. ASSUME NEW j \in Jobs, Look(j) PROVE Produced(queue', pass'.job)
      BY <2>0, <2>1, <2>2, <2>4, <3>3, LookIs DEF DoneFirst
    <3>4. ASSUME NEW j \in Jobs, NEW w \in Workers, NEW way \in {"direct", "stream"}, Send(j, w, way)
          PROVE  FALSE
      BY <2>0, <2>4, <3>4, SendIs
    <3> QED
      BY <3>1, <3>2, <3>3, <3>4, PassSteps
  <2> QED
    BY <2>3, <2>4 DEF DoneFirst
<1>3. DoneFirst /\ (\A j \in Jobs : Sound(j, retries)) => DoneWasDone
  BY DEF DoneFirst, DoneWasDone, Produced
<1> QED
  BY <1>1, <1>2, <1>3, Inductive, PTL DEF Spec

(***************************************************************************)
(* How many encodings there are of a job asked for once.                   *)
(***************************************************************************)
(* Its current attempt has no encoding, and none is on its way: it waits,  *)
(* the loop is about to hand it over, or its copy is not there yet.        *)
Unsent(j) ==
    \/ row[j].status = "pending" /\ ~ (pass.step = "sent" /\ pass.job = j)
    \/ pass.step = "look" /\ pass.job = j /\ pass.seen.status = "pending"
    \/ \E c \in copies : c.job = j /\ c.step \in {"copying", "copied", "sending"}

Held(j) == Unsent(j) \/ row[j].attempts = MAX_ATTEMPTS \/ row[j].status = "absent"

(* One for each failed attempt, one for each crash, one for the attempt. *)
Budget(j) == row[j].attempts + crashes + (IF Held(j) THEN 0 ELSE 1)

Spent == \A j \in Jobs : IsFiniteSet(Encodings(j)) /\ Cardinality(Encodings(j)) <= Budget(j)

LEMMA SameEncodings ==
    ASSUME Same(queue, queue'), NEW j
    PROVE  Encodings(j)' = Encodings(j)
  BY DEF Same, Encodings

LEMMA HandedEncodings ==
    ASSUME Typed, NEW w \in Workers, NEW j \in Jobs, Enqueue(w, j)
    PROVE  /\ Encodings(j)' = Encodings(j) \cup {<<w, Len(queue[w]) + 1>>}
           /\ \A k \in Jobs : k # j => Encodings(k)' = Encodings(k)
<1> DEFINE n == Len(queue[w]) + 1
<1>1. /\ queue'[w] = Append(queue[w], [job |-> j, state |-> "open", known |-> TRUE])
      /\ \A v \in Workers : v # w => queue'[v] = queue[v]
  BY EnqueueIs DEF Typed
<1>2. queue[w] \in Seq(Entry)
  BY DEF Typed
<1>3. /\ DOMAIN queue'[w] = DOMAIN queue[w] \cup {n}
      /\ queue'[w][n].job = j
      /\ \A i \in DOMAIN queue[w] : queue'[w][i] = queue[w][i]
      /\ n \notin DOMAIN queue[w]
  BY <1>1, <1>2
<1> HIDE DEF n
<1> DEFINE OfWorker(q, k, v) == {i \in DOMAIN q[v] : q[v][i].job = k}
<1>4. OfWorker(queue', j, w) = OfWorker(queue, j, w) \cup {n}
  BY <1>3
<1>5. \A k \in Jobs : k # j => OfWorker(queue', k, w) = OfWorker(queue, k, w)
  BY <1>3
<1>6. \A k \in Jobs, v \in Workers : v # w => OfWorker(queue', k, v) = OfWorker(queue, k, v)
  BY <1>1
<1>7. \A k : /\ Encodings(k) = UNION {{<<v, i>> : i \in OfWorker(queue, k, v)} : v \in Workers}
             /\ Encodings(k)' = UNION {{<<v, i>> : i \in OfWorker(queue', k, v)} : v \in Workers}
  BY DEF Encodings
<1> HIDE DEF OfWorker
<1>8. Encodings(j)' = Encodings(j) \cup {<<w, n>>}
  BY <1>4, <1>6, <1>7
<1>9. \A k \in Jobs : k # j => Encodings(k)' = Encodings(k)
  BY <1>5, <1>6, <1>7
<1> QED
  BY <1>8, <1>9 DEF n

\* What a step that FarmLifecycle allows does to the attempts of a job.
LEMMA KeptCounts ==
    ASSUME Lifecycle!Next, NEW k \in Jobs
    PROVE  \/ Tries'[k] = Tries[k] + 1
           \/ States[k] \in Finished /\ States'[k] = "queued"
           \/ /\ Tries'[k] = Tries[k]
              /\ States'[k] = "queued" => States[k] \in {"queued", "unknown"}
              /\ States'[k] = "unknown" => States[k] = "unknown"
<1> DEFINE Goal ==
       \/ Tries'[k] = Tries[k] + 1
       \/ States[k] \in Finished /\ States'[k] = "queued"
       \/ /\ Tries'[k] = Tries[k]
          /\ States'[k] = "queued" => States[k] \in {"queued", "unknown"}
          /\ States'[k] = "unknown" => States[k] = "unknown"
<1>0. States = [i \in Jobs |-> States[i]] /\ Tries = [i \in Jobs |-> Tries[i]]
  BY DEF States, Tries
<1>1. ASSUME NEW j \in Jobs, NEW from, NEW to, Lifecycle!Move(j, from, to)
      PROVE  /\ States[j] \in from /\ States'[j] = to
             /\ k # j => States'[k] = States[k]
  <2>1. States[j] \in from /\ States' = [States EXCEPT ![j] = to]
    BY <1>1 DEF Lifecycle!Move, States
  <2> HIDE DEF States
  <2> QED
    BY <1>0, <2>1
<1>2. ASSUME NEW j \in Jobs, NEW n, Tries' = [Tries EXCEPT ![j] = n]
      PROVE  Tries'[j] = n /\ (k # j => Tries'[k] = Tries[k])
  BY <1>0, <1>2
<1>3. PICK j \in Jobs :
        \/ Lifecycle!Submit(j) \/ Lifecycle!Take(j) \/ Lifecycle!TryAgain(j) \/ Lifecycle!GiveUp(j)
        \/ Lifecycle!Refuse(j) \/ Lifecycle!Deliver(j) \/ Lifecycle!Cancel(j) \/ Lifecycle!Retry(j)
        \/ Lifecycle!Purge(j)
  BY DEF Lifecycle!Next
<1>4. CASE Lifecycle!TryAgain(j) \/ Lifecycle!GiveUp(j)
  <2>1. Tries' = [Tries EXCEPT ![j] = Tries[j] + 1] /\ \E from, to : Lifecycle!Move(j, from, to)
    BY <1>4 DEF Lifecycle!TryAgain, Lifecycle!GiveUp, Tries
  <2> HIDE DEF Tries, States
  <2> DEFINE n == Tries[j] + 1
  <2>2. Tries'[j] = n /\ (k # j => Tries'[k] = Tries[k])
    <3>1. Tries' = [Tries EXCEPT ![j] = n]
      BY <2>1
    <3> HIDE DEF n
    <3> QED
      BY <1>2, <3>1
  <2>3. k # j => States'[k] = States[k]
    BY <1>1, <2>1
  <2>4. CASE k = j
    BY <2>2, <2>4
  <2>5. CASE k # j
    BY <2>2, <2>3, <2>5
  <2> QED
    BY <2>4, <2>5
<1>5. CASE Lifecycle!Retry(j)
  <2>1. Lifecycle!Move(j, Lifecycle!Finished, "queued") /\ Tries' = [Tries EXCEPT ![j] = 0]
    BY <1>5 DEF Lifecycle!Retry, Tries
  <2> HIDE DEF Tries, States
  <2> QED
    BY <1>1, <1>2, <2>1 DEF Lifecycle!Finished, Finished
<1>6. CASE Lifecycle!Submit(j)
  <2>1. Lifecycle!Move(j, {"unknown"}, "queued") /\ Tries' = Tries
    BY <1>6 DEF Lifecycle!Submit, Tries
  <2> HIDE DEF Tries, States
  <2> QED
    BY <1>1, <2>1
<1>7. CASE Lifecycle!Take(j) \/ Lifecycle!Refuse(j) \/ Lifecycle!Deliver(j) \/ Lifecycle!Cancel(j) \/ Lifecycle!Purge(j)
  <2>1. Tries' = Tries /\ \E from : \E to \in {"working", "failed", "done", "cancelled", "purged"} : Lifecycle!Move(j, from, to)
    BY <1>7 DEF Lifecycle!Take, Lifecycle!Refuse, Lifecycle!Deliver, Lifecycle!Cancel, Lifecycle!Purge, Tries
  <2> HIDE DEF Tries, States
  <2> QED
    BY <1>1, <2>1
<1> QED
  BY <1>3, <1>4, <1>5, <1>6, <1>7

\* Attempts are not given back, and none is opened for a job that has had one.
LEMMA RowBudget ==
    ASSUME TranscodeFarmAssumption, Enough, retries = 0, retries' = 0, [Next]_vars, NEW k \in Jobs
    PROVE  \/ row'[k].attempts = row[k].attempts + 1
           \/ /\ row'[k].attempts = row[k].attempts
              /\ row'[k].status = "pending" => row[k].status \in {"pending", "absent"}
              /\ row'[k].status = "absent" => row[k].status = "absent"
<1>0. row \in [Jobs -> Row] /\ row' \in [Jobs -> Row] /\ Plain
  BY PlainLasts DEF Enough, Plain, Typed
<1>1. \A j \in Jobs : row[j].status \in Active \cup Finished \cup {"absent", "purged"} /\ row[j].attempts \in Nat
  BY <1>0 DEF Row, TranscodeFarmAssumption
<1>2. row'[k].status \in Active \cup Finished \cup {"absent", "purged"}
  BY <1>0 DEF Row
<1>3. /\ States[k] = StateIn(row[k]) /\ States'[k] = StateIn(row'[k])
      /\ Tries[k] = row[k].attempts /\ Tries'[k] = row'[k].attempts
  BY DEF States, StateIn, Tries
<1>4. /\ StateIn(row[k]) = "unknown" <=> row[k].status = "absent"
      /\ StateIn(row'[k]) = "unknown" <=> row'[k].status = "absent"
      /\ StateIn(row[k]) = "queued" <=> row[k].status = "pending"
      /\ StateIn(row'[k]) = "queued" <=> row'[k].status = "pending"
      /\ StateIn(row[k]) \in Finished => row[k].status \in Finished
  BY <1>1, <1>2 DEF StateIn, Active, Finished
<1>5. ~ (row[k].status \in Finished /\ row'[k].status = "pending")
  BY <1>0, EndStep DEF Finished
<1>6. CASE UNCHANGED <<States, Tries>>
  <2> HIDE DEF States, Tries
  <2> QED
    BY <1>3, <1>4, <1>6
<1>7. CASE Lifecycle!Next
  <2>1. \/ Tries'[k] = Tries[k] + 1
        \/ States[k] \in Finished /\ States'[k] = "queued"
        \/ /\ Tries'[k] = Tries[k]
           /\ States'[k] = "queued" => States[k] \in {"queued", "unknown"}
           /\ States'[k] = "unknown" => States[k] = "unknown"
    BY <1>7, KeptCounts
  <2> QED
    BY ONLY <1>3, <1>4, <1>5, <2>1
<1> QED
  BY <1>6, <1>7, KeptSteps DEF Kept

LEMMA SentSteps ==
    ASSUME Typed, [Next]_vars, pass.step = "sent"
    PROVE  pass' = pass \/ Crash \/ \E j \in Jobs : Record(j)
<1>1. ASSUME NEW j \in Jobs, Operator(j) PROVE pass' = pass
  BY <1>1 DEF Operator, Submit, CancelRead, CancelWrite, Retry, Purge
<1>2. ASSUME NEW j \in Jobs, Tick(j) PROVE Record(j)
  BY <1>2 DEF Tick, Look, Follow, FollowCopy, FollowLost, FollowRunning, ReturnStart, ReturnEnds,
              ReturnWait, Dispatch, NoCandidate, Send, SendFails, SendRefused, StartCopy,
              Returning, Dispatching, Acting
<1>3. ASSUME NEW c \in copies, CopyIn(c) PROVE pass' = pass
  BY <1>3 DEF CopyIn, CopyFile, CopyCheck, CopySend, CopyRefused, CopyRecord, CopyFails, CopyRequeue
<1>4. ASSUME NEW j \in Jobs, HostReturns(j) \/ ServerReturns(j) PROVE pass' = pass
  BY <1>4 DEF HostReturns, ServerReturns
<1>5. ASSUME NEW w \in Workers, WorkerDown(w) \/ WorkerUp(w) \/ \E i \in DOMAIN queue[w] : WorkerEnds(w, i)
      PROVE  pass' = pass
  BY <1>5 DEF WorkerDown, WorkerUp, WorkerEnds
<1>6. UNCHANGED vars => pass' = pass
  BY DEF vars
<1> QED
  BY <1>1, <1>2, <1>3, <1>4, <1>5, <1>6 DEF Next

\* An attempt without an encoding is one that had none, but for a crash.
LEMMA UnsentLasts ==
    ASSUME TranscodeFarmAssumption, Enough, [Next]_vars, NEW k \in Jobs,
           row'[k].status = "pending" => row[k].status \in {"pending", "absent"},
           Unsent(k)', ~ Crash
    PROVE  Held(k)
<1>0. Typed /\ PassIsPlausible /\ row \in [Jobs -> Row]
  BY DEF Enough, Plain, Typed
<1>1. ASSUME row'[k].status = "pending", ~ (pass'.step = "sent" /\ pass'.job = k) PROVE Held(k)
  <2>1. CASE row[k].status = "absent"
    BY <2>1 DEF Held
  <2>2. ASSUME row[k].status = "pending", pass.step = "sent", pass.job = k PROVE FALSE
    <3>1. ASSUME NEW j \in Jobs, Record(j) PROVE FALSE
      <4>1. j = k
        BY <2>2, <3>1 DEF Record
      <4> QED
        BY <1>0, <1>1, <2>2, <3>1, <4>1, DispatchWrites DEF Writes
    <3>2. pass' = pass
      BY <1>0, <2>2, <3>1, SentSteps
    <3> QED
      BY <1>1, <2>2, <3>2
  <2> QED
    BY <1>1, <2>1, <2>2 DEF Held, Unsent
<1>2. ASSUME pass'.step = "look", pass'.job = k, pass'.seen.status = "pending" PROVE Held(k)
  <2>1. CASE pass' = pass
    BY <1>2, <2>1 DEF Held, Unsent
  <2>2. CASE pass' = Idle
    BY <1>2, <2>2, IdleIs
  <2>3. ASSUME NEW j \in Jobs, Look(j) PROVE Held(k)
    BY <1>0, <1>2, <2>3, LookIs DEF Held, Unsent
  <2>4. ASSUME NEW j \in Jobs, NEW w \in Workers, NEW way \in {"direct", "stream"}, Send(j, w, way) PROVE FALSE
    BY <1>0, <1>2, <2>4, SendIs
  <2> QED
    BY <2>1, <2>2, <2>3, <2>4, PassSteps
<1>3. ASSUME NEW d \in copies', d.job = k, d.step \in {"copying", "copied", "sending"} PROVE Held(k)
  <2>1. CASE d \in copies
    BY <1>3, <2>1 DEF Held, Unsent
  <2>2. ASSUME NEW e \in Copy, Comes(e), d \notin copies PROVE Held(k)
    BY <1>3, <2>2 DEF Comes, StartCopy, Dispatching, Acting, Held, Unsent
  <2>3. ASSUME NEW c \in copies, NEW e \in Copy, Goes(c, e), d \notin copies PROVE Held(k)
    <3>1. d = e /\ c.job = k /\ c.step \in {"copying", "copied"}
      BY <1>3, <2>3 DEF Goes
    <3> QED
      BY <3>1 DEF Held, Unsent
  <2> QED
    BY <1>0, <2>1, <2>2, <2>3, CopiesSteps
<1> QED
  BY <1>1, <1>2, <1>3 DEF Unsent

LEMMA BudgetGrows ==
    ASSUME TranscodeFarmAssumption, Enough, retries = 0, retries' = 0, [Next]_vars, NEW k \in Jobs
    PROVE  Budget(k) \in Nat /\ Budget(k)' \in Nat /\ Budget(k) <= Budget(k)'
<1>0. /\ row[k].attempts \in Nat /\ row'[k].attempts \in Nat
      /\ crashes \in Nat /\ crashes' \in Nat /\ crashes <= crashes'
  <2>1. Plain /\ Plain'
    BY PlainLasts DEF Enough
  <2>2. row[k] \in Row /\ row'[k] \in Row
    BY <2>1 DEF Plain, Typed
  <2> QED
    BY <2>1, <2>2, Counts DEF Plain, Row
<1>1. Budget(k) \in Nat /\ Budget(k)' \in Nat
  BY <1>0 DEF Budget
<1>2. CASE row'[k].attempts = row[k].attempts + 1
  BY <1>0, <1>2 DEF Budget
<1>3. CASE Crash
  BY <1>0, <1>3 DEF Budget, Crash
<1>4. CASE /\ row'[k].attempts = row[k].attempts
           /\ row'[k].status = "pending" => row[k].status \in {"pending", "absent"}
           /\ row'[k].status = "absent" => row[k].status = "absent"
           /\ ~ Crash
  <2>1. Held(k)' => Held(k)
    BY <1>4, UnsentLasts DEF Held
  <2> HIDE DEF Held
  <2> QED
    BY <1>0, <1>4, <2>1 DEF Budget
<1> QED
  BY <1>1, <1>2, <1>3, <1>4, RowBudget

\* A job is handed over by an attempt that has no encoding yet, and has one then.
LEMMA HandsOver ==
    ASSUME TranscodeFarmAssumption, Enough, retries = 0, retries' = 0, [Next]_vars,
           NEW w \in Workers, NEW j \in Jobs, Hands(w, j)
    PROVE  Budget(j)' >= Budget(j) + 1
<1>0. /\ Typed /\ PassIsPlausible /\ CopiesAlone
      /\ row \in [Jobs -> Row] /\ copies \subseteq Copy
      /\ row[j].attempts \in Nat /\ row'[j].attempts \in Nat
      /\ crashes \in Nat /\ crashes' \in Nat /\ crashes <= crashes'
  <2>1. Plain /\ Plain'
    BY PlainLasts DEF Enough
  <2>2. row[j] \in Row /\ row'[j] \in Row
    BY <2>1 DEF Plain, Typed
  <2>3. row[j].attempts \in Nat /\ row'[j].attempts \in Nat
    BY <2>2 DEF Row
  <2>4. crashes \in Nat /\ crashes' \in Nat /\ crashes <= crashes'
    BY <2>1, Counts DEF Plain
  <2>5. copies \subseteq Copy /\ row \in [Jobs -> Row]
    BY <2>1 DEF Plain, Typed, Copy
  <2> QED
    BY <2>1, <2>3, <2>4, <2>5 DEF Enough, Plain
<1>1. Held(j)
  BY DEF Hands, Send, SendFails, CopySend, Dispatching, Acting, Held, Unsent
<1>2. ASSUME ~ Held(j)', row'[j].attempts = row[j].attempts PROVE Budget(j)' >= Budget(j) + 1
  <2> HIDE DEF Held
  <2> QED
    BY <1>0, <1>1, <1>2 DEF Budget
<1>3. ASSUME row'[j].attempts = row[j].attempts + 1 PROVE Budget(j)' >= Budget(j) + 1
  <2> HIDE DEF Held
  <2> QED
    BY <1>0, <1>1, <1>3 DEF Budget
<1>4. ASSUME pass.step = "look", pass.job = j, pass.seen.status = "pending"
      PROVE  /\ row[j].attempts = pass.seen.attempts /\ row[j].attempts # MAX_ATTEMPTS
             /\ row[j].status = "pending" \/ row[j].status \in Ended
             /\ \A c \in copies : c.job # j
  <2>1. pass.seen.attempts < MAX_ATTEMPTS /\ pass.seen.attempts \in Nat
    BY <1>0, <1>4, PassSeen
  <2>2. row[j].attempts = pass.seen.attempts
        /\ (row[j].status = "pending" \/ row[j].status \in Ended)
    BY <1>4 DEF Enough, SeenIsRecent, Recent
  <2>3. \A c \in copies : c.job # j
    BY <1>0, <1>4 DEF CopiesAlone
  <2> QED
    BY <2>1, <2>2, <2>3 DEF TranscodeFarmAssumption
<1>5. ASSUME NEW way \in {"direct", "stream"}, Send(j, w, way) PROVE Budget(j)' >= Budget(j) + 1
  <2>1. /\ pass.step = "look" /\ pass.job = j /\ pass.seen.status = "pending"
        /\ pass'.step = "sent" /\ pass'.job = j /\ UNCHANGED <<row, copies>>
    BY <1>0, <1>5, SendIs
  <2>2. ~ Held(j)'
    BY <1>4, <2>1 DEF Held, Unsent, Ended, Finished
  <2> QED
    BY <1>2, <2>1, <2>2
<1>6. ASSUME SendFails(j, w) PROVE Budget(j)' >= Budget(j) + 1
  <2>1. /\ pass.step = "look" /\ pass.job = j /\ pass.seen.status = "pending"
        /\ pass' = Idle /\ copies' = copies
    BY <1>6 DEF SendFails, Dispatching, Acting, ActDone
  <2>2. Requeues(j, pass.seen.attempts + 1)
    BY <1>0, <1>6, DispatchWrites
  <2>3. CASE row[j].status \in Active
    <3>1. row'[j].attempts = row[j].attempts + 1
      BY <1>4, <2>1, <2>2, <2>3 DEF Requeues, Renews, Writes
    <3> QED
      BY <1>3, <3>1
  <2>4. CASE row[j].status \notin Active
    <3>1. row'[j] = row[j]
      BY <2>2, <2>4 DEF Requeues, Renews, Writes
    <3>2. ~ Held(j)'
      BY <1>4, <2>1, <2>4, <3>1, IdleIs DEF Held, Unsent, Ended, Finished, Active
    <3> QED
      BY <1>2, <3>1, <3>2
  <2> QED
    BY <2>3, <2>4
<1>7. ASSUME NEW c \in copies, c.job = j, CopySend(c) PROVE Budget(j)' >= Budget(j) + 1
  <2>1. c.step = "sending" /\ UNCHANGED <<row, pass>>
    BY <1>7 DEF CopySend
  <2>2. /\ row[j].status \in {"transfer_in"} \cup Ended /\ row[j].attempts < MAX_ATTEMPTS
        /\ \A d \in copies : d.job = j => c = d
        /\ pass.step # "idle" /\ pass.job = j => pass.seen.status # "pending"
    BY <1>0, <1>7 DEF CopiesAlone
  <2>3. \A d \in copies' : d.job = j => d.step \notin {"copying", "copied", "sending"}
    <3>1. CASE copies' = copies \ {c}
      BY <2>2, <3>1
    <3>2. ASSUME NEW d \in Copy, Goes(c, d)
          PROVE  \A e \in copies' : e.job = j => e.step \notin {"copying", "copied", "sending"}
      BY <1>7, <2>1, <2>2, <3>2 DEF Goes
    <3>3. copies' = copies \ {c} \/ \E d \in Copy : Goes(c, d)
      BY <1>0, <1>7, CopyGoesSteps DEF CopyIn
    <3> QED
      BY <3>1, <3>2, <3>3
  <2>4. row[j].attempts # MAX_ATTEMPTS
    BY <1>0, <2>2 DEF TranscodeFarmAssumption
  <2>5. ~ Held(j)'
    BY <2>1, <2>2, <2>3, <2>4 DEF Held, Unsent, Ended, Finished
  <2> QED
    BY <1>2, <2>1, <2>5
<1> QED
  BY <1>5, <1>6, <1>7 DEF Hands

\* Definitive failure after MAX_ATTEMPTS (transcode_farm.py:646): that many
\* encodings at the most of a job asked for once, and one more for each crash.
THEOREM EncodingsBoundedHolds == ASSUME TranscodeFarmAssumption PROVE Spec => []EncodingsBounded
<1> DEFINE Once == retries = 0 => Spent
<1>1. Init => Once
  <2> SUFFICES ASSUME Init, NEW j \in Jobs
               PROVE  IsFiniteSet(Encodings(j)) /\ Cardinality(Encodings(j)) <= Budget(j)
    BY DEF Spent
  <2>1. Encodings(j) = {}
    BY DEF Init, Encodings
  <2>2. row[j].status = "absent" /\ row[j].attempts = 0 /\ crashes = 0
    BY DEF Init, Nothing, Fresh
  <2>3. Budget(j) = 0
    BY <2>2 DEF Budget, Held
  <2> QED
    BY <2>1, <2>3, FS_EmptySet
<1>2. IInv /\ Once /\ [Next]_vars => Once'
  <2> SUFFICES ASSUME IInv, Once, [Next]_vars, retries' = 0 PROVE Spent'
    OBVIOUS
  <2>1. Enough /\ Typed /\ retries = 0 /\ Spent
    BY Counts DEF IInv, Enough, Plain
  <2>2. \A k \in Jobs : Budget(k) \in Nat /\ Budget(k)' \in Nat /\ Budget(k) <= Budget(k)'
    BY <2>1, BudgetGrows
  <2>3. ASSUME NEW k \in Jobs, Encodings(k)' = Encodings(k)
        PROVE  IsFiniteSet(Encodings(k)') /\ Cardinality(Encodings(k)') <= Budget(k)'
    <3>1. IsFiniteSet(Encodings(k)) /\ Cardinality(Encodings(k)) <= Budget(k)
      BY <2>1 DEF Spent
    <3>2. Cardinality(Encodings(k)) \in Nat
      BY <3>1, FS_CardinalityType
    <3> QED
      BY <2>2, <2>3, <3>1, <3>2
  <2>4. CASE Same(queue, queue')
    BY <2>3, <2>4, SameEncodings DEF Spent
  <2>5. ASSUME NEW w \in Workers, NEW j \in Jobs, Hands(w, j) PROVE Spent'
    <3> DEFINE E == Encodings(j)
               x == <<w, Len(queue[w]) + 1>>
    <3>1. E' = E \cup {x} /\ \A k \in Jobs : k # j => Encodings(k)' = Encodings(k)
      BY <2>1, <2>5, HandedEncodings DEF Hands
    <3>2. IsFiniteSet(E) /\ Cardinality(E) <= Budget(j)
      BY <2>1 DEF Spent
    <3> HIDE DEF E, x
    <3>3. /\ IsFiniteSet(E \cup {x}) /\ Cardinality(E) \in Nat
          /\ Cardinality(E \cup {x}) \in Nat /\ Cardinality(E \cup {x}) <= Cardinality(E) + 1
      <4>1. /\ IsFiniteSet(E \cup {x})
            /\ Cardinality(E \cup {x}) = Cardinality(E) \/ Cardinality(E \cup {x}) = Cardinality(E) + 1
        BY ONLY <3>2, FS_AddElement
      <4>2. Cardinality(E) \in Nat /\ Cardinality(E \cup {x}) \in Nat
        BY ONLY <3>2, <4>1, FS_CardinalityType
      <4> QED
        BY ONLY <4>1, <4>2
    <3>4. Budget(j)' >= Budget(j) + 1
      BY <2>1, <2>5, HandsOver
    <3>5. IsFiniteSet(E') /\ Cardinality(E') <= Budget(j)'
      <4>1. IsFiniteSet(E') /\ Cardinality(E') \in Nat /\ Cardinality(E') <= Cardinality(E) + 1
        BY ONLY <3>1, <3>3
      <4>2. Budget(j) \in Nat /\ Budget(j)' \in Nat
        BY <2>2
      <4> QED
        BY ONLY <3>2, <3>3, <3>4, <4>1, <4>2
    <3> QED
      BY <2>3, <3>1, <3>5 DEF Spent, E
  <2> QED
    BY <2>1, <2>4, <2>5, Queues
<1>3. IInv /\ Once => EncodingsBounded
  <2> SUFFICES ASSUME IInv, Once, retries = 0, NEW j \in Jobs
               PROVE  Cardinality(Encodings(j)) <= MAX_ATTEMPTS + crashes
    BY DEF EncodingsBounded
  <2>1. IsFiniteSet(Encodings(j)) /\ Cardinality(Encodings(j)) <= Budget(j)
    BY DEF Spent
  <2>2. Cardinality(Encodings(j)) \in Nat
    BY <2>1, FS_CardinalityType
  <2>3. row[j].attempts \in 0..MAX_ATTEMPTS /\ crashes \in Nat /\ MAX_ATTEMPTS \in Nat
    BY DEF IInv, Plain, Typed, Row, TranscodeFarmAssumption
  <2>4. Budget(j) <= MAX_ATTEMPTS + crashes
    BY <2>3 DEF Budget, Held
  <2> QED
    BY <2>1, <2>2, <2>3, <2>4 DEF Budget
<1> QED
  BY <1>1, <1>2, <1>3, Inductive, PTL DEF Spec
=============================================================================
