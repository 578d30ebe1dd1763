--------------------------- MODULE StandbyProofs ---------------------------
(***************************************************************************)
(* Theorems on the two loops of a standby: its watchdog, for any threshold *)
(* and any outcome of the writes to the journal, and the files of its      *)
(* replica, for any threads, inodes and number of pushes, when replicas    *)
(* come one at a time.                                                     *)
(***************************************************************************)
EXTENDS HaWatchdog, ReplicaStaging, FiniteSetTheorems, TLAPS

-----------------------------------------------------------------------------
(* The watchdog.  The count reaches the threshold only by a probe that     *)
(* arms, and what disarms clears it.                                       *)
CountIsArmed == fails >= Threshold => armed

(* The count is at most the silence it stands for, but when the all-clear  *)
(* could not be written.                                                   *)
CountIsSilence == ~ unwritten => fails <= silence

WatchInv == WatchTypeOK /\ CountIsArmed /\ CountIsSilence

(* No failure is below the threshold. *)
LEMMA ZeroIsLow ==
    ASSUME HaWatchdogAssumption
    PROVE  ~ (0 >= Threshold) /\ 0 \in 0..Threshold + 1 /\ 0 <= 0 /\ 0 \in 0..MaxChanges
BY DEF HaWatchdogAssumption

LEMMA WatchInitially == ASSUME HaWatchdogAssumption PROVE WatchInit => WatchInv
<1> SUFFICES ASSUME WatchInit PROVE WatchInv
  OBVIOUS
<1>1. WatchTypeOK
  BY ZeroIsLow, Zenon DEF WatchInit, WatchTypeOK
<1>2. CountIsArmed /\ CountIsSilence
  BY ZeroIsLow, Zenon DEF WatchInit, CountIsArmed, CountIsSilence
<1> QED
  BY <1>1, <1>2 DEF WatchInv

LEMMA WatchInductive == ASSUME HaWatchdogAssumption PROVE WatchInv /\ [WatchNext]_watchVars => WatchInv'
<1> SUFFICES ASSUME WatchInv, [WatchNext]_watchVars PROVE WatchTypeOK' /\ CountIsArmed' /\ CountIsSilence'
  BY DEF WatchInv
<1> USE DEF HaWatchdogAssumption, WatchInv, WatchTypeOK, CountIsArmed, CountIsSilence, history
<1>1. CASE Change
  BY <1>1 DEF Change
<1>2. CASE ProbeUnknown
  <2>1. WatchTypeOK'
    BY <1>2, ZeroIsLow, Zenon DEF ProbeUnknown
  <2>2. CountIsArmed' /\ CountIsSilence'
    BY <1>2, ZeroIsLow, Zenon DEF ProbeUnknown
  <2> QED
    BY <2>1, <2>2
<1>3. CASE ProbeAnswers
  <2>1. PICK write \in {"ok", "raises"} :
          /\ IF write = "ok" THEN armed' = FALSE /\ fails' = 0 ELSE UNCHANGED <<armed, fails>>
          /\ unwritten' = (write = "raises")
    BY <1>3 DEF ProbeAnswers
  <2>2. alive' = "yes" /\ silence' = 0 /\ UNCHANGED <<peer, changes>>
    BY <1>3 DEF ProbeAnswers
  <2>3. CASE write = "ok"
    <3>1. armed' = FALSE /\ fails' = 0 /\ unwritten' = FALSE
      BY <2>1, <2>3
    <3>2. WatchTypeOK'
      BY <2>2, <3>1, ZeroIsLow, Zenon
    <3>3. CountIsArmed' /\ CountIsSilence'
      BY <2>2, <3>1, ZeroIsLow, Zenon
    <3> QED
      BY <3>2, <3>3
  <2>4. CASE write = "raises"
    <3>1. unwritten' = TRUE /\ UNCHANGED <<armed, fails>>
      BY <2>1, <2>4
    <3>2. WatchTypeOK' /\ CountIsArmed'
      BY <2>2, <3>1
    <3> QED
      BY <3>1, <3>2
  <2> QED
    BY <2>1, <2>3, <2>4
<1>4. CASE ProbeFails
  <2>1. /\ alive' = "no" /\ fails' = Count(fails) /\ silence' = Count(silence)
        /\ UNCHANGED <<peer, changes, unwritten>>
    BY <1>4 DEF ProbeFails
  <2>2. armed' = (armed \/ fails' >= Threshold)
    BY <1>4 DEF ProbeFails
  <2>3. fails' \in 0..Threshold + 1 /\ silence' \in 0..Threshold + 1
    BY <2>1 DEF Count
  <2>4. fails <= silence => fails' <= silence'
    BY <2>1 DEF Count
  <2>5. armed' \in BOOLEAN /\ CountIsArmed'
    BY <2>2
  <2>6. CountIsSilence'
    BY <2>1, <2>4
  <2> QED
    BY <2>1, <2>3, <2>5, <2>6
<1>5. CASE UNCHANGED watchVars
  BY <1>5 DEF watchVars
<1> QED
  BY <1>1, <1>2, <1>3, <1>4, <1>5 DEF WatchNext, Probe

(* A lit banner has its alarm in the loop, which is what will journal the  *)
(* return of the peer (ha.py:283-291).                                     *)
THEOREM BannerIsArmedHolds ==
    ASSUME HaWatchdogAssumption PROVE WatchSpec => []BannerIsArmed
<1>1. WatchInv => BannerIsArmed
  BY DEF WatchInv, CountIsArmed, BannerIsArmed, Banner
<1> QED
  BY <1>1, WatchInitially, WatchInductive, PTL DEF WatchSpec

(* The banner is lit only when ha_watchdog_fails probes in a row met a     *)
(* peer down (HA.md:11), but after an all-clear that could not be written. *)
THEOREM BannerIsDeservedHolds ==
    ASSUME HaWatchdogAssumption PROVE WatchSpec => []BannerIsDeserved
<1>1. WatchInv => BannerIsDeserved
  BY DEF HaWatchdogAssumption, WatchInv, WatchTypeOK, CountIsSilence, BannerIsDeserved, Banner
<1> QED
  BY <1>1, WatchInitially, WatchInductive, PTL DEF WatchSpec
-----------------------------------------------------------------------------
(* The files of a replica.  A request at a time: no two handlers work.     *)
Alone == \A g, h \in Handlers : pc[g] # "idle" /\ pc[h] # "idle" => g = h

(* Only the temporary file is written to: what is staged and what is being *)
(* read are other files.                                                   *)
Apart ==
    /\ staging # NoFile => staging # tmp
    /\ rfd # NoFile => rfd # tmp
    /\ \A h \in Handlers : fd[h] # NoFile => fd[h] = tmp

(* What a handler has written, so far, of the body it was sent. *)
Written ==
    \A h \in Handlers :
        /\ pc[h] # "idle" => body[h].head # 0
        /\ pc[h] \in {"opened", "halfway"} => fd[h] = tmp /\ tmp # NoFile
        /\ pc[h] = "halfway" => disk[tmp].head = body[h].head
        /\ pc[h] \in {"written", "checked"} => tmp # NoFile /\ disk[tmp].head = body[h].head
        /\ pc[h] = "checked" => Valid(disk[tmp])

(* What a promotion reads was checked, and is as it was. *)
ReadIsValid ==
    /\ reader = "checked" => staging # NoFile
    /\ reader \in {"opened", "halfway"} => Valid(disk[rfd])
    /\ reader = "halfway" => incoming.head = disk[rfd].head

StagingInv ==
    /\ TypeOK /\ Alone /\ Apart /\ Written /\ ReadIsValid
    /\ StagedIsComplete /\ LiveIsComplete /\ AckedIsStaged

LEMMA StagingInitially == ASSUME ReplicaStagingAssumption PROVE Init => StagingInv
BY DEF ReplicaStagingAssumption, Init, StagingInv, TypeOK, Alone, Apart, Written, ReadIsValid,
       StagedIsComplete, LiveIsComplete, AckedIsStaged, Contents, Parts, Empty, Valid

(* With one request at a time, a handler receives while the others rest. *)
LEMMA ReceivesAlone ==
    ASSUME NEW h \in Handlers, Alone, Concurrent = 1,
           Cardinality({g \in Handlers : pc[g] # "idle"}) < Concurrent
    PROVE  \A g \in Handlers : pc[g] = "idle"
<1> DEFINE Busy == {g \in Handlers : pc[g] # "idle"}
<1>1. SUFFICES ASSUME NEW g \in Handlers, pc[g] # "idle" PROVE FALSE
  OBVIOUS
<1>2. Busy = {g}
  BY <1>1 DEF Alone
<1>3. Cardinality(Busy) = 1
  BY <1>2, FS_Singleton
<1> QED
  BY <1>3

(* A handler's step: the others rest. *)
LEMMA OthersRest ==
    ASSUME NEW h \in Handlers, Alone, pc[h] # "idle"
    PROVE  \A g \in Handlers : g # h => pc[g] = "idle"
BY DEF Alone

LEMMA StagingInductive ==
    ASSUME ReplicaStagingAssumption, Concurrent = 1
    PROVE  StagingInv /\ [Next]_vars => StagingInv'
<1> SUFFICES ASSUME StagingInv, [Next]_vars PROVE StagingInv'
  OBVIOUS
<1> USE DEF ReplicaStagingAssumption
<1>1. ASSUME NEW h \in Handlers, NEW whole \in BOOLEAN, Receive(h, whole) PROVE StagingInv'
  <2>1. \A g \in Handlers : pc[g] = "idle"
    BY <1>1, ReceivesAlone DEF StagingInv, Receive
  <2>2. /\ pc' = [pc EXCEPT ![h] = "received"]
        /\ taken' = taken + 1 /\ taken' \in Parts
        /\ body' = [body EXCEPT ![h] = [head |-> taken', tail |-> IF whole THEN taken' ELSE 0]]
        /\ UNCHANGED <<tmp, staging, disk, fd, acked, readerVars>>
    BY <1>1 DEF Receive, Go, StagingInv, TypeOK, Parts
  <2>3. TypeOK'
    BY <2>1, <2>2 DEF StagingInv, TypeOK, Parts, Contents, readerVars
  <2>4. Alone' /\ Apart' /\ Written' /\ ReadIsValid'
    BY <2>1, <2>2 DEF StagingInv, TypeOK, Alone, Apart, Written, ReadIsValid, Parts, readerVars
  <2>5. StagedIsComplete' /\ LiveIsComplete' /\ AckedIsStaged'
    BY <2>2 DEF StagingInv, StagedIsComplete, LiveIsComplete, AckedIsStaged, readerVars
  <2> QED
    BY <2>3, <2>4, <2>5 DEF StagingInv
<1>2. ASSUME NEW h \in Handlers, Open(h) PROVE StagingInv'
  <2>1. \A g \in Handlers : g # h => pc[g] = "idle"
    BY <1>2, OthersRest DEF StagingInv, Open
  <2>2. PICK i \in IF tmp = NoFile THEN Inodes \ Used ELSE {tmp} :
          /\ tmp' = i /\ disk' = [disk EXCEPT ![i] = Empty] /\ fd' = [fd EXCEPT ![h] = i]
    BY <1>2 DEF Open
  <2>3. i \in Inodes /\ i # staging /\ i # rfd
    BY <2>2 DEF StagingInv, TypeOK, Apart, Used
  <2>4. pc[h] = "received" /\ pc' = [pc EXCEPT ![h] = "opened"]
        /\ UNCHANGED <<staging, body, taken, acked, readerVars>>
    BY <1>2 DEF Open, Go
  <2>5. \A g \in Handlers : fd[g] = NoFile
    BY <2>1, <2>4 DEF StagingInv, TypeOK
  <2>6. TypeOK'
    BY <2>2, <2>3, <2>4 DEF StagingInv, TypeOK, Parts, Contents, Empty, readerVars
  <2>7. Alone' /\ Apart'
    BY <2>1, <2>2, <2>3, <2>4, <2>5 DEF StagingInv, TypeOK, Alone, Apart, readerVars
  <2>8. Written'
    BY <2>1, <2>2, <2>3, <2>4 DEF StagingInv, TypeOK, Written
  <2>9. \A j \in Inodes : j # i => disk'[j] = disk[j]
    BY <2>2 DEF StagingInv, TypeOK
  <2>10. staging # NoFile => disk'[staging] = disk[staging]
    BY <2>3, <2>9 DEF StagingInv, TypeOK
  <2>11. rfd # NoFile => disk'[rfd] = disk[rfd]
    BY <2>3, <2>9 DEF StagingInv, TypeOK
  <2>12. ReadIsValid'
    BY <2>4, <2>11 DEF StagingInv, TypeOK, ReadIsValid, readerVars
  <2>13. StagedIsComplete' /\ LiveIsComplete' /\ AckedIsStaged'
    BY <2>4, <2>10 DEF StagingInv, StagedIsComplete, LiveIsComplete, AckedIsStaged, readerVars
  <2> QED
    BY <2>6, <2>7, <2>8, <2>12, <2>13 DEF StagingInv
<1>3. ASSUME NEW h \in Handlers, WriteHead(h) \/ WriteTail(h) PROVE StagingInv'
  <2>1. pc[h] \in {"opened", "halfway"} /\ UNCHANGED <<tmp, staging, body, taken, acked, readerVars>>
    BY <1>3 DEF WriteHead, WriteTail
  <2>2. \A g \in Handlers : g # h => pc[g] = "idle"
    BY <1>3, <2>1, OthersRest DEF StagingInv
  <2>3. fd[h] = tmp /\ tmp \in Inodes /\ tmp # staging /\ tmp # rfd /\ tmp # NoFile
    BY <2>1 DEF StagingInv, TypeOK, Apart, Written
  <2>4. /\ pc[h] = "opened" => pc' = [pc EXCEPT ![h] = "halfway"] /\ fd' = fd
        /\ pc[h] = "halfway" => pc' = [pc EXCEPT ![h] = "written"] /\ fd' = [fd EXCEPT ![h] = NoFile]
    BY <1>3 DEF WriteHead, WriteTail, Go
  <2>5. /\ disk' \in [Inodes -> Contents]
        /\ \A j \in Inodes : j # tmp => disk'[j] = disk[j]
        /\ disk'[tmp].head = body[h].head
    <3>1. CASE WriteHead(h)
      <4>1. disk' = [disk EXCEPT ![tmp] = [disk[tmp] EXCEPT !.head = body[h].head]]
        BY <3>1, <2>3 DEF WriteHead
      <4>2. [disk[tmp] EXCEPT !.head = body[h].head] \in Contents
        BY <2>3 DEF StagingInv, TypeOK, Contents
      <4>3. [disk[tmp] EXCEPT !.head = body[h].head].head = body[h].head
        BY <2>3 DEF StagingInv, TypeOK, Contents
      <4> QED
        BY <4>1, <4>2, <4>3, <2>3 DEF StagingInv, TypeOK
    <3>2. CASE WriteTail(h)
      <4>1. disk' = [disk EXCEPT ![tmp] = [disk[tmp] EXCEPT !.tail = body[h].tail]]
        BY <3>2, <2>3 DEF WriteTail
      <4>2. [disk[tmp] EXCEPT !.tail = body[h].tail] \in Contents
        BY <2>3 DEF StagingInv, TypeOK, Contents
      <4>3. [disk[tmp] EXCEPT !.tail = body[h].tail].head = disk[tmp].head
        BY <2>3 DEF StagingInv, TypeOK, Contents
      <4>4. disk[tmp].head = body[h].head
        BY <3>2 DEF WriteTail, StagingInv, Written
      <4> QED
        BY <4>1, <4>2, <4>3, <4>4, <2>3 DEF StagingInv, TypeOK
    <3> QED
      BY <1>3, <3>1, <3>2
  <2>6. TypeOK'
    BY <2>1, <2>3, <2>4, <2>5 DEF StagingInv, TypeOK, readerVars
  <2>7. Alone' /\ Apart'
    BY <2>1, <2>2, <2>3, <2>4 DEF StagingInv, TypeOK, Alone, Apart, readerVars
  <2>8. Written'
    BY <2>1, <2>2, <2>3, <2>4, <2>5 DEF StagingInv, TypeOK, Written
  <2>10. staging # NoFile => disk'[staging] = disk[staging]
    BY <2>3, <2>5 DEF StagingInv, TypeOK
  <2>11. rfd # NoFile => disk'[rfd] = disk[rfd]
    BY <2>3, <2>5 DEF StagingInv, TypeOK
  <2>12. ReadIsValid'
    BY <2>1, <2>11 DEF StagingInv, TypeOK, ReadIsValid, readerVars
  <2>13. StagedIsComplete' /\ LiveIsComplete' /\ AckedIsStaged'
    BY <2>1, <2>10 DEF StagingInv, StagedIsComplete, LiveIsComplete, AckedIsStaged, readerVars
  <2> QED
    BY <2>6, <2>7, <2>8, <2>12, <2>13 DEF StagingInv
<1>4. ASSUME NEW h \in Handlers, Check(h) PROVE StagingInv'
  <2>1. pc[h] = "written" /\ UNCHANGED <<staging, disk, body, fd, taken, acked, readerVars>>
    BY <1>4 DEF Check
  <2>2. \A g \in Handlers : g # h => pc[g] = "idle"
    BY <2>1, OthersRest DEF StagingInv
  <2>3. \/ Valid(disk[tmp]) /\ tmp # NoFile /\ pc' = [pc EXCEPT ![h] = "checked"] /\ tmp' = tmp
        \/ pc' = [pc EXCEPT ![h] = "idle"] /\ tmp' = NoFile
    BY <1>4 DEF Check, ValidAt, Go
  <2>4. TypeOK'
    BY <2>1, <2>3 DEF StagingInv, TypeOK, readerVars
  <2>5. \A g \in Handlers : fd[g] = NoFile
    BY <2>1, <2>2 DEF StagingInv, TypeOK
  <2>6. Alone' /\ Apart'
    BY <2>1, <2>2, <2>3, <2>5 DEF StagingInv, TypeOK, Alone, Apart, readerVars
  <2>7. Written'
    BY <2>1, <2>2, <2>3 DEF StagingInv, TypeOK, Written
  <2>8. ReadIsValid' /\ StagedIsComplete' /\ LiveIsComplete' /\ AckedIsStaged'
    BY <2>1 DEF StagingInv, ReadIsValid, StagedIsComplete, LiveIsComplete, AckedIsStaged, readerVars
  <2> QED
    BY <2>4, <2>6, <2>7, <2>8 DEF StagingInv
<1>5. ASSUME NEW h \in Handlers, Replace(h) PROVE StagingInv'
  <2>1. pc[h] = "checked" /\ pc' = [pc EXCEPT ![h] = "idle"]
        /\ UNCHANGED <<disk, body, fd, taken, readerVars>>
    BY <1>5 DEF Replace, Go
  <2>2. \A g \in Handlers : g # h => pc[g] = "idle"
    BY <2>1, OthersRest DEF StagingInv
  <2>3. tmp \in Inodes /\ tmp # NoFile /\ Valid(disk[tmp]) /\ disk[tmp].head = body[h].head
    BY <2>1 DEF StagingInv, TypeOK, Written
  <2>4. staging' = tmp /\ tmp' = NoFile /\ acked' = body[h].head
    BY <1>5, <2>3 DEF Replace
  <2>5. body[h].head \in Parts
    BY DEF StagingInv, TypeOK, Contents
  <2>6. \A g \in Handlers : fd[g] = NoFile
    BY <2>1, <2>2 DEF StagingInv, TypeOK
  <2>7. TypeOK'
    BY <2>1, <2>3, <2>4, <2>5 DEF StagingInv, TypeOK, readerVars
  <2>8. Alone' /\ Apart' /\ Written'
    BY <2>1, <2>2, <2>3, <2>4, <2>6 DEF StagingInv, TypeOK, Alone, Apart, Written, readerVars
  <2>9. ReadIsValid' /\ LiveIsComplete'
    BY <2>1, <2>3, <2>4 DEF StagingInv, ReadIsValid, LiveIsComplete, readerVars
  <2>10. StagedIsComplete' /\ AckedIsStaged'
    BY <2>1, <2>3, <2>4, <2>5 DEF StagedIsComplete, AckedIsStaged, Parts
  <2> QED
    BY <2>7, <2>8, <2>9, <2>10 DEF StagingInv
<1>6. CASE ReadCheck \/ ReadOpen \/ ReadHead \/ ReadTail
  <2>1. UNCHANGED <<tmp, staging, disk, pc, body, fd, taken, acked>>
    BY <1>6 DEF ReadCheck, ReadOpen, ReadHead, ReadTail, handlerVars
  <2>2. Alone' /\ Written' /\ StagedIsComplete' /\ AckedIsStaged'
    BY <2>1 DEF StagingInv, Alone, Written, StagedIsComplete, AckedIsStaged
  <2>3. CASE ReadCheck
    BY <2>1, <2>2, <2>3 DEF ReadCheck, ValidAt, StagingInv, TypeOK, Apart, ReadIsValid, LiveIsComplete
  <2>4. CASE ReadOpen
    <3>1. reader = "checked" /\ staging \in Inodes /\ staging # NoFile /\ rfd' = staging
          /\ reader' = "opened" /\ UNCHANGED <<incoming, live>>
      BY <2>4 DEF ReadOpen, StagingInv, TypeOK, ReadIsValid
    <3>2. TypeOK' /\ Apart' /\ LiveIsComplete'
      BY <2>1, <3>1 DEF StagingInv, TypeOK, Apart, LiveIsComplete
    <3>3. ReadIsValid'
      BY <2>1, <3>1 DEF StagingInv, ReadIsValid, StagedIsComplete
    <3> QED
      BY <2>2, <3>2, <3>3 DEF StagingInv
  <2>5. CASE ReadHead
    <3>1. reader = "opened" /\ rfd \in Inodes /\ reader' = "halfway" /\ UNCHANGED <<rfd, live>>
          /\ incoming' = [head |-> disk[rfd].head, tail |-> 0] /\ 0 \in Parts
      BY <2>5 DEF ReadHead, StagingInv, TypeOK, Parts
    <3>2. disk[rfd] \in Contents
      BY <3>1 DEF StagingInv, TypeOK
    <3>3. incoming' \in Contents /\ incoming'.head = disk[rfd].head
      BY <3>1, <3>2 DEF Contents
    <3>4. TypeOK' /\ Apart' /\ LiveIsComplete'
      BY <2>1, <3>1, <3>3 DEF StagingInv, TypeOK, Apart, LiveIsComplete
    <3>5. ReadIsValid'
      BY <2>1, <3>1, <3>3 DEF StagingInv, ReadIsValid
    <3> QED
      BY <2>2, <3>4, <3>5 DEF StagingInv
  <2>6. CASE ReadTail
    <3>1. reader = "halfway" /\ rfd \in Inodes /\ reader' = "idle" /\ rfd' = NoFile
          /\ live' = [incoming EXCEPT !.tail = disk[rfd].tail] /\ incoming' = Empty
      BY <2>6 DEF ReadTail, StagingInv, TypeOK
    <3>2. Valid(disk[rfd]) /\ incoming.head = disk[rfd].head /\ disk[rfd] \in Contents
      BY <3>1 DEF StagingInv, TypeOK, ReadIsValid
    <3>3. live' \in Contents /\ Valid(live') /\ Empty \in Contents
      BY <3>1, <3>2 DEF StagingInv, TypeOK, Contents, Valid, Empty, Parts
    <3>4. TypeOK' /\ Apart' /\ LiveIsComplete'
      BY <2>1, <3>1, <3>3 DEF StagingInv, TypeOK, Apart, LiveIsComplete
    <3>5. ReadIsValid'
      BY <3>1 DEF ReadIsValid
    <3> QED
      BY <2>2, <3>4, <3>5 DEF StagingInv
  <2> QED
    BY <1>6, <2>3, <2>4, <2>5, <2>6
<1>7. CASE Crash
  <2>1. TypeOK'
    BY <1>7 DEF Crash, StagingInv, TypeOK, Contents, Parts, Empty
  <2>2. Alone' /\ Apart' /\ Written' /\ ReadIsValid'
    BY <1>7 DEF Crash, StagingInv, Alone, Apart, Written, ReadIsValid
  <2>3. StagedIsComplete' /\ LiveIsComplete' /\ AckedIsStaged'
    BY <1>7 DEF Crash, StagingInv, StagedIsComplete, LiveIsComplete, AckedIsStaged
  <2> QED
    BY <2>1, <2>2, <2>3 DEF StagingInv
<1>8. CASE UNCHANGED vars
  BY <1>8 DEF vars, handlerVars, readerVars, StagingInv, TypeOK, Alone, Apart, Written, ReadIsValid,
              StagedIsComplete, LiveIsComplete, AckedIsStaged
<1> QED
  BY <1>1, <1>2, <1>3, <1>4, <1>5, <1>6, <1>7, <1>8 DEF Next, StoreReplica, ApplyReplica

(* The standby never stages a corrupt or truncated database, however many  *)
(* replicas arrive, as long as they come one at a time (ha.py:98-100).     *)
THEOREM StagedIsCompleteHolds ==
    ASSUME ReplicaStagingAssumption, Concurrent = 1 PROVE Spec => []StagedIsComplete
<1>1. StagingInv => StagedIsComplete
  BY DEF StagingInv
<1> QED
  BY <1>1, StagingInitially, StagingInductive, PTL DEF Spec

(* A promotion installs one whole snapshot, whatever is pushed or killed   *)
(* while it copies (ha.py:371-397).                                        *)
THEOREM LiveIsCompleteHolds ==
    ASSUME ReplicaStagingAssumption, Concurrent = 1 PROVE Spec => []LiveIsComplete
<1>1. StagingInv => LiveIsComplete
  BY DEF StagingInv
<1> QED
  BY <1>1, StagingInitially, StagingInductive, PTL DEF Spec

(* What was answered "ok" is staged, or something newer is (HA.md:108). *)
THEOREM AckedIsStagedHolds ==
    ASSUME ReplicaStagingAssumption, Concurrent = 1 PROVE Spec => []AckedIsStaged
<1>1. StagingInv => AckedIsStaged
  BY DEF StagingInv
<1> QED
  BY <1>1, StagingInitially, StagingInductive, PTL DEF Spec
=============================================================================
