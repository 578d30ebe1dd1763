--------------------------- MODULE ReplicaStaging ---------------------------
(***************************************************************************)
(* The files behind one staged replica: store_replica() on the receiving   *)
(* controller (app/ha.py:97), run by the threads of the mTLS listener, and *)
(* the part of promote() that reads what they leave (apply_replica_to).    *)
(*                                                                         *)
(* Paths name inodes.  Every call writes the ONE temporary path: opening   *)
(* it truncates the inode already there, renaming it moves the inode, and  *)
(* a descriptor opened before follows the inode, not the path.  The bytes  *)
(* of a file are its first and its last part, each from some snapshot.     *)
(* The metadata file beside the replica is display only and left out.      *)
(***************************************************************************)
EXTENDS Naturals, FiniteSets

CONSTANTS
    Handlers,       \* threads of the receiving listener
    Inodes,         \* files the disk can hold at a time
    NoFile,         \* no file at that path, no descriptor
    MaxPushes,      \* bound on the snapshots pushed
    Concurrent      \* requests the active controller may have in flight

ASSUME ReplicaStagingAssumption ==
    /\ NoFile \notin Inodes
    /\ MaxPushes \in Nat /\ Concurrent \in Nat \ {0}

VARIABLES
    tmp, staging,   \* the inode each path names, or NoFile
    disk,           \* the content of each inode
    pc,             \* where each handler is in store_replica
    body,           \* the request each handler serves
    fd,             \* the inode each handler writes to
    taken,          \* snapshots taken by the active controller so far
    acked,          \* the last snapshot answered "ok", 0 before
    reader,         \* where promote() is: idle, checked, opened, halfway
    rfd,            \* the inode promote() reads
    incoming,       \* what it has copied so far
    live            \* the live database promote() installs

handlerVars == <<pc, body, fd>>
readerVars == <<reader, rfd, incoming, live>>
vars == <<tmp, staging, disk, handlerVars, taken, acked, readerVars>>

Parts == 0..MaxPushes           \* 0: nothing written there
Empty == [head |-> 0, tail |-> 0]
Contents == [head : Parts, tail : Parts]

\* _is_valid_sqlite: the header and every page belong to one database.
Valid(content) == content.head # 0 /\ content.head = content.tail

ValidAt(path) == path # NoFile /\ Valid(disk[path])

TypeOK ==
    /\ tmp \in Inodes \cup {NoFile} /\ staging \in Inodes \cup {NoFile}
    /\ disk \in [Inodes -> Contents]
    /\ pc \in [Handlers -> {"idle", "received", "opened", "halfway", "written", "checked"}]
    /\ body \in [Handlers -> Contents]
    /\ fd \in [Handlers -> Inodes \cup {NoFile}]
    /\ taken \in Parts /\ acked \in Parts
    /\ reader \in {"idle", "checked", "opened", "halfway"}
    /\ rfd \in Inodes \cup {NoFile}
    /\ incoming \in Contents /\ live \in Contents
    /\ reader \in {"opened", "halfway"} <=> rfd # NoFile
    /\ \A h \in Handlers : pc[h] \in {"opened", "halfway"} <=> fd[h] # NoFile

Used == {tmp, staging, rfd} \cup {fd[h] : h \in Handlers}
Go(h, to) == pc' = [pc EXCEPT ![h] = to]

-----------------------------------------------------------------------------
(* The active controller snapshots its database and sends it; the body may *)
(* arrive cut short.                                                       *)

Receive(h, whole) ==
    /\ pc[h] = "idle"
    /\ Cardinality({g \in Handlers : pc[g] # "idle"}) < Concurrent
    /\ taken < MaxPushes
    /\ taken' = taken + 1
    /\ body' = [body EXCEPT ![h] = [head |-> taken', tail |-> IF whole THEN taken' ELSE 0]]
    /\ Go(h, "received")
    /\ UNCHANGED <<tmp, staging, disk, fd, acked, readerVars>>

\* open(tmp, "wb"): a new file, or the one there truncated.
Open(h) ==
    /\ pc[h] = "received"
    /\ \E i \in IF tmp = NoFile THEN Inodes \ Used ELSE {tmp} :
          /\ tmp' = i
          /\ disk' = [disk EXCEPT ![i] = Empty]
          /\ fd' = [fd EXCEPT ![h] = i]
    /\ Go(h, "opened")
    /\ UNCHANGED <<staging, body, taken, acked, readerVars>>

WriteHead(h) ==
    /\ pc[h] = "opened"
    /\ disk' = [disk EXCEPT ![fd[h]].head = body[h].head]
    /\ Go(h, "halfway")
    /\ UNCHANGED <<tmp, staging, body, fd, taken, acked, readerVars>>

WriteTail(h) ==
    /\ pc[h] = "halfway"
    /\ disk' = [disk EXCEPT ![fd[h]].tail = body[h].tail]
    /\ fd' = [fd EXCEPT ![h] = NoFile]
    /\ Go(h, "written")
    /\ UNCHANGED <<tmp, staging, body, taken, acked, readerVars>>

\* Mutant: the snapshot is not validated before it is staged.
CheckNothing(h) ==
    /\ pc[h] = "written"
    /\ Go(h, "checked")
    /\ UNCHANGED <<tmp, staging, disk, body, fd, taken, acked, readerVars>>

\* Mutant: "ok" is answered before the replica takes its place.
CheckAnswers(h) ==
    /\ pc[h] = "written"
    /\ IF ValidAt(tmp) THEN Go(h, "checked") /\ tmp' = tmp /\ acked' = body[h].head
                       ELSE Go(h, "idle") /\ tmp' = NoFile /\ UNCHANGED acked
    /\ UNCHANGED <<staging, disk, body, fd, taken, readerVars>>

\* Validation looks at the path, not at what this call wrote; a refused
\* snapshot is removed and answered 400.
Check(h) ==
    /\ pc[h] = "written"
    /\ IF ValidAt(tmp) THEN Go(h, "checked") /\ tmp' = tmp
                       ELSE Go(h, "idle") /\ tmp' = NoFile
    /\ UNCHANGED <<staging, disk, body, fd, taken, acked, readerVars>>

\* Mutant: the staged file is overwritten by a copy instead of a rename.
ReplaceByCopy(h) ==
    /\ pc[h] = "checked"
    /\ Go(h, "idle")
    /\ IF tmp = NoFile
       THEN UNCHANGED <<tmp, staging, disk, acked>>
       ELSE /\ staging' = IF staging = NoFile THEN tmp ELSE staging
            /\ tmp' = NoFile
            /\ disk' = IF staging = NoFile THEN disk
                       ELSE [disk EXCEPT ![staging] = disk[tmp]]
            /\ acked' = body[h].head
    /\ UNCHANGED <<body, fd, taken, readerVars>>

\* os.replace, then the answer; a temporary file gone meanwhile is an error.
Replace(h) ==
    /\ pc[h] = "checked"
    /\ Go(h, "idle")
    /\ IF tmp = NoFile
       THEN UNCHANGED <<tmp, staging, acked>>
       ELSE staging' = tmp /\ tmp' = NoFile /\ acked' = body[h].head
    /\ UNCHANGED <<disk, body, fd, taken, readerVars>>

-----------------------------------------------------------------------------
(* promote(): the staged file is checked, then opened and copied.          *)

ReadCheck ==
    /\ reader = "idle" /\ ValidAt(staging)
    /\ reader' = "checked"
    /\ UNCHANGED <<tmp, staging, disk, handlerVars, taken, acked, rfd, incoming, live>>

ReadOpen ==
    /\ reader = "checked"
    /\ reader' = "opened" /\ rfd' = staging
    /\ UNCHANGED <<tmp, staging, disk, handlerVars, taken, acked, incoming, live>>

ReadHead ==
    /\ reader = "opened"
    /\ incoming' = [head |-> disk[rfd].head, tail |-> 0]
    /\ reader' = "halfway"
    /\ UNCHANGED <<tmp, staging, disk, handlerVars, taken, acked, rfd, live>>

\* The end of the copy and the atomic replacement of the live database.
ReadTail ==
    /\ reader = "halfway"
    /\ live' = [incoming EXCEPT !.tail = disk[rfd].tail]
    /\ incoming' = Empty
    /\ reader' = "idle" /\ rfd' = NoFile
    /\ UNCHANGED <<tmp, staging, disk, handlerVars, taken, acked>>

\* The receiving service dies: what is on disk stays as it is.
Crash ==
    /\ pc' = [h \in Handlers |-> "idle"]
    /\ body' = [h \in Handlers |-> Empty]
    /\ fd' = [h \in Handlers |-> NoFile]
    /\ reader' = "idle" /\ rfd' = NoFile /\ incoming' = Empty
    /\ UNCHANGED <<tmp, staging, disk, taken, acked, live>>

-----------------------------------------------------------------------------
Init ==
    /\ tmp = NoFile /\ staging = NoFile
    /\ disk = [i \in Inodes |-> Empty]
    /\ pc = [h \in Handlers |-> "idle"]
    /\ body = [h \in Handlers |-> Empty]
    /\ fd = [h \in Handlers |-> NoFile]
    /\ taken = 0 /\ acked = 0
    /\ reader = "idle" /\ rfd = NoFile
    /\ incoming = Empty /\ live = Empty

StoreReplica(h) ==
    \/ \E whole \in BOOLEAN : Receive(h, whole)
    \/ Open(h) \/ WriteHead(h) \/ WriteTail(h) \/ Check(h) \/ Replace(h)

ApplyReplica == ReadCheck \/ ReadOpen \/ ReadHead \/ ReadTail

Next == (\E h \in Handlers : StoreReplica(h)) \/ ApplyReplica \/ Crash

Spec == Init /\ [][Next]_vars

-----------------------------------------------------------------------------
\* The standby never stages a corrupt or truncated database (ha.py:98-100).
StagedIsComplete == staging # NoFile => Valid(disk[staging])

\* A promotion never puts anything but one whole snapshot on the live path,
\* whatever is pushed or killed while it copies (ha.py:371-397).
LiveIsComplete == live = Empty \/ Valid(live)

\* What was answered "ok" is staged, or has been replaced by something newer
\* (the check HA.md:108 asks for before a planned switch).
AckedIsStaged == acked # 0 => staging # NoFile /\ disk[staging].head >= acked
=============================================================================
