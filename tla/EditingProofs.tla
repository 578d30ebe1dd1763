--------------------------- MODULE EditingProofs ---------------------------
(***************************************************************************)
(* Theorems on what protects people who edit one container: the lock that  *)
(* tells them who is editing, for any people and any life of the lock that *)
(* outlasts the longest delay between two beats, and the guard of the      *)
(* revision, for any users, writers, gestures and deployments in flight.   *)
(***************************************************************************)
EXTENDS EditLock, ConfigEditing, TLAPS

-----------------------------------------------------------------------------
(* The lock. *)


(* A lock held by an editor that is open was seen when he last beat. *)
SeenByHolder == \A u \in open : holder = u => age <= quiet[u]

(* Who was told that the lock is his still has it, or has not beaten since *)
(* the last takeover or restart.                                           *)
ToldIsRecent == \A u \in People : told[u] => holder = u \/ takeover <= quiet[u]

LockInv == LockTypeOK /\ SeenByHolder /\ ToldIsRecent

(* A lock whose editor is open has not expired. *)
LEMMA HolderHolds ==
    ASSUME EditLockAssumption, Delay <= TTL_S, LockInv, NEW u \in open, holder = u
    PROVE  Held = u
<1>1. age <= quiet[u] /\ quiet[u] \in 0..Delay /\ age \in 0..(TTL_S + 1)
  BY DEF LockInv, SeenByHolder, LockTypeOK
<1>2. ~ age > TTL_S
  BY <1>1 DEF EditLockAssumption
<1> QED
  BY <1>2 DEF Held

LEMMA LockInitially == ASSUME EditLockAssumption PROVE LockInit => LockInv
BY DEF EditLockAssumption, LockInit, LockInv, LockTypeOK, SeenByHolder, ToldIsRecent, Never

LEMMA TickKeeps ==
    ASSUME EditLockAssumption, LockInv, Tick PROVE LockInv'
<1>1. /\ age' \in 0..(TTL_S + 1) /\ takeover' \in 0..Never
      /\ age' <= age + 1 /\ takeover' <= takeover + 1
  BY DEF EditLockAssumption, LockInv, LockTypeOK, Tick, Older, Never
<1>2. quiet' \in [People -> 0..Delay]
  <2>1. ASSUME NEW u \in open PROVE quiet[u] + 1 \in 0..Delay
    BY DEF EditLockAssumption, LockInv, LockTypeOK, Tick
  <2> QED
    BY <2>1 DEF EditLockAssumption, Tick
<1>3. \A u \in open : quiet'[u] = quiet[u] + 1
  BY DEF LockInv, LockTypeOK, Tick
<1>4. UNCHANGED <<holder, open, told>>
  BY DEF Tick
<1>5. LockTypeOK'
  BY <1>1, <1>2, <1>4 DEF LockInv, LockTypeOK
<1>6. SeenByHolder'
  <2> SUFFICES ASSUME NEW u \in open, holder = u PROVE age' <= quiet'[u]
    BY <1>4 DEF SeenByHolder
  <2>1. age <= quiet[u] /\ age \in Nat /\ quiet[u] \in Nat
    BY DEF EditLockAssumption, LockInv, SeenByHolder, LockTypeOK
  <2> QED
    BY <1>1, <1>3, <2>1
<1>7. ToldIsRecent'
  <2> SUFFICES ASSUME NEW u \in People, told[u], holder # u PROVE takeover' <= quiet'[u]
    BY <1>4 DEF ToldIsRecent
  <2>1. takeover <= quiet[u] /\ takeover \in Nat /\ quiet[u] \in Nat /\ u \in open
    BY DEF EditLockAssumption, LockInv, ToldIsRecent, LockTypeOK, Never
  <2> QED
    BY <1>1, <1>3, <2>1 DEF Never, EditLockAssumption
<1> QED
  BY <1>5, <1>6, <1>7 DEF LockInv

(* A beat takes a lock that is free, and leaves it as it is otherwise. *)
LEMMA BeatKeeps ==
    ASSUME EditLockAssumption, Delay <= TTL_S, LockInv, NEW u \in People, Beat(u) PROVE LockInv'
<1>1. /\ open' = open \cup {u} /\ quiet' = [quiet EXCEPT ![u] = 0]
      /\ UNCHANGED takeover
  BY DEF Beat
<1>2. CASE Held \in {u, NoOne}
  <2>1. holder' = u /\ age' = 0 /\ told' = [told EXCEPT ![u] = TRUE]
    BY <1>2 DEF Beat, Taken
  <2>2. LockTypeOK'
    BY <1>1, <2>1 DEF EditLockAssumption, LockInv, LockTypeOK
  <2>3. SeenByHolder'
    BY <1>1, <2>1 DEF LockInv, LockTypeOK, SeenByHolder
  <2>4. ASSUME NEW w \in People, told'[w], w # u PROVE takeover' <= quiet'[w]
    <3>1. told[w] /\ w \in open
      BY <2>1, <2>4 DEF LockInv, LockTypeOK
    <3>2. holder # w
      BY <3>1, <1>2, <2>4, HolderHolds DEF EditLockAssumption
    <3>3. takeover <= quiet[w]
      BY <3>1, <3>2 DEF LockInv, ToldIsRecent
    <3> QED
      BY <1>1, <2>4, <3>3 DEF LockInv, LockTypeOK
  <2> QED
    BY <2>1, <2>2, <2>3, <2>4 DEF LockInv, ToldIsRecent
<1>3. CASE Held \notin {u, NoOne}
  <2>1. Held = holder
    BY <1>3 DEF Held
  <2>2. holder' = holder /\ age' = age /\ holder # u /\ told' = [told EXCEPT ![u] = FALSE]
    BY <1>3, <2>1 DEF Beat, Denied
  <2>3. LockTypeOK'
    BY <1>1, <2>2 DEF EditLockAssumption, LockInv, LockTypeOK
  <2>4. SeenByHolder'
    BY <1>1, <2>2 DEF LockInv, LockTypeOK, SeenByHolder
  <2>5. ToldIsRecent'
    BY <1>1, <2>2 DEF LockInv, LockTypeOK, ToldIsRecent
  <2> QED
    BY <2>3, <2>4, <2>5 DEF LockInv
<1> QED
  BY <1>2, <1>3

(* Nobody has beaten since a takeover that is made now. *)
LEMMA TakeoverKeeps ==
    ASSUME EditLockAssumption, LockInv, (\E u \in People : TakeOver(u)) \/ Restart PROVE LockInv'
<1>1. takeover' = 0 /\ age' = 0 /\ open' = open
  BY DEF TakeOver, Taken, Restart
<1>2. LockTypeOK'
  <2>1. CASE Restart
    BY <2>1 DEF EditLockAssumption, LockInv, LockTypeOK, Restart, Never
  <2>2. CASE \E u \in People : TakeOver(u)
    BY <2>2 DEF EditLockAssumption, LockInv, LockTypeOK, TakeOver, Taken, Never
  <2> QED
    BY <2>1, <2>2
<1>3. \A u \in People : quiet'[u] >= 0
  BY <1>2 DEF LockTypeOK
<1>4. open \subseteq People
  BY DEF LockInv, LockTypeOK
<1> QED
  BY <1>1, <1>2, <1>3, <1>4 DEF LockInv, SeenByHolder, ToldIsRecent

(* Who leaves gives back his own lock, and leaves that of the others. *)
LEMMA LeavingKeeps ==
    ASSUME EditLockAssumption, LockInv, NEW u \in People, Close(u) \/ Vanish(u) PROVE LockInv'
<1>1. /\ open' = open \ {u} /\ told' = [told EXCEPT ![u] = FALSE]
      /\ UNCHANGED <<quiet, takeover>>
      /\ \/ holder = u /\ holder' = NoOne /\ age' = 0
         \/ UNCHANGED <<holder, age>>
  BY DEF Close, Vanish
<1>2. LockTypeOK'
  BY <1>1 DEF EditLockAssumption, LockInv, LockTypeOK
<1>3. SeenByHolder'
  BY <1>1 DEF EditLockAssumption, LockInv, LockTypeOK, SeenByHolder
<1>4. ToldIsRecent'
  BY <1>1 DEF EditLockAssumption, LockInv, LockTypeOK, ToldIsRecent
<1> QED
  BY <1>2, <1>3, <1>4 DEF LockInv

LEMMA LockInductive ==
    ASSUME EditLockAssumption, Delay <= TTL_S PROVE LockInv /\ [LockNext]_lockVars => LockInv'
<1> SUFFICES ASSUME LockInv, [LockNext]_lockVars PROVE LockInv'
  OBVIOUS
<1>1. CASE LockNext
  BY <1>1, TickKeeps, BeatKeeps, TakeoverKeeps, LeavingKeeps DEF LockNext
<1>2. CASE UNCHANGED lockVars
  BY <1>2 DEF lockVars, LockInv, LockTypeOK, SeenByHolder, ToldIsRecent
<1> QED
  BY <1>1, <1>2

(* Two people see the lock as theirs only for a heartbeat after a takeover *)
(* or a restart (edit_lock.py:11-13): one of them has not beaten since.    *)
THEOREM OneIsToldHolds ==
    ASSUME EditLockAssumption, Delay <= TTL_S PROVE LockSpec => []OneIsTold
<1>1. LockInv => OneIsTold
  <2> SUFFICES ASSUME LockInv, NEW u \in People, NEW v \in People, told[u], told[v], u # v
               PROVE  takeover <= Delay
    BY DEF OneIsTold
  <2>1. takeover <= quiet[u] \/ takeover <= quiet[v]
    BY DEF LockInv, ToldIsRecent
  <2> QED
    BY <2>1 DEF EditLockAssumption, LockInv, LockTypeOK, Never
<1> QED
  BY <1>1, LockInitially, LockInductive, PTL DEF LockSpec

(* "Only an explicit takeover moves it" (edit_lock.py:80-81): the lock of  *)
(* an editor that is open and beats does not expire under him.             *)
THEOREM KeptWhileOpenHolds ==
    ASSUME EditLockAssumption, Delay <= TTL_S PROVE LockSpec => KeptWhileOpen
<1> DEFINE Kept == \A u \in People : (Held = u /\ u \in open /\ u \in open') =>
                      Held' = u \/ takeover' = 0
<1>1. LockInv /\ LockInv' /\ [LockNext]_lockVars => Kept
  <2> SUFFICES ASSUME LockInv, LockInv', [LockNext]_lockVars,
                      NEW u \in People, Held = u, u \in open, u \in open', takeover' # 0
               PROVE  Held' = u
    OBVIOUS
  <2>1. holder = u
    BY DEF Held, EditLockAssumption
  <2>2. holder' = u
    <3>1. CASE Tick \/ UNCHANGED lockVars
      BY <2>1, <3>1 DEF Tick, lockVars
    <3>2. CASE \E w \in People : Beat(w)
      BY <2>1, <3>2 DEF Beat, Taken, Denied, EditLockAssumption
    <3>3. CASE (\E w \in People : TakeOver(w)) \/ Restart
      BY <3>3 DEF TakeOver, Restart
    <3>4. CASE \E w \in People : Close(w) \/ Vanish(w)
      BY <2>1, <3>4 DEF Close, Vanish
    <3> QED
      BY <3>1, <3>2, <3>3, <3>4 DEF LockNext
  <2>3. age' <= quiet'[u] /\ quiet'[u] \in 0..Delay /\ age' \in 0..(TTL_S + 1)
    BY <2>2 DEF LockInv, SeenByHolder, LockTypeOK
  <2> QED
    BY <2>2, <2>3 DEF Held, EditLockAssumption
<1>2. Kept => [Kept]_lockVars
  OBVIOUS
<1> QED
  BY <1>1, LockInitially, LockInductive, PTL DEF LockSpec, KeptWhileOpen
-----------------------------------------------------------------------------
(* The guard of the revision. *)

(* The revisions are numbers, and no editor is ahead of the configuration. *)
Ordered ==
    /\ editor \in [Users -> [open : BOOLEAN, base : Nat, shows : SUBSET Gestures]]
    /\ rev \in Nat /\ author \in Users \cup {Machine}
    /\ \A u \in Users : editor[u].base <= rev
    /\ flight \subseteq [by : Users, params : SUBSET Gestures]
    /\ gestures \in 0..MaxGestures /\ others \in 0..MaxOthers
    /\ config \subseteq Gestures

Current == Ordered /\ ShownIsCurrent

(* Two configurations that differ by what u, or nobody, has put in them. *)
DifferBy(u, S, T) ==
    \A g \in Gestures : g \in (S \cup T) /\ ~ (g \in S /\ g \in T) => g.by \in {u, Machine}

(* Until the guard is outrun, an editor that would be accepted hides no    *)
(* gesture of anybody else, and a deployment in flight is alone; nothing   *)
(* was written since it was accepted.                                      *)
Guarded ==
    ~ exposed =>
        /\ \A u \in Users : editor[u].open /\ Accepts(u) => DifferBy(u, config, editor[u].shows)
        /\ \A f \in flight :
              /\ flight = {f}
              /\ DifferBy(f.by, config, f.params)
              /\ editor[f.by].open => Accepts(f.by)

IInv == Current /\ Guarded

(* A gesture is a gesture. *)
LEMMA GestureTyped ==
    ASSUME ConfigEditingAssumption, NEW by \in Users \cup {Machine},
           NEW m \in 0..MaxGestures, NEW o \in 0..MaxOthers, m + o >= 1
    PROVE  Gesture(by, m + o) \in Gestures /\ Gesture(by, m + o).by = by
BY DEF Gesture, Gestures, ConfigEditingAssumption

LEMMA Initially == ASSUME ConfigEditingAssumption PROVE Init => IInv
BY DEF ConfigEditingAssumption, Init, IInv, Current, Ordered, ShownIsCurrent, Guarded, Closed

(* What a gesture does to its editor and what follows it. *)
LEMMA PostCases ==
    ASSUME ConfigEditingAssumption, Current, NEW u \in Users, Post(u)
    PROVE  \E g \in Gestures :
              LET params == editor[u].shows \cup {g}
              IN  /\ g.by = u /\ editor[u].open /\ Accepts(u)
                  /\ params \in SUBSET Gestures
                  /\ editor' = [editor EXCEPT ![u].shows = params]
                  /\ flight' = flight \cup {[by |-> u, params |-> params]}
<1> DEFINE g == Gesture(u, gestures' + others)
<1>1. gestures' \in 0..MaxGestures /\ others \in 0..MaxOthers /\ gestures' + others >= 1
  BY DEF ConfigEditingAssumption, Current, Ordered, Post
<1>2. g \in Gestures /\ g.by = u
  BY <1>1, GestureTyped
<1>3. editor[u].shows \in SUBSET Gestures
  BY DEF Current, Ordered
<1>4. /\ editor' = [editor EXCEPT ![u].shows = editor[u].shows \cup {g}]
      /\ flight' = flight \cup {[by |-> u, params |-> editor[u].shows \cup {g}]}
      /\ editor[u].open /\ Accepts(u)
  BY DEF Post
<1> HIDE DEF g
<1> QED
  BY <1>2, <1>3, <1>4

LEMMA ElsewhereCases ==
    ASSUME ConfigEditingAssumption, Current, NEW by \in Authors, WriteElsewhere(by)
    PROVE  /\ by \in Users \cup {Machine}
           /\ \E g \in Gestures : g.by = by /\ config' = config \cup {g}
           /\ rev' = rev + 1 /\ author' = by
           /\ others' \in 0..MaxOthers
           /\ UNCHANGED <<editor, flight, gestures>>
<1>1. by \in Users \cup {Machine}
  BY DEF ConfigEditingAssumption
<1>2. others' \in 0..MaxOthers /\ gestures \in 0..MaxGestures /\ gestures + others' >= 1
  BY DEF ConfigEditingAssumption, Current, Ordered, WriteElsewhere
<1>3. Gesture(by, gestures + others') \in Gestures /\ Gesture(by, gestures + others').by = by
  BY <1>1, <1>2, GestureTyped
<1> QED
  BY <1>1, <1>2, <1>3 DEF WriteElsewhere, Write

(* An editor at the current revision shows all there is, since whatever is *)
(* written moves the revision past that of every editor.                   *)
LEMMA CurrentInductive ==
    ASSUME ConfigEditingAssumption, Current, [Next]_vars PROVE Current'
<1>1. ASSUME NEW u \in Users, Open(u) PROVE Current'
  <2>1. editor' = [editor EXCEPT ![u] = [open |-> TRUE, base |-> rev, shows |-> config]]
    BY <1>1 DEF Open
  <2>2. Ordered'
    BY <1>1, <2>1 DEF Current, Ordered, Open
  <2>3. ShownIsCurrent'
    BY <1>1, <2>1 DEF Current, Ordered, ShownIsCurrent, Open
  <2> QED
    BY <2>2, <2>3 DEF Current
<1>2. ASSUME NEW u \in Users, Post(u) PROVE Current'
  <2>1. PICK g \in Gestures :
          LET params == editor[u].shows \cup {g}
          IN  /\ g.by = u /\ editor[u].open /\ Accepts(u)
              /\ params \in SUBSET Gestures
              /\ editor' = [editor EXCEPT ![u].shows = params]
              /\ flight' = flight \cup {[by |-> u, params |-> params]}
    BY <1>2, PostCases
  <2>2. /\ UNCHANGED <<config, rev, author, others>> /\ gestures' \in 0..MaxGestures
    BY <1>2 DEF Current, Ordered, Post, ConfigEditingAssumption
  <2>3. Ordered'
    BY <2>1, <2>2 DEF Current, Ordered
  <2>4. ShownIsCurrent'
    BY <2>1, <2>2 DEF Current, Ordered, ShownIsCurrent
  <2> QED
    BY <2>3, <2>4 DEF Current
<1>3. ASSUME NEW u \in Users, Refused(u) PROVE Current'
  <2>1. editor' = [editor EXCEPT ![u] = Closed]
    BY <1>3 DEF Refused
  <2>2. Ordered'
    BY <1>3, <2>1 DEF Current, Ordered, Refused, Closed
  <2>3. ShownIsCurrent'
    BY <1>3, <2>1 DEF Current, Ordered, ShownIsCurrent, Refused, Closed
  <2> QED
    BY <2>2, <2>3 DEF Current
<1>4. ASSUME Deploy PROVE Current'
  <2>1. PICK f \in flight : Write(f.params, f.by) /\ flight' = flight \ {f}
    BY <1>4 DEF Deploy
  <2>2. UNCHANGED <<editor, gestures, others>>
    BY <1>4 DEF Deploy
  <2>3. Ordered'
    BY <2>1, <2>2 DEF Current, Ordered, Write
  <2>4. ShownIsCurrent'
    BY <2>1, <2>2 DEF Current, Ordered, ShownIsCurrent, Write
  <2> QED
    BY <2>3, <2>4 DEF Current
<1>5. ASSUME DeployFails PROVE Current'
  BY <1>5 DEF Current, Ordered, ShownIsCurrent, DeployFails
<1>6. ASSUME NEW by \in Authors, WriteElsewhere(by) PROVE Current'
  <2>1. PICK g \in Gestures : config' = config \cup {g}
    BY <1>6, ElsewhereCases
  <2>2. /\ by \in Users \cup {Machine} /\ rev' = rev + 1 /\ author' = by
        /\ others' \in 0..MaxOthers /\ UNCHANGED <<editor, flight, gestures>>
    BY <1>6, ElsewhereCases
  <2>3. Ordered'
    BY <2>1, <2>2 DEF Current, Ordered
  <2>4. ShownIsCurrent'
    BY <2>2 DEF Current, Ordered, ShownIsCurrent
  <2> QED
    BY <2>3, <2>4 DEF Current
<1>7. CASE UNCHANGED vars
  BY <1>7 DEF Current, Ordered, ShownIsCurrent, vars
<1> QED
  BY <1>1, <1>2, <1>3, <1>4, <1>5, <1>6, <1>7 DEF Next

(* The revision moves at each write, whoever makes it (database.py:4088):  *)
(* an editor at the current revision shows all there is.                   *)
THEOREM ShownIsCurrentHolds ==
    ASSUME ConfigEditingAssumption PROVE Spec => []ShownIsCurrent
<1>1. Init => Current
  BY Initially DEF IInv
<1>2. Current /\ [Next]_vars => Current'
  BY CurrentInductive
<1>3. Current => ShownIsCurrent
  BY DEF Current
<1> QED
  BY <1>1, <1>2, <1>3, PTL DEF Spec

(* Nobody writes between a deployment and its acceptance, or the guard is  *)
(* outrun: the deployment is built on what is there, but for what its      *)
(* author and nobody have put in.                                          *)
LEMMA GuardedInductive ==
    ASSUME ConfigEditingAssumption, IInv, [Next]_vars PROVE Guarded'
<1> SUFFICES ASSUME ~ exposed' PROVE Guarded'
  BY DEF Guarded
<1> DEFINE Mine(u) == editor[u].open /\ Accepts(u) => DifferBy(u, config, editor[u].shows)
           Alone(f) == /\ flight = {f} /\ DifferBy(f.by, config, f.params)
                       /\ editor[f.by].open => Accepts(f.by)
<1>a. ~ exposed
  BY DEF Next, Open, Post, Refused, Deploy, DeployFails, WriteElsewhere, vars
<1>b. (\A u \in Users : Mine(u)) /\ (\A f \in flight : Alone(f))
  BY <1>a DEF IInv, Guarded
<1>c. /\ editor \in [Users -> [open : BOOLEAN, base : Nat, shows : SUBSET Gestures]]
      /\ rev \in Nat /\ author \in Users \cup {Machine}
      /\ \A u \in Users : editor[u].base <= rev
      /\ flight \subseteq [by : Users, params : SUBSET Gestures]
      /\ config \subseteq Gestures
  BY DEF IInv, Current, Ordered
<1>d. SUFFICES (\A u \in Users : Mine(u)') /\ (\A f \in flight' : Alone(f)')
  BY DEF Guarded
<1>1. ASSUME NEW u \in Users, Open(u) PROVE (\A w \in Users : Mine(w)') /\ (\A f \in flight' : Alone(f)')
  <2>1. /\ editor' = [editor EXCEPT ![u] = [open |-> TRUE, base |-> rev, shows |-> config]]
        /\ UNCHANGED <<config, rev, author, flight>>
    BY <1>1 DEF Open
  <2>2. ASSUME NEW w \in Users PROVE Mine(w)'
    BY <1>b, <1>c, <2>1 DEF Accepts, DifferBy
  <2>3. ASSUME NEW f \in flight' PROVE Alone(f)'
    <3>1. f \in flight /\ f.by \in Users /\ Alone(f)
      BY <1>b, <1>c, <2>1
    <3> QED
      BY <1>c, <2>1, <3>1 DEF Accepts, DifferBy
  <2> QED
    BY <2>2, <2>3
<1>2. ASSUME NEW u \in Users, Post(u) PROVE (\A w \in Users : Mine(w)') /\ (\A f \in flight' : Alone(f)')
  <2>1. PICK g \in Gestures :
          LET params == editor[u].shows \cup {g}
          IN  /\ g.by = u /\ editor[u].open /\ Accepts(u)
              /\ params \in SUBSET Gestures
              /\ editor' = [editor EXCEPT ![u].shows = params]
              /\ flight' = flight \cup {[by |-> u, params |-> params]}
    BY <1>2, PostCases DEF IInv
  <2>2. flight = {} /\ UNCHANGED <<config, rev, author>>
    BY <1>2 DEF Post
  <2> DEFINE params == editor[u].shows \cup {g}
  <2>3. DifferBy(u, config, params)
    BY <1>b, <2>1 DEF DifferBy
  <2>4. editor'[u].shows = params /\ editor'[u].open /\ editor'[u].base = editor[u].base
    BY <1>c, <2>1
  <2>5. ASSUME NEW w \in Users, w # u PROVE editor'[w] = editor[w]
    BY <1>c, <2>1, <2>5
  <2>6. ASSUME NEW w \in Users PROVE Mine(w)'
    <3>1. CASE w = u
      BY <2>2, <2>3, <2>4, <3>1 DEF DifferBy
    <3>2. CASE w # u
      BY <1>b, <2>2, <2>5, <3>2 DEF Accepts, DifferBy
    <3> QED
      BY <3>1, <3>2
  <2>7. ASSUME NEW f \in flight' PROVE Alone(f)'
    <3>1. f = [by |-> u, params |-> params] /\ flight' = {f}
      BY <2>1, <2>2
    <3>2. f.by = u /\ f.params = params
      BY <3>1
    <3>3. Accepts(u)'
      BY <2>1, <2>2, <2>4 DEF Accepts
    <3>4. DifferBy(u, config, params)'
      BY <2>1, <2>2, <2>3 DEF DifferBy
    <3> QED
      BY <2>2, <2>3, <3>1, <3>2, <3>3 DEF DifferBy
  <2> QED
    BY <2>6, <2>7
<1>3. ASSUME NEW u \in Users, Refused(u) PROVE (\A w \in Users : Mine(w)') /\ (\A f \in flight' : Alone(f)')
  <2>1. /\ editor' = [editor EXCEPT ![u] = Closed]
        /\ UNCHANGED <<config, rev, author, flight>>
    BY <1>3 DEF Refused
  <2>2. ASSUME NEW w \in Users PROVE Mine(w)'
    BY <1>b, <1>c, <2>1 DEF Accepts, DifferBy, Closed
  <2>3. ASSUME NEW f \in flight' PROVE Alone(f)'
    <3>1. f \in flight /\ f.by \in Users /\ Alone(f)
      BY <1>b, <1>c, <2>1
    <3> QED
      BY <1>c, <2>1, <3>1 DEF Accepts, DifferBy, Closed
  <2> QED
    BY <2>2, <2>3
<1>4. ASSUME Deploy PROVE (\A w \in Users : Mine(w)') /\ (\A f \in flight' : Alone(f)')
  <2>1. PICK f \in flight : Write(f.params, f.by) /\ flight' = flight \ {f}
    BY <1>4 DEF Deploy
  <2>2. UNCHANGED editor
    BY <1>4 DEF Deploy
  <2>3. f.by \in Users /\ f.params \in SUBSET Gestures /\ Alone(f)
    BY <1>b, <1>c
  <2>4. flight' = {}
    BY <2>1, <2>3
  <2>5. config' = f.params /\ rev' = rev + 1 /\ author' = f.by /\ f.by # Machine
    BY <2>1, <2>3 DEF Write, ConfigEditingAssumption
  <2>6. ASSUME NEW w \in Users, editor[w].open, Accepts(w)' PROVE DifferBy(w, f.params, editor[w].shows)
    <3>1. w = f.by
      BY <1>c, <2>2, <2>5, <2>6 DEF Accepts
    <3>2. DifferBy(w, config, editor[w].shows) /\ DifferBy(w, config, f.params)
      BY <1>b, <2>3, <2>6, <3>1
    <3> QED
      BY <3>2 DEF DifferBy
  <2>7. ASSUME NEW w \in Users PROVE Mine(w)'
    BY <2>2, <2>5, <2>6 DEF DifferBy
  <2> QED
    BY <2>4, <2>7
<1>5. ASSUME DeployFails PROVE (\A w \in Users : Mine(w)') /\ (\A f \in flight' : Alone(f)')
  <2>1. PICK f \in flight : flight' = flight \ {f}
    BY <1>5 DEF DeployFails
  <2>2. UNCHANGED <<config, rev, author, editor>>
    BY <1>5 DEF DeployFails
  <2>3. flight' = {}
    BY <1>b, <2>1
  <2>4. ASSUME NEW w \in Users PROVE Mine(w)'
    BY <1>b, <2>2 DEF Accepts, DifferBy
  <2> QED
    BY <2>3, <2>4
<1>6. ASSUME NEW by \in Authors, WriteElsewhere(by)
      PROVE (\A w \in Users : Mine(w)') /\ (\A f \in flight' : Alone(f)')
  <2>1. PICK g \in Gestures : g.by = by /\ config' = config \cup {g}
    BY <1>6, ElsewhereCases DEF IInv
  <2>2. /\ by \in Users \cup {Machine} /\ rev' = rev + 1 /\ author' = by
        /\ UNCHANGED <<editor, flight>>
    BY <1>6, ElsewhereCases DEF IInv
  <2>3. flight = {} /\ author \in {by, Machine}
    BY <1>6 DEF WriteElsewhere
  <2>4. ASSUME NEW w \in Users, editor[w].open, Accepts(w)' PROVE DifferBy(w, config \cup {g}, editor[w].shows)
    <3>1. by \in {w, Machine}
      BY <1>c, <2>2, <2>4 DEF Accepts
    <3>2. Accepts(w)
      BY <2>3, <3>1 DEF Accepts
    <3>3. DifferBy(w, config, editor[w].shows)
      BY <1>b, <2>4, <3>2
    <3> QED
      BY <2>1, <3>1, <3>3 DEF DifferBy
  <2>5. ASSUME NEW w \in Users PROVE Mine(w)'
    BY <2>1, <2>2, <2>4 DEF DifferBy
  <2> QED
    BY <2>2, <2>3, <2>5
<1>7. CASE UNCHANGED vars
  <2>1. ASSUME NEW w \in Users PROVE Mine(w)'
    BY <1>7, <1>b DEF vars, Accepts, DifferBy
  <2>2. ASSUME NEW f \in flight' PROVE Alone(f)'
    BY <1>7, <1>b, <1>c DEF vars, Accepts, DifferBy
  <2> QED
    BY <2>1, <2>2
<1> QED
  BY <1>1, <1>2, <1>3, <1>4, <1>5, <1>6, <1>7 DEF Next

(* What one person put into the configuration is never erased by another,  *)
(* as long as the guard is not outrun (edit_lock.py:13-15).                *)
THEOREM NoOtherErasedHolds ==
    ASSUME ConfigEditingAssumption PROVE Spec => NoOtherErased
<1> DEFINE Kept == \A g \in config : g.by \in Users => g \in config' \/ author' = g.by \/ exposed
<1>1. IInv /\ [Next]_vars => IInv'
  BY CurrentInductive, GuardedInductive DEF IInv
<1>2. IInv /\ [Next]_vars => Kept
  <2> SUFFICES ASSUME IInv, [Next]_vars, ~ exposed, NEW g \in config, g.by \in Users
               PROVE  g \in config' \/ author' = g.by
    OBVIOUS
  <2>1. CASE Deploy
    <3>1. PICK f \in flight : Write(f.params, f.by)
      BY <2>1 DEF Deploy
    <3>2. DifferBy(f.by, config, f.params) /\ config \subseteq Gestures
      BY DEF IInv, Guarded, Current, Ordered
    <3>3. g \in f.params \/ g.by = f.by
      BY <3>2 DEF DifferBy, ConfigEditingAssumption
    <3> QED
      BY <3>1, <3>3 DEF Write
  <2>2. CASE \E by \in Authors : WriteElsewhere(by)
    BY <2>2 DEF WriteElsewhere, Write
  <2>3. CASE UNCHANGED config
    BY <2>3
  <2> QED
    BY <2>1, <2>2, <2>3 DEF Next, Open, Post, Refused, DeployFails, vars
<1> QED
  BY <1>1, <1>2, Initially, PTL DEF Spec, NoOtherErased
=============================================================================
