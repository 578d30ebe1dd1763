--------------------------- MODULE CorePoolProofs ---------------------------
(***************************************************************************)
(* Theorems on the reservations of cores, for any number of cores, of      *)
(* containers, of reapplications and of operations. The properties and the *)
(* invariants they need are conjunctions of named parts; one step of each  *)
(* proof treats one action of Next.                                        *)
(***************************************************************************)
EXTENDS CorePool, TLAPS

USE DEF Holders, Actors

(* The table is well typed whatever is written in it. *)
LEMMA WritesTyped ==
    ASSUME CoresAssumption, alloc \in [Cores -> Holders \cup {Free}]
    PROVE  /\ \A H \in SUBSET Holders : Released(H) \in [Cores -> Holders \cup {Free}]
           /\ \A b \in Boxes, S \in SUBSET Cores : Given(b, S) \in [Cores -> Holders \cup {Free}]
BY DEF Released, Given

LEMMA ReleaseTyped ==
    ASSUME CoresAssumption, alloc \in [Cores -> Holders \cup {Free}], NEW h \in Holders
    PROVE  Released({h}) \in [Cores -> Holders \cup {Free}]
<1>1. {h} \in SUBSET Holders
  OBVIOUS
<1> QED
  BY <1>1, WritesTyped

(* The end of a deployment keeps the types. *)
LEMMA EndTyped ==
    ASSUME CoresAssumption, TypeOK, NEW b \in Boxes, NEW new \in BOOLEAN, NEW ok \in BOOLEAN,
           End(b, new, ok)
    PROVE  /\ UNCHANGED <<alloc, pool, row, pinned, reconciled, operations>>
           /\ phase' \in [Actors -> Phases]
           /\ wish' \in [Boxes -> Nat] /\ known' \in [Actors -> SUBSET Cores]
           /\ names' \in [Boxes -> SUBSET Holders] /\ grant' \in [Boxes -> SUBSET Cores]
           /\ current' \subseteq Boxes \cup Threads
           /\ off' \in [Boxes -> BOOLEAN] /\ hit' \subseteq Boxes
BY DEF TypeOK, End, Finish, Go, tables, Phases

Jobs == [phase : {"idle", "due", "widen", "update"}, want : SUBSET Cores, targets : SUBSET Holders]

LEMMA StartTyped ==
    ASSUME TypeOK, Start \/ Widen
    PROVE  thread' \in [Threads -> Jobs]
<1>1. Due \in Jobs /\ Widening \in Jobs
  BY DEF Due, Widening, Jobs
<1> QED
  BY <1>1 DEF TypeOK, Start, Widen, Begin, Jobs

(* What an allocation may do: cores, none of which has a sibling reserved  *)
(* by another one, or a refusal, with or without the release of the former *)
(* cores.                                                                  *)
LEMMA AllocateCases ==
    ASSUME CoresAssumption, TypeOK, NEW b \in Boxes, Allocate(b)
    PROVE  /\ phase[b] = "allocate"
           /\ UNCHANGED <<pool, row, docker, wish, known, names, rest, off>>
           /\ \/ \E S \in SUBSET Cores : S = PhysFree(b, S) /\ Dedicated(b, S)
              \/ Held(b) = {} /\ Refused(b, alloc)
              \/ Refused(b, Released({b}))
<1> DEFINE free == {c \in known[b] : alloc[c] = Free} \cup Held(b)
           candidates == PhysFree(b, free)
<1>1. candidates \subseteq Cores /\ Held(b) \subseteq Cores
  BY DEF TypeOK, PhysFree, Held
<1>2. \A S \in SUBSET candidates : S = PhysFree(b, S)
  BY DEF PhysFree
<1>3. Held(b) \subseteq PhysFree(b, Held(b)) => Held(b) = PhysFree(b, Held(b))
  BY DEF PhysFree
<1> HIDE DEF candidates
<1>4. /\ phase[b] = "allocate"
      /\ UNCHANGED <<pool, row, docker, wish, known, names, rest, off>>
      /\ \/ \E S \in SUBSET candidates : Dedicated(b, S)
         \/ Held(b) = {} /\ Refused(b, alloc)
         \/ Held(b) \subseteq PhysFree(b, Held(b)) /\ Dedicated(b, Held(b))
         \/ Refused(b, Released({b}))
  BY DEF Allocate, candidates
<1> QED
  BY <1>1, <1>2, <1>3, <1>4

(* Types of the state of the pool. *)
THEOREM TypeCorrect == ASSUME CoresAssumption PROVE Spec => []TypeOK
<1>1. Init => TypeOK
  <2> SUFFICES ASSUME Init PROVE TypeOK
    OBVIOUS
  <2>1. AtRest \in Jobs /\ Unsigned \in [cores : SUBSET Cores, dedicated : BOOLEAN]
    BY DEF AtRest, Unsigned, Jobs
  <2>2. thread \in [Threads -> Jobs] /\ spec \in [Boxes -> [cores : SUBSET Cores, dedicated : BOOLEAN]]
    BY <2>1 DEF Init
  <2> QED
    BY <2>2 DEF Init, TypeOK, CoresAssumption, Phases, Jobs
<1>2. TypeOK /\ [Next]_vars => TypeOK'
  <2> SUFFICES ASSUME TypeOK, [Next]_vars PROVE TypeOK'
    OBVIOUS
  <2>a. alloc \in [Cores -> Holders \cup {Free}]
    BY DEF TypeOK
  <2> USE DEF Go, Phases, tables, mine, docker, rest, history
  <2>1. ASSUME NEW b \in Boxes, Create(b) PROVE TypeOK'
    BY <2>1 DEF Create, TypeOK
  <2>2. ASSUME NEW b \in Boxes, Deploy(b) PROVE TypeOK'
    BY <2>2, WritesTyped DEF Deploy, TypeOK, Write, Operation, CoresAssumption
  <2>3. ASSUME NEW b \in Boxes, List(b) PROVE TypeOK'
    BY <2>3 DEF List, TypeOK
  <2>4. ASSUME NEW b \in Boxes, Purge(b) PROVE TypeOK'
    BY <2>4, WritesTyped DEF Purge, TypeOK, Write
  <2>5. ASSUME NEW b \in Boxes, Allocate(b) PROVE TypeOK'
    <3>a. UNCHANGED <<pool, row, box, spec, wish, known, names, reconciled, thread, operations, off>>
      BY <2>5, AllocateCases
    <3>1. CASE \E S \in SUBSET Cores : Dedicated(b, S)
      <4>1. PICK S \in SUBSET Cores : Dedicated(b, S)
        BY <3>1
      <4>2. Given(b, S) \in [Cores -> Holders \cup {Free}]
        BY <2>a, WritesTyped
      <4>3. /\ alloc' = Given(b, S) /\ current' \subseteq current
            /\ phase' = [phase EXCEPT ![b] = "run"]
            /\ pinned' = [pinned EXCEPT ![b] = S] /\ grant' = [grant EXCEPT ![b] = S]
            /\ hit' \in {hit, hit \cup {b}}
        BY <4>1 DEF Dedicated, Write
      <4>4. phase' \in [Actors -> Phases]
        BY <4>3 DEF TypeOK
      <4>5. pinned' \in [Boxes -> SUBSET Cores] /\ grant' \in [Boxes -> SUBSET Cores]
        BY <4>3 DEF TypeOK
      <4>6. /\ alloc' \in [Cores -> Holders \cup {Free}] /\ current' \subseteq Boxes \cup Threads
            /\ hit' \subseteq Boxes
        BY <4>2, <4>3 DEF TypeOK
      <4> QED
        BY <3>a, <4>4, <4>5, <4>6 DEF TypeOK
    <3>2. CASE Refused(b, alloc) \/ Refused(b, Released({b}))
      <4>1. Released({b}) \in [Cores -> Holders \cup {Free}]
        BY <2>a, ReleaseTyped
      <4>2. /\ alloc' \in {alloc, Released({b})} /\ current' \subseteq current
            /\ phase' = [phase EXCEPT ![b] = "share"] /\ UNCHANGED <<grant, pinned, hit>>
        BY <3>2 DEF Refused, Write
      <4>3. phase' \in [Actors -> Phases]
        BY <4>2 DEF TypeOK
      <4>4. alloc' \in [Cores -> Holders \cup {Free}] /\ current' \subseteq Boxes \cup Threads
        BY <2>a, <4>1, <4>2 DEF TypeOK
      <4> QED
        BY <3>a, <4>2, <4>3, <4>4 DEF TypeOK
    <3> QED
      BY <2>5, <3>1, <3>2, AllocateCases
  <2>6. ASSUME NEW b \in Boxes, Share(b) PROVE TypeOK'
    BY <2>6 DEF Share, Shareable, TypeOK
  <2>7. ASSUME NEW b \in Boxes, Run(b) PROVE TypeOK'
    BY <2>7, EndTyped, StartTyped DEF Run, Signed, TypeOK, Jobs
  <2>8. ASSUME NEW b \in Boxes, Conforming(b) PROVE TypeOK'
    BY <2>8, EndTyped DEF Conforming, TypeOK
  <2>9. ASSUME NEW b \in Boxes, GiveUp(b) PROVE TypeOK'
    <3>1. End(b, FALSE, FALSE) /\ UNCHANGED thread
      BY <2>9 DEF GiveUp
    <3>2. Unsigned \in [cores : SUBSET Cores, dedicated : BOOLEAN]
      BY DEF Unsigned
    <3>3. /\ spec' \in [Boxes -> [cores : SUBSET Cores, dedicated : BOOLEAN]]
          /\ box' \in [Holders -> SUBSET Cores]
      <4>1. CASE UNCHANGED <<box, spec>>
        BY <4>1 DEF TypeOK
      <4>2. CASE box' = [box EXCEPT ![b] = {}] /\ spec' = [spec EXCEPT ![b] = Unsigned]
        BY <4>2, <3>2 DEF TypeOK
      <4> QED
        BY <2>9, <4>1, <4>2 DEF GiveUp
    <3> QED
      BY <3>1, <3>3, EndTyped DEF TypeOK
  <2>10. ASSUME NEW h \in Holders, Destroy(h) PROVE TypeOK'
    <3>1. Released({h}) \in [Cores -> Holders \cup {Free}]
      BY <2>a, ReleaseTyped
    <3>2. /\ alloc' = Released({h}) /\ current' \subseteq current
          /\ phase' = [phase EXCEPT ![h] = "remove"] /\ operations' = operations + 1
          /\ UNCHANGED <<pool, row, pinned, box, spec, wish, known, names, grant, reconciled, thread, off, hit>>
      BY <2>10 DEF Destroy, Write, Operation
    <3>3. phase' \in [Actors -> Phases] /\ operations' \in Nat
      BY <3>2 DEF TypeOK
    <3>4. alloc' \in [Cores -> Holders \cup {Free}] /\ current' \subseteq Boxes \cup Threads
      BY <3>1, <3>2 DEF TypeOK
    <3> QED
      BY <3>2, <3>3, <3>4 DEF TypeOK
  <2>11. ASSUME NEW h \in Holders, Remove(h) PROVE TypeOK'
    BY <2>11 DEF Remove, TypeOK
  <2>12. ASSUME NEW h \in Holders, Forget(h) PROVE TypeOK'
    <3>1. Released({h}) \in [Cores -> Holders \cup {Free}]
      BY <2>a, ReleaseTyped
    <3>2. /\ alloc' \in {alloc, Released({h})} /\ current' \subseteq current
          /\ row' = [row EXCEPT ![h] = "gone"] /\ phase' = [phase EXCEPT ![h] = "idle"]
          /\ UNCHANGED <<pool, pinned, box, spec, wish, known, names, grant, reconciled, operations, off, hit>>
      BY <2>12 DEF Forget, Write
    <3>3. thread' \in [Threads -> Jobs]
      BY <2>12, StartTyped DEF Forget
    <3>4. alloc' \in [Cores -> Holders \cup {Free}] /\ current' \subseteq Boxes \cup Threads
      BY <2>a, <3>1, <3>2 DEF TypeOK
    <3>5. row' \in [Holders -> {"none", "live", "gone"}] /\ phase' \in [Actors -> Phases]
      BY <3>2 DEF TypeOK
    <3> QED
      BY <3>2, <3>3, <3>4, <3>5 DEF TypeOK, Jobs
  <2>13. CASE EngineDeploy \/ Inspect \/ Compare \/ Launch
    <3>1. CASE EngineDeploy
      BY <3>1 DEF EngineDeploy, Operation, TypeOK
    <3>2. CASE Inspect
      BY <3>2 DEF Inspect, TypeOK
    <3>3. CASE Compare
      BY <3>3 DEF Compare, TypeOK
    <3>4. CASE Launch
      BY <3>4 DEF Launch, TypeOK, CoresAssumption
    <3> QED
      BY <2>13, <3>1, <3>2, <3>3, <3>4
  <2>14. ASSUME NEW a \in {Engine, Reconciler}, Reserve(a) PROVE TypeOK'
    BY <2>14 DEF Reserve, Conquered, Write, TypeOK
  <2>15. ASSUME NEW a \in {Engine, Reconciler}, Shrink(a) PROVE TypeOK'
    BY <2>15, StartTyped DEF Shrink, TypeOK, Jobs
  <2>16. ASSUME NEW t \in Threads, Measure(t) PROVE TypeOK'
    <3>1. Shareable(pool, Free) \in SUBSET Cores /\ AtRest \in Jobs
      BY DEF TypeOK, Shareable, AtRest, Jobs
    <3>2. PICK T \in SUBSET Holders :
            /\ thread' = [thread EXCEPT ![t] = IF T = {} THEN AtRest
                            ELSE [phase |-> "update", want |-> Shareable(pool, Free), targets |-> T]]
            /\ current' = IF T = {} THEN current ELSE current \cup {t}
      BY <2>16 DEF Measure
    <3>3. thread' \in [Threads -> Jobs]
      BY <3>1, <3>2 DEF TypeOK, Jobs
    <3>4. off' \in [Boxes -> BOOLEAN]
      BY <2>16 DEF Measure, TypeOK
    <3> QED
      BY <2>16, <3>2, <3>3, <3>4 DEF Measure, TypeOK, Jobs
  <2>17. ASSUME NEW t \in Threads, Update(t) PROVE TypeOK'
    <3>1. PICK h \in thread[t].targets, done \in BOOLEAN :
            /\ thread' = [thread EXCEPT ![t] = IF thread[t].targets \ {h} = {} THEN AtRest
                           ELSE [phase |-> "update", want |-> thread[t].want,
                                 targets |-> thread[t].targets \ {h}]]
            /\ current' = IF thread[t].targets \ {h} = {} THEN current \ {t} ELSE current
            /\ box' = IF done THEN [box EXCEPT ![h] = thread[t].want] ELSE box
            /\ off' = [b \in Boxes |-> IF b = h /\ phase[b] = "idle"
                          THEN ~done \/ t \notin current \/ (pinned[b] # {} /\ off[b])
                          ELSE off[b]]
      BY <2>17 DEF Update
    <3>2. /\ thread[t].targets \subseteq Holders /\ thread[t].want \subseteq Cores
          /\ AtRest \in Jobs
      BY DEF TypeOK, AtRest, Jobs
    <3>3. thread' \in [Threads -> Jobs]
      BY <3>1, <3>2 DEF TypeOK, Jobs
    <3>4. box' \in [Holders -> SUBSET Cores] /\ off' \in [Boxes -> BOOLEAN]
      BY <3>1, <3>2 DEF TypeOK
    <3> QED
      BY <2>17, <3>1, <3>3, <3>4 DEF Update, TypeOK, Jobs
  <2>18. CASE UNCHANGED vars
    BY <2>18 DEF vars, TypeOK
  <2> QED
    BY <2>1, <2>2, <2>3, <2>4, <2>5, <2>6, <2>7, <2>8, <2>9, <2>10, <2>11, <2>12, <2>13, <2>14,
       <2>15, <2>16, <2>17, <2>18 DEF Next
<1> QED
  BY <1>1, <1>2, PTL DEF Spec

(***************************************************************************)
(* What a step does to the table.                                          *)
(***************************************************************************)
Frees == \E H \in SUBSET Holders : alloc' = Released(H)
Grants == \E b \in Boxes, S \in SUBSET Cores : S = PhysFree(b, S) /\ alloc' = Given(b, S)
Conquers == alloc' = Conquered

LEMMA TableSteps ==
    ASSUME CoresAssumption, TypeOK, [Next]_vars
    PROVE  UNCHANGED alloc \/ Frees \/ Grants \/ Conquers
<1> USE DEF tables, Write
<1>1. ASSUME NEW b \in Boxes, Create(b) \/ List(b) \/ Share(b) PROVE UNCHANGED alloc
  BY <1>1 DEF Create, List, Share
<1>2. ASSUME NEW b \in Boxes, Run(b) \/ Conforming(b) \/ GiveUp(b) PROVE UNCHANGED alloc
  BY <1>2 DEF Run, Conforming, GiveUp, End
<1>3. ASSUME NEW b \in Boxes, Deploy(b) PROVE UNCHANGED alloc \/ Frees
  BY <1>3 DEF Deploy, Frees
<1>4. ASSUME NEW b \in Boxes, Purge(b) PROVE Frees
  BY <1>4 DEF Purge, Frees, TypeOK
<1>5. ASSUME NEW b \in Boxes, Allocate(b) PROVE UNCHANGED alloc \/ Frees \/ Grants
  <2>1. CASE \E S \in SUBSET Cores : S = PhysFree(b, S) /\ Dedicated(b, S)
    BY <2>1 DEF Grants, Dedicated
  <2>2. CASE Refused(b, alloc) \/ Refused(b, Released({b}))
    BY <2>2 DEF Frees, Refused
  <2> QED
    BY <1>5, <2>1, <2>2, AllocateCases
<1>6. ASSUME NEW h \in Holders, Destroy(h) \/ Remove(h) \/ Forget(h) PROVE UNCHANGED alloc \/ Frees
  BY <1>6 DEF Destroy, Remove, Forget, Frees
<1>7. CASE EngineDeploy \/ Inspect \/ Compare \/ Launch
  BY <1>7 DEF EngineDeploy, Inspect, Compare, Launch
<1>8. ASSUME NEW a \in {Engine, Reconciler}, Reserve(a) \/ Shrink(a) PROVE UNCHANGED alloc \/ Conquers
  BY <1>8 DEF Reserve, Shrink, Conquers
<1>9. ASSUME NEW t \in Threads, Measure(t) \/ Update(t) PROVE UNCHANGED alloc
  BY <1>9 DEF Measure, Update
<1>10. CASE UNCHANGED vars
  BY <1>10 DEF vars
<1> QED
  BY <1>1, <1>2, <1>3, <1>4, <1>5, <1>6, <1>7, <1>8, <1>9, <1>10 DEF Next

(* No sibling is shared, for any number of cores, containers and purges,   *)
(* evictions and deployments in any order: the engine alone ignores the    *)
(* rule, and it can only take.                                             *)
THEOREM OnePhysicalOwnerHolds == ASSUME CoresAssumption PROVE Spec => []OnePhysicalOwner
<1>1. Init => OnePhysicalOwner
  BY CoresAssumption DEF Init, OnePhysicalOwner, CoresAssumption
<1>2. TypeOK /\ OnePhysicalOwner /\ [Next]_vars => OnePhysicalOwner'
  <2> SUFFICES ASSUME TypeOK, OnePhysicalOwner, [Next]_vars,
                      NEW c \in Cores, NEW d \in Cores, Phys[c] = Phys[d],
                      alloc'[c] \in Boxes, alloc'[d] \in Boxes
               PROVE  alloc'[c] = alloc'[d]
    BY DEF OnePhysicalOwner
  <2>1. Free \notin Boxes /\ Engine \notin Boxes
    BY CoresAssumption DEF CoresAssumption
  <2>2. CASE UNCHANGED alloc
    BY <2>2 DEF OnePhysicalOwner
  <2>3. CASE Frees
    BY <2>1, <2>3 DEF OnePhysicalOwner, Frees, Released
  <2>4. CASE Grants
    <3>1. PICK b \in Boxes, S \in SUBSET Cores : S = PhysFree(b, S) /\ alloc' = Given(b, S)
      BY <2>4 DEF Grants
    <3>2. \A e \in S, f \in Cores : Phys[f] = Phys[e] => alloc[f] \in {b, Free}
      BY <3>1 DEF PhysFree
    <3>3. \A e \in Cores : alloc'[e] = IF e \in S THEN b ELSE IF alloc[e] = b THEN Free ELSE alloc[e]
      BY <3>1 DEF Given
    <3> QED
      BY <2>1, <3>2, <3>3 DEF OnePhysicalOwner
  <2>5. CASE Conquers
    BY <2>1, <2>5 DEF OnePhysicalOwner, Conquers, Conquered
  <2> QED
    BY <2>2, <2>3, <2>4, <2>5, TableSteps
<1> QED
  BY <1>1, <1>2, TypeCorrect, PTL DEF Spec

(***************************************************************************)
(* The table is the truth: the invariant.                                  *)
(***************************************************************************)
Deploying == {"list", "purge", "allocate", "share", "run"}

(* What holds of one container: only a living one is deployed, and before  *)
(* its row it has no box; before it turns to the shared pool a deployment  *)
(* holds nothing; what docker run is given is what the table says,         *)
(* evictions apart; and the table is true of it.                           *)
BoxInv(b) ==
    /\ row[b] # "live" => phase[b] \notin Deploying
    /\ row[b] = "none" => box[b] = {}
    /\ phase[b] = "share" => Held(b) = {}
    /\ phase[b] = "run" /\ b \notin hit =>
         /\ Held(b) = pinned[b]
         /\ pinned[b] # {} => grant[b] = pinned[b]
    /\ Still(b) => /\ Held(b) = pinned[b]
                   /\ pinned[b] # {} => box[b] = pinned[b]

(* A measure that is still current has found no reservation.               *)
TargetsHoldNothing ==
    \A t \in Threads : t \in current /\ thread[t].phase = "update" =>
        \A h \in thread[t].targets : Held(h) = {}

IInv == (\A b \in Boxes : BoxInv(b)) /\ TargetsHoldNothing

(* What each container holds after a write. *)
LEMMA HeldAfter ==
    ASSUME CoresAssumption, TypeOK, NEW x \in Boxes
    PROVE  /\ \A H \in SUBSET Holders : alloc' = Released(H) =>
                   Held(x)' = IF x \in H THEN {} ELSE Held(x)
           /\ \A b \in Boxes, S \in SUBSET Cores : S = PhysFree(b, S) /\ alloc' = Given(b, S) =>
                   Held(x)' = IF x = b THEN S ELSE Held(x)
           /\ alloc' = Conquered => Held(x)' = Held(x) \ Pin
           /\ UNCHANGED alloc => Held(x)' = Held(x)
<1>1. Free # x /\ Engine # x /\ Free \notin Holders
  BY CoresAssumption DEF CoresAssumption
<1>2. ASSUME NEW H \in SUBSET Holders, alloc' = Released(H)
      PROVE  Held(x)' = IF x \in H THEN {} ELSE Held(x)
  BY <1>1, <1>2 DEF Held, Released
<1>3. ASSUME NEW b \in Boxes, NEW S \in SUBSET Cores, S = PhysFree(b, S), alloc' = Given(b, S)
      PROVE  Held(x)' = IF x = b THEN S ELSE Held(x)
  <2>1. \A c \in S : alloc[c] \in {b, Free}
    BY <1>3 DEF PhysFree
  <2> QED
    BY <1>1, <1>3, <2>1 DEF Held, Given
<1>4. ASSUME alloc' = Conquered PROVE Held(x)' = Held(x) \ Pin
  BY <1>1, <1>4 DEF Held, Conquered
<1>5. ASSUME UNCHANGED alloc PROVE Held(x)' = Held(x)
  BY <1>5 DEF Held
<1> QED
  BY <1>2, <1>3, <1>4, <1>5

(* A container is as it was when nothing of its own has changed, but that  *)
(* it may be excused now.                                                  *)
LEMMA BoxFrame ==
    ASSUME NEW x \in Boxes, BoxInv(x), Held(x)' = Held(x),
           row'[x] = row[x], phase'[x] = phase[x], pinned'[x] = pinned[x], box'[x] = box[x],
           grant'[x] = grant[x], off[x] => off'[x], x \in hit => x \in hit'
    PROVE  BoxInv(x)'
BY DEF BoxInv, Still

(* A write that changes the table leaves no measure current. *)
LEMMA TargetsFrame ==
    ASSUME TargetsHoldNothing, NEW new, Write(new),
           \A t \in Threads : thread'[t].phase = "update" => thread'[t] = thread[t]
    PROVE  TargetsHoldNothing'
<1>1. CASE new = alloc
  <2>1. current' = current /\ alloc' = alloc
    BY <1>1 DEF Write
  <2> QED
    BY <2>1 DEF TargetsHoldNothing, Held
<1>2. CASE new # alloc
  BY <1>2 DEF TargetsHoldNothing, Write
<1> QED
  BY <1>1, <1>2

(* So does a step that leaves the table alone. *)
LEMMA TargetsKept ==
    ASSUME TargetsHoldNothing, UNCHANGED alloc,
           \A t \in Threads : t \in current' => t \in current,
           \A t \in Threads : thread'[t].phase = "update" => thread'[t] = thread[t]
    PROVE  TargetsHoldNothing'
BY DEF TargetsHoldNothing, Held

LEMMA StartFrame ==
    ASSUME TypeOK, Start \/ Widen
    PROVE  \A t \in Threads : thread'[t].phase = "update" => thread'[t] = thread[t]
BY DEF Start, Widen, Begin, Due, Widening, TypeOK

(* What a deployment does to the containers it is not about. *)
LEMMA OthersAfter ==
    ASSUME CoresAssumption, TypeOK, NEW b \in Boxes, NEW x \in Boxes, x # b, BoxInv(x),
           \/ UNCHANGED alloc
           \/ alloc' = Released({b})
           \/ \E S \in SUBSET Cores : S = PhysFree(b, S) /\ alloc' = Given(b, S),
           row'[x] = row[x], phase'[x] = phase[x], pinned'[x] = pinned[x], box'[x] = box[x],
           grant'[x] = grant[x], off'[x] = off[x], x \in hit' <=> x \in hit
    PROVE  BoxInv(x)'
<1>1. Held(x)' = Held(x)
  BY HeldAfter
<1> QED
  BY <1>1, BoxFrame

(* The actions of a deployment, one lemma each when it is not immediate. *)
LEMMA DeployStep ==
    ASSUME CoresAssumption, TypeOK, IInv, NEW b \in Boxes, Deploy(b)
    PROVE  IInv'
<1>1. PICK n \in Wishes :
        /\ phase' = [phase EXCEPT ![b] = IF n > 0 THEN "list" ELSE "share"]
        /\ Write(Released({b})) \/ (Write(alloc) /\ (n > 0 \/ Held(b) = {}))
  BY DEF Deploy, Go
<1>2. /\ phase[b] = "idle" /\ row[b] = "live"
      /\ UNCHANGED <<row, pinned, box, grant, off, hit, thread>>
  BY DEF Deploy, docker
<1>3. alloc' = Released({b}) \/ (alloc' = alloc /\ (n > 0 \/ Held(b) = {}))
  BY <1>1 DEF Write
<1>4. TargetsHoldNothing'
  BY <1>1, <1>2, TargetsFrame DEF IInv
<1>5. ASSUME NEW x \in Boxes, x # b PROVE BoxInv(x)'
  <2>1. BoxInv(x) /\ phase'[x] = phase[x]
    BY <1>1, <1>5 DEF IInv, TypeOK
  <2> QED
    BY <1>2, <1>3, <1>5, <2>1, OthersAfter
<1>6. BoxInv(b)'
  <2>1. phase'[b] = IF n > 0 THEN "list" ELSE "share"
    BY <1>1 DEF TypeOK
  <2>2. phase'[b] = "share" => Held(b)' = {}
    BY <1>3, <2>1, HeldAfter
  <2> QED
    BY <1>2, <2>1, <2>2 DEF BoxInv, Still
<1> QED
  BY <1>4, <1>5, <1>6 DEF IInv

LEMMA PurgeStep ==
    ASSUME CoresAssumption, TypeOK, IInv, NEW b \in Boxes, Purge(b)
    PROVE  IInv'
<1> DEFINE dead == {h \in names[b] : row[h] # "live"}
<1>1. /\ Write(Released(dead)) /\ dead \in SUBSET Holders
      /\ phase[b] = "purge" /\ phase' = [phase EXCEPT ![b] = "allocate"]
      /\ UNCHANGED <<row, pinned, box, grant, off, hit, thread>>
  BY DEF Purge, Go, docker, rest, TypeOK
<1> HIDE DEF dead
<1>2. TargetsHoldNothing'
  BY <1>1, TargetsFrame DEF IInv
<1>3. ASSUME NEW x \in Boxes PROVE BoxInv(x)'
  <2>1. BoxInv(x) /\ BoxInv(b)
    BY DEF IInv
  <2>2. Held(x)' = IF x \in dead THEN {} ELSE Held(x)
    BY <1>1, HeldAfter DEF Write
  <2>3. CASE x = b
    <3>1. row[b] = "live" /\ phase'[b] = "allocate"
      BY <1>1, <2>1 DEF BoxInv, Deploying, TypeOK
    <3> QED
      BY <1>1, <2>3, <3>1 DEF BoxInv, Still
  <2>4. CASE x # b /\ x \in dead
    <3>1. row[x] # "live" /\ phase'[x] = phase[x]
      BY <1>1, <2>4 DEF dead, TypeOK
    <3> QED
      BY <1>1, <2>1, <3>1 DEF BoxInv, Still, Deploying
  <2>5. CASE x # b /\ x \notin dead
    <3>1. phase'[x] = phase[x]
      BY <1>1, <2>5 DEF TypeOK
    <3> QED
      BY <1>1, <2>1, <2>2, <2>5, <3>1, BoxFrame
  <2> QED
    BY <2>3, <2>4, <2>5
<1> QED
  BY <1>2, <1>3 DEF IInv

LEMMA AllocateStep ==
    ASSUME CoresAssumption, TypeOK, IInv, NEW b \in Boxes, Allocate(b)
    PROVE  IInv'
<1>1. /\ phase[b] = "allocate" /\ UNCHANGED <<row, box, off, thread>>
  BY AllocateCases DEF docker, rest
<1>2. row[b] = "live"
  BY <1>1 DEF IInv, BoxInv, Deploying
<1>3. CASE \E S \in SUBSET Cores : S = PhysFree(b, S) /\ Dedicated(b, S)
  <2>1. PICK S \in SUBSET Cores : S = PhysFree(b, S) /\ Dedicated(b, S)
    BY <1>3
  <2>2. /\ Write(Given(b, S)) /\ alloc' = Given(b, S)
        /\ grant' = [grant EXCEPT ![b] = S] /\ pinned' = [pinned EXCEPT ![b] = S]
        /\ phase' = [phase EXCEPT ![b] = "run"]
        /\ hit' \in {hit, hit \cup {b}}
    BY <2>1 DEF Dedicated, Go, Write
  <2>3. TargetsHoldNothing'
    BY <1>1, <2>2, TargetsFrame DEF IInv
  <2>4. ASSUME NEW x \in Boxes, x # b PROVE BoxInv(x)'
    <3>1. /\ BoxInv(x) /\ phase'[x] = phase[x]
          /\ grant'[x] = grant[x] /\ pinned'[x] = pinned[x]
      BY <2>2, <2>4 DEF IInv, TypeOK
    <3> QED
      BY <1>1, <2>1, <2>2, <2>4, <3>1, OthersAfter
  <2>5. BoxInv(b)'
    <3>1. Held(b)' = S
      BY <2>1, <2>2, HeldAfter
    <3>2. phase'[b] = "run" /\ grant'[b] = S /\ pinned'[b] = S
      BY <2>2 DEF TypeOK
    <3> QED
      BY <1>1, <1>2, <3>1, <3>2 DEF BoxInv, Still
  <2> QED
    BY <2>3, <2>4, <2>5 DEF IInv
<1>4. CASE (Held(b) = {} /\ Refused(b, alloc)) \/ Refused(b, Released({b}))
  <2>1. /\ \/ Write(alloc) /\ alloc' = alloc /\ Held(b) = {}
           \/ Write(Released({b})) /\ alloc' = Released({b})
        /\ phase' = [phase EXCEPT ![b] = "share"] /\ UNCHANGED <<grant, pinned, hit>>
    BY <1>4 DEF Refused, Go, Write
  <2>2. TargetsHoldNothing'
    BY <1>1, <2>1, TargetsFrame DEF IInv
  <2>3. ASSUME NEW x \in Boxes, x # b PROVE BoxInv(x)'
    <3>1. BoxInv(x) /\ phase'[x] = phase[x]
      BY <2>1, <2>3 DEF IInv, TypeOK
    <3> QED
      BY <1>1, <2>1, <2>3, <3>1, OthersAfter
  <2>4. BoxInv(b)'
    <3>1. Held(b)' = {}
      BY <2>1, HeldAfter
    <3>2. phase'[b] = "share"
      BY <2>1 DEF TypeOK
    <3> QED
      BY <1>1, <1>2, <3>1, <3>2 DEF BoxInv, Still
  <2> QED
    BY <2>2, <2>3, <2>4 DEF IInv
<1> QED
  BY <1>3, <1>4, AllocateCases

LEMMA ShareStep ==
    ASSUME CoresAssumption, TypeOK, IInv, NEW b \in Boxes, Share(b)
    PROVE  IInv'
<1>1. /\ phase[b] = "share" /\ phase' = [phase EXCEPT ![b] = "run"]
      /\ pinned' = [pinned EXCEPT ![b] = {}]
      /\ \E S : grant' = [grant EXCEPT ![b] = S]
      /\ current' = current \cup {b} /\ hit' \in {hit, hit \cup {b}}
      /\ UNCHANGED <<alloc, row, box, off, thread>>
  BY DEF Share, Go, docker, rest
<1>2. \A t \in Threads : t # b
  BY CoresAssumption DEF CoresAssumption
<1>3. TargetsHoldNothing'
  BY <1>1, <1>2, TargetsKept DEF IInv
<1>4. ASSUME NEW x \in Boxes, x # b PROVE BoxInv(x)'
  <2>1. /\ BoxInv(x) /\ phase'[x] = phase[x]
        /\ grant'[x] = grant[x] /\ pinned'[x] = pinned[x]
    BY <1>1, <1>4 DEF IInv, TypeOK
  <2> QED
    BY <1>1, <1>4, <2>1, OthersAfter
<1>5. BoxInv(b)'
  <2>1. Held(b) = {} /\ row[b] = "live"
    BY <1>1 DEF IInv, BoxInv, Deploying
  <2>2. Held(b)' = {} /\ phase'[b] = "run" /\ pinned'[b] = {}
    BY <1>1, <2>1, HeldAfter DEF TypeOK
  <2> QED
    BY <1>1, <2>1, <2>2 DEF BoxInv, Still
<1> QED
  BY <1>3, <1>4, <1>5 DEF IInv

(* Every end of a deployment: what docker run has been given, or what it   *)
(* has found in place, is what the table says, or the container is excused.*)
LEMMA EndStep ==
    ASSUME CoresAssumption, TypeOK, IInv, NEW b \in Boxes,
           NEW new \in BOOLEAN, NEW ok \in BOOLEAN, End(b, new, ok),
           phase[b] \in {"share", "run"},
           ok => phase[b] = "run",
           new => box'[b] = grant[b],
           ~new /\ ok => box'[b] = box[b],
           \A x \in Boxes : x # b => box'[x] = box[x],
           \A t \in Threads : thread'[t].phase = "update" => thread'[t] = thread[t]
    PROVE  IInv'
<1>1. /\ off'[b] = (~ok \/ b \in hit \/ (pinned[b] = {} /\ b \notin current)
                      \/ (~new /\ (off[b] \/ box[b] # grant[b])))
      /\ hit' = hit \ {b} /\ current' = current \ {b}
      /\ phase' = [phase EXCEPT ![b] = "idle"]
      /\ grant' = [grant EXCEPT ![b] = {}]
      /\ \A x \in Boxes : x # b => off'[x] = off[x]
      /\ UNCHANGED <<alloc, row, pinned>>
  BY DEF End, Finish, Go, tables, TypeOK
<1>2. TargetsHoldNothing'
  BY <1>1, TargetsKept DEF IInv
<1>3. ASSUME NEW x \in Boxes, x # b PROVE BoxInv(x)'
  <2>1. /\ BoxInv(x) /\ phase'[x] = phase[x] /\ grant'[x] = grant[x]
    BY <1>1, <1>3 DEF IInv, TypeOK
  <2> QED
    BY <1>1, <1>3, <2>1, OthersAfter
<1>4. BoxInv(b)'
  <2>1. BoxInv(b) /\ row[b] = "live"
    BY DEF IInv, BoxInv, Deploying
  <2>2. Held(b)' = Held(b) /\ phase'[b] = "idle"
    BY <1>1, HeldAfter DEF TypeOK
  <2>3. ASSUME ~off'[b], pinned[b] # {} PROVE Held(b) = pinned[b] /\ box'[b] = pinned[b]
    BY <1>1, <2>1, <2>3 DEF BoxInv
  <2>4. ASSUME ~off'[b] PROVE Held(b) = pinned[b]
    BY <1>1, <2>1, <2>4 DEF BoxInv
  <2> QED
    BY <1>1, <2>1, <2>2, <2>3, <2>4 DEF BoxInv, Still
<1> QED
  BY <1>2, <1>3, <1>4 DEF IInv

LEMMA EndsStep ==
    ASSUME CoresAssumption, TypeOK, IInv, NEW b \in Boxes, Run(b) \/ Conforming(b) \/ GiveUp(b)
    PROVE  IInv'
<1>1. CASE Run(b)
  <2>1. /\ phase[b] = "run" /\ End(b, TRUE, TRUE)
        /\ box' = [box EXCEPT ![b] = grant[b]]
        /\ UNCHANGED thread \/ Start
    BY <1>1 DEF Run
  <2>2. box'[b] = grant[b] /\ \A x \in Boxes : x # b => box'[x] = box[x]
    BY <2>1 DEF TypeOK
  <2>3. \A t \in Threads : thread'[t].phase = "update" => thread'[t] = thread[t]
    BY <2>1, StartFrame
  <2> QED
    BY <2>1, <2>2, <2>3, EndStep
<1>2. CASE Conforming(b)
  <2>1. phase[b] = "run" /\ End(b, FALSE, TRUE) /\ UNCHANGED <<box, thread>>
    BY <1>2 DEF Conforming, docker
  <2> QED
    BY <2>1, EndStep
<1>3. CASE GiveUp(b)
  <2>1. /\ phase[b] \in {"share", "run"} /\ End(b, FALSE, FALSE) /\ UNCHANGED thread
        /\ UNCHANGED box \/ box' = [box EXCEPT ![b] = {}]
    BY <1>3 DEF GiveUp, docker
  <2>2. \A x \in Boxes : x # b => box'[x] = box[x]
    BY <2>1 DEF TypeOK
  <2> QED
    BY <2>1, <2>2, EndStep
<1> QED
  BY <1>1, <1>2, <1>3

(* Creation and destruction. *)
LEMMA LifeStep ==
    ASSUME CoresAssumption, TypeOK, IInv,
           \/ \E b \in Boxes : Create(b) \/ List(b)
           \/ \E h \in Holders : Destroy(h) \/ Remove(h) \/ Forget(h)
    PROVE  IInv'
<1>1. ASSUME NEW b \in Boxes, Create(b) PROVE IInv'
  <2>1. /\ row[b] = "none" /\ row' = [row EXCEPT ![b] = "live"]
        /\ UNCHANGED <<alloc, pinned, box, phase, grant, thread, current, off, hit>>
    BY <1>1 DEF Create, docker, mine, rest, history
  <2>2. TargetsHoldNothing'
    BY <2>1, TargetsKept DEF IInv
  <2>3. ASSUME NEW x \in Boxes PROVE BoxInv(x)'
    <3>1. BoxInv(x) /\ row'[x] = IF x = b THEN "live" ELSE row[x]
      BY <2>1 DEF IInv, TypeOK
    <3>2. CASE x = b
      BY <2>1, <3>1, <3>2 DEF BoxInv, Still, Deploying
    <3>3. CASE x # b
      BY <2>1, <3>1, <3>3, HeldAfter, BoxFrame
    <3> QED
      BY <3>2, <3>3
  <2> QED
    BY <2>2, <2>3 DEF IInv
<1>2. ASSUME NEW b \in Boxes, List(b) PROVE IInv'
  <2>1. /\ phase[b] = "list" /\ phase' = [phase EXCEPT ![b] = "purge"]
        /\ UNCHANGED <<alloc, row, pinned, box, grant, thread, current, off, hit>>
    BY <1>2 DEF List, Go, docker, tables, rest, history
  <2>2. TargetsHoldNothing'
    BY <2>1, TargetsKept DEF IInv
  <2>3. ASSUME NEW x \in Boxes PROVE BoxInv(x)'
    <3>1. BoxInv(x) /\ phase'[x] = IF x = b THEN "purge" ELSE phase[x]
      BY <2>1 DEF IInv, TypeOK
    <3>2. CASE x = b
      BY <2>1, <3>1, <3>2 DEF BoxInv, Still, Deploying
    <3>3. CASE x # b
      BY <2>1, <3>1, <3>3, HeldAfter, BoxFrame
    <3> QED
      BY <3>2, <3>3
  <2> QED
    BY <2>2, <2>3 DEF IInv
<1>3. ASSUME NEW h \in Holders, Destroy(h) PROVE IInv'
  <2>1. /\ Write(Released({h})) /\ alloc' = Released({h}) /\ phase' = [phase EXCEPT ![h] = "remove"]
        /\ row[h] = "live"
        /\ UNCHANGED <<row, pinned, box, grant, thread, off, hit>>
    BY <1>3 DEF Destroy, Go, Write, docker, mine
  <2>2. TargetsHoldNothing'
    BY <2>1, TargetsFrame DEF IInv
  <2>3. ASSUME NEW x \in Boxes PROVE BoxInv(x)'
    <3>1. BoxInv(x) /\ phase'[x] = IF x = h THEN "remove" ELSE phase[x]
      BY <2>1 DEF IInv, TypeOK
    <3>2. CASE x = h
      BY <2>1, <3>1, <3>2 DEF BoxInv, Still, Deploying
    <3>3. CASE x # h
      <4>1. Held(x)' = Held(x)
        BY <2>1, <3>3, HeldAfter
      <4> QED
        BY <2>1, <3>1, <3>3, <4>1, BoxFrame
    <3> QED
      BY <3>2, <3>3
  <2> QED
    BY <2>2, <2>3 DEF IInv
<1>4. ASSUME NEW h \in Holders, Remove(h) PROVE IInv'
  <2>1. /\ phase[h] = "remove" /\ phase' = [phase EXCEPT ![h] = "forget"]
        /\ box' = [box EXCEPT ![h] = {}] \/ UNCHANGED box
        /\ UNCHANGED <<alloc, row, pinned, grant, thread, current, off, hit>>
    BY <1>4 DEF Remove, Go, tables, mine, rest, history
  <2>2. TargetsHoldNothing'
    BY <2>1, TargetsKept DEF IInv
  <2>3. ASSUME NEW x \in Boxes PROVE BoxInv(x)'
    <3>1. BoxInv(x) /\ phase'[x] = IF x = h THEN "forget" ELSE phase[x]
      BY <2>1 DEF IInv, TypeOK
    <3>2. x # h => box'[x] = box[x]
      BY <2>1 DEF TypeOK
    <3>3. CASE x = h
      <4>1. box'[x] \in {{}, box[x]}
        BY <2>1 DEF TypeOK
      <4> QED
        BY <2>1, <3>1, <3>3, <4>1 DEF BoxInv, Still, Deploying
    <3>4. CASE x # h
      BY <2>1, <3>1, <3>2, <3>4, HeldAfter, BoxFrame
    <3> QED
      BY <3>3, <3>4
  <2> QED
    BY <2>2, <2>3 DEF IInv
<1>5. ASSUME NEW h \in Holders, Forget(h) PROVE IInv'
  <2>1. /\ Write(IF h = Engine THEN alloc ELSE Released({h})) /\ Widen
        /\ phase[h] = "forget" /\ phase' = [phase EXCEPT ![h] = "idle"]
        /\ row' = [row EXCEPT ![h] = "gone"]
        /\ UNCHANGED <<pinned, box, grant, off, hit>>
    BY <1>5 DEF Forget, Go, docker, mine
  <2>2. TargetsHoldNothing'
    BY <2>1, StartFrame, TargetsFrame DEF IInv
  <2>3. ASSUME NEW x \in Boxes PROVE BoxInv(x)'
    <3>1. BoxInv(x) /\ phase'[x] = IF x = h THEN "idle" ELSE phase[x]
      BY <2>1 DEF IInv, TypeOK
    <3>2. row'[x] = IF x = h THEN "gone" ELSE row[x]
      BY <2>1 DEF TypeOK
    <3>3. CASE x = h
      BY <2>1, <3>1, <3>2, <3>3 DEF BoxInv, Still, Deploying
    <3>4. CASE x # h
      <4>1. Held(x)' = Held(x)
        BY <2>1, <3>4, HeldAfter DEF Write
      <4> QED
        BY <2>1, <3>1, <3>2, <3>4, <4>1, BoxFrame
    <3> QED
      BY <3>3, <3>4
  <2> QED
    BY <2>2, <2>3 DEF IInv
<1> QED
  BY <1>1, <1>2, <1>3, <1>4, <1>5

(* The steps of the engine: those that write nothing of a container, and   *)
(* the eviction.                                                           *)
LEMMA EngineStep ==
    ASSUME CoresAssumption, TypeOK, IInv,
           \/ EngineDeploy \/ Inspect \/ Compare \/ Launch
           \/ \E a \in {Engine, Reconciler} : Shrink(a)
    PROVE  IInv'
<1>1. Engine \notin Boxes /\ Reconciler \notin Boxes
  BY CoresAssumption DEF CoresAssumption
<1>2. /\ UNCHANGED <<alloc, row, pinned, grant, off, hit>>
      /\ UNCHANGED box \/ box' = [box EXCEPT ![Engine] = Pin]
      /\ current' \subseteq current
      /\ UNCHANGED thread \/ Start
      /\ \E a \in {Engine, Reconciler} : \E there : phase' = [phase EXCEPT ![a] = there]
  BY DEF EngineDeploy, Inspect, Compare, Launch, Shrink, Go, tables, docker, mine, rest, history
<1>3. TargetsHoldNothing'
  BY <1>2, StartFrame, TargetsKept DEF IInv
<1>4. ASSUME NEW x \in Boxes PROVE BoxInv(x)'
  <2>1. BoxInv(x) /\ phase'[x] = phase[x] /\ box'[x] = box[x]
    BY <1>1, <1>2 DEF IInv, TypeOK
  <2> QED
    BY <1>2, <2>1, HeldAfter, BoxFrame
<1> QED
  BY <1>3, <1>4 DEF IInv

LEMMA ReserveStep ==
    ASSUME CoresAssumption, TypeOK, IInv, NEW a \in {Engine, Reconciler}, Reserve(a)
    PROVE  IInv'
<1> DEFINE victims == {b \in Boxes : Held(b) \cap Pin # {}}
<1>1. /\ Write(Conquered) /\ alloc' = Conquered
      /\ off' = [b \in Boxes |-> off[b] \/ b \in victims]
      /\ hit' = hit \cup {b \in victims : phase[b] # "idle"}
      /\ phase' = [phase EXCEPT ![a] = "shrink"]
      /\ UNCHANGED <<row, pinned, box, grant, thread>>
  BY DEF Reserve, Write, Go, docker, mine, rest
<1> HIDE DEF victims
<1>2. a \notin Boxes
  BY CoresAssumption DEF CoresAssumption
<1>3. TargetsHoldNothing'
  BY <1>1, TargetsFrame DEF IInv
<1>4. ASSUME NEW x \in Boxes PROVE BoxInv(x)'
  <2>1. /\ BoxInv(x) /\ phase'[x] = phase[x] /\ Held(x)' = Held(x) \ Pin
        /\ off'[x] = (off[x] \/ x \in victims) /\ (x \in hit => x \in hit')
    BY <1>1, <1>2, HeldAfter DEF IInv, TypeOK
  <2>2. CASE x \in victims
    <3>1. phase[x] # "share" /\ (phase[x] = "run" => x \in hit')
      BY <1>1, <2>1, <2>2 DEF victims, BoxInv
    <3> QED
      BY <1>1, <2>1, <2>2, <3>1 DEF BoxInv, Still, Deploying
  <2>3. CASE x \notin victims
    <3>1. Held(x)' = Held(x) /\ (off[x] => off'[x])
      BY <2>1, <2>3 DEF victims, TypeOK
    <3> QED
      BY <1>1, <2>1, <2>3, <3>1, BoxFrame DEF victims
  <2> QED
    BY <2>2, <2>3
<1> QED
  BY <1>3, <1>4 DEF IInv

(* A measure sees who has no reservation, and excuses or nothing. *)
LEMMA MeasureStep ==
    ASSUME CoresAssumption, TypeOK, IInv, NEW t \in Threads, Measure(t)
    PROVE  IInv'
<1>1. PICK T \in SUBSET {g \in Holders : row[g] = "live" /\ Held(g) = {}} :
        /\ thread' = [thread EXCEPT ![t] = IF T = {} THEN AtRest
                        ELSE [phase |-> "update", want |-> Shareable(pool, Free), targets |-> T]]
        /\ current' = IF T = {} THEN current ELSE current \cup {t}
  BY DEF Measure
<1>2. /\ UNCHANGED <<alloc, row, pinned, box, phase, grant, hit>>
      /\ \A b \in Boxes : off[b] => off'[b]
  BY DEF Measure, tables, docker, mine
<1>3. TargetsHoldNothing'
  <2> SUFFICES ASSUME NEW s \in Threads, s \in current', thread'[s].phase = "update",
                      NEW h \in thread'[s].targets
               PROVE  Held(h)' = {}
    BY DEF TargetsHoldNothing
  <2>1. Held(h)' = Held(h)
    BY <1>2 DEF Held
  <2>2. CASE s = t
    <3>1. thread'[t] = IF T = {} THEN AtRest
                        ELSE [phase |-> "update", want |-> Shareable(pool, Free), targets |-> T]
      BY <1>1 DEF TypeOK
    <3>2. h \in T
      BY <2>2, <3>1 DEF AtRest
    <3> QED
      BY <1>1, <2>1, <3>2
  <2>3. CASE s # t
    <3>1. thread'[s] = thread[s] /\ s \in current
      BY <1>1, <2>3 DEF TypeOK
    <3> QED
      BY <2>1, <3>1 DEF IInv, TargetsHoldNothing
  <2> QED
    BY <2>2, <2>3
<1>4. ASSUME NEW x \in Boxes PROVE BoxInv(x)'
  BY <1>2, HeldAfter, BoxFrame DEF IInv
<1> QED
  BY <1>3, <1>4 DEF IInv

(* docker update: of a container that holds nothing while the measure is   *)
(* current.                                                                *)
LEMMA UpdateStep ==
    ASSUME CoresAssumption, TypeOK, IInv, NEW t \in Threads, Update(t)
    PROVE  IInv'
<1>1. PICK h \in thread[t].targets, done \in BOOLEAN :
        /\ thread' = [thread EXCEPT ![t] = IF thread[t].targets \ {h} = {} THEN AtRest
                       ELSE [phase |-> "update", want |-> thread[t].want,
                             targets |-> thread[t].targets \ {h}]]
        /\ current' = IF thread[t].targets \ {h} = {} THEN current \ {t} ELSE current
        /\ done => box[h] # {}
        /\ box' = IF done THEN [box EXCEPT ![h] = thread[t].want] ELSE box
        /\ off' = [b \in Boxes |-> IF b = h /\ phase[b] = "idle"
                      THEN ~done \/ t \notin current \/ (pinned[b] # {} /\ off[b])
                      ELSE off[b]]
  BY DEF Update
<1>2. /\ UNCHANGED <<alloc, row, pinned, phase, grant, hit>> /\ thread[t].phase = "update"
  BY DEF Update, tables, mine
<1>3. TargetsHoldNothing'
  <2> SUFFICES ASSUME NEW s \in Threads, s \in current', thread'[s].phase = "update",
                      NEW g \in thread'[s].targets
               PROVE  Held(g)' = {}
    BY DEF TargetsHoldNothing
  <2>1. Held(g)' = Held(g)
    BY <1>2 DEF Held
  <2>2. s \in current /\ thread[s].phase = "update" /\ g \in thread[s].targets
    <3>1. CASE s = t
      <4>1. thread'[t] = IF thread[t].targets \ {h} = {} THEN AtRest
                         ELSE [phase |-> "update", want |-> thread[t].want,
                               targets |-> thread[t].targets \ {h}]
        BY <1>1 DEF TypeOK
      <4> QED
        BY <1>1, <1>2, <3>1, <4>1 DEF AtRest
    <3>2. CASE s # t
      BY <1>1, <3>2 DEF TypeOK
    <3> QED
      BY <3>1, <3>2
  <2> QED
    BY <2>1, <2>2 DEF IInv, TargetsHoldNothing
<1>4. ASSUME NEW x \in Boxes PROVE BoxInv(x)'
  <2>1. BoxInv(x) /\ Held(x)' = Held(x)
    BY <1>2, HeldAfter DEF IInv
  <2>2. CASE x # h \/ ~done
    <3>1. box'[x] = box[x]
      BY <1>1, <2>2 DEF TypeOK
    <3>2. CASE x = h /\ phase[x] = "idle"
      <4>1. off'[x]
        BY <1>1, <2>2, <3>2
      <4> QED
        BY <1>2, <2>1, <3>1, <4>1 DEF BoxInv, Still
    <3>3. CASE ~(x = h /\ phase[x] = "idle")
      <4>1. off'[x] = off[x]
        BY <1>1, <3>3
      <4> QED
        BY <1>2, <2>1, <3>1, <4>1, BoxFrame
    <3> QED
      BY <3>2, <3>3
  <2>3. CASE x = h /\ done
    <3>1. box[x] # {}
      BY <1>1, <2>3
    <3>2. CASE phase[x] # "idle"
      BY <1>2, <2>1, <3>1, <3>2 DEF BoxInv, Still
    <3>3. CASE phase[x] = "idle"
      <4>1. off'[x] = (t \notin current \/ (pinned[x] # {} /\ off[x]))
        BY <1>1, <2>3, <3>3
      <4>2. ASSUME ~off'[x], row[x] = "live" PROVE Held(x) = {} /\ pinned[x] = {}
        <5>1. Held(x) = {}
          BY <1>1, <1>2, <2>3, <4>1, <4>2 DEF IInv, TargetsHoldNothing
        <5>2. pinned[x] # {} => Still(x)
          BY <3>1, <3>3, <4>1, <4>2 DEF Still
        <5> QED
          BY <2>1, <5>1, <5>2 DEF BoxInv
      <4> QED
        BY <1>2, <2>1, <3>1, <3>3, <4>2 DEF BoxInv, Still
    <3> QED
      BY <3>2, <3>3
  <2> QED
    BY <2>2, <2>3
<1> QED
  BY <1>3, <1>4 DEF IInv

(* The invariant of TableIsTruth, inductive along with the types.          *)
LEMMA IInvHolds == ASSUME CoresAssumption PROVE Spec => []IInv
<1>1. Init => IInv
  <2> SUFFICES ASSUME Init PROVE IInv
    OBVIOUS
  <2>1. \A b \in Boxes : row[b] = "none" /\ phase[b] = "idle" /\ box[b] = {}
    BY CoresAssumption DEF Init, CoresAssumption
  <2>2. \A b \in Boxes : BoxInv(b)
    BY <2>1 DEF BoxInv, Still, Deploying
  <2>3. TargetsHoldNothing
    BY DEF Init, TargetsHoldNothing
  <2> QED
    BY <2>2, <2>3 DEF IInv
<1>2. TypeOK /\ IInv /\ [Next]_vars => IInv'
  <2> SUFFICES ASSUME TypeOK, IInv, [Next]_vars PROVE IInv'
    OBVIOUS
  <2>1. CASE UNCHANGED vars
    <3>1. /\ UNCHANGED <<alloc, row, pinned, box, phase, grant, thread, current, off, hit>>
      BY <2>1 DEF vars, tables, docker, mine, rest, history
    <3>2. TargetsHoldNothing'
      BY <3>1, TargetsKept DEF IInv
    <3>3. \A x \in Boxes : BoxInv(x)'
      BY <3>1, HeldAfter, BoxFrame DEF IInv
    <3> QED
      BY <3>2, <3>3 DEF IInv
  <2>2. CASE \E h \in Holders : Destroy(h) \/ Remove(h) \/ Forget(h)
    BY <2>2, LifeStep
  <2>3. ASSUME NEW b \in Boxes,
               \/ Create(b) \/ Deploy(b) \/ List(b) \/ Purge(b) \/ Allocate(b) \/ Share(b)
               \/ Run(b) \/ Conforming(b) \/ GiveUp(b)
        PROVE  IInv'
    BY <2>3, LifeStep, DeployStep, PurgeStep, AllocateStep, ShareStep, EndsStep
  <2>4. CASE EngineDeploy \/ Inspect \/ Compare \/ Launch
    BY <2>4, EngineStep
  <2>5. ASSUME NEW a \in {Engine, Reconciler}, Reserve(a) \/ Shrink(a) PROVE IInv'
    BY <2>5, EngineStep, ReserveStep
  <2>6. ASSUME NEW t \in Threads, Measure(t) \/ Update(t) PROVE IInv'
    BY <2>6, MeasureStep, UpdateStep
  <2> QED
    BY <2>1, <2>2, <2>3, <2>4, <2>5, <2>6 DEF Next
<1> QED
  BY <1>1, <1>2, TypeCorrect, PTL DEF Spec

(* The reservation, the pinned cores of the database and the cpuset agree  *)
(* whenever nobody works on the container, whatever deployments, purges,   *)
(* evictions and reapplications do meanwhile.                              *)
THEOREM TableIsTruthHolds == ASSUME CoresAssumption PROVE Spec => []TableIsTruth
<1>1. IInv => TableIsTruth
  BY DEF IInv, BoxInv, TableIsTruth
<1> QED
  BY <1>1, IInvHolds, PTL

(***************************************************************************)
(* Dedicated means dedicated: the invariant.                               *)
(***************************************************************************)
(* No core of S is c, nor its sibling if siblings are reserved too.        *)
Apart(S, c) == \A d \in S : d # c /\ (ReservePhysical => Phys[d] # Phys[c])

(* A reapplication that has not measured yet, or is about to be started by *)
(* a reservation for the engine.                                           *)
Coming ==
    \/ \E t \in Threads : thread[t].phase = "due"
    \/ \E a \in {Engine, Reconciler} : phase[a] = "shrink"

(* One that has measured, and will come to b.                              *)
Awaits(b) == \E t \in Threads : thread[t].phase = "update" /\ b \in thread[t].targets

(* A deployment that will start one when it runs its container, or that    *)
(* ends excused.                                                           *)
Pending(o) == phase[o] = "run" /\ (o \in hit \/ spec[o] # Signed(o) \/ box[o] = {})

Shared(b) == Still(b) /\ pinned[b] = {}
Counts(c) == alloc[c] # Free /\ (alloc[c] \in Boxes => ~off[alloc[c]])
Settled(b, c) ==
    \/ Apart(box[b], c) \/ Coming \/ Awaits(b)
    \/ alloc[c] \in Boxes /\ Pending(alloc[c])

(* A shared container is off the reserved cores, or somebody will come to  *)
(* move it: nothing is left to do once everything is at rest.              *)
Parted == \A b \in Boxes, c \in Cores : Shared(b) /\ Counts(c) => Settled(b, c)

(* A cpuset that is still current avoids what is reserved.                 *)
CurrentIsApart ==
    /\ \A b \in Boxes \cap current :
         /\ phase[b] = "run" /\ pinned[b] = {}
         /\ b \in hit \/ \A c \in Cores : alloc[c] \notin {b, Free} => Apart(grant[b], c)
    /\ \A t \in Threads \cap current :
         /\ thread[t].phase = "update"
         /\ \A c \in Cores : alloc[c] # Free => Apart(thread[t].want, c)

HeldIsPinned == \A b \in Boxes : Held(b) \subseteq pinned[b]

DInv == Parted /\ CurrentIsApart /\ HeldIsPinned

(* Shareable does what it says. *)
LEMMA ShareableApart ==
    ASSUME TypeOK, NEW P \in SUBSET Cores, NEW b, NEW c \in Cores, alloc[c] \notin {b, Free}
    PROVE  Apart(Shareable(P, b), c)
BY DEF Shareable, PhysOf, Apart

(* What is taken from the table leaves the cpusets apart from the rest. *)
LEMMA CurrentFrame ==
    ASSUME CurrentIsApart, current' \subseteq current,
           UNCHANGED alloc \/ current' = {},
           \A b \in Boxes : phase[b] = "run" /\ b \in current' =>
               /\ phase'[b] = phase[b] /\ pinned'[b] = pinned[b] /\ grant'[b] = grant[b]
               /\ b \in hit => b \in hit',
           \A t \in Threads : thread[t].phase = "update" /\ t \in current' => thread'[t] = thread[t]
    PROVE  CurrentIsApart'
<1>1. CASE current' = {}
  BY <1>1 DEF CurrentIsApart
<1>2. CASE UNCHANGED alloc
  <2>1. ASSUME NEW b \in Boxes \cap current'
        PROVE  /\ phase'[b] = "run" /\ pinned'[b] = {}
               /\ b \in hit' \/ \A c \in Cores : alloc'[c] \notin {b, Free} => Apart(grant'[b], c)
    <3>1. b \in Boxes \cap current
      OBVIOUS
    <3>2. /\ phase[b] = "run" /\ pinned[b] = {}
          /\ b \in hit \/ \A c \in Cores : alloc[c] \notin {b, Free} => Apart(grant[b], c)
      BY <3>1 DEF CurrentIsApart
    <3>3. /\ phase'[b] = phase[b] /\ pinned'[b] = pinned[b] /\ grant'[b] = grant[b]
          /\ b \in hit => b \in hit'
      BY <3>2
    <3> QED
      BY <1>2, <3>2, <3>3
  <2>2. ASSUME NEW t \in Threads \cap current'
        PROVE  /\ thread'[t].phase = "update"
               /\ \A c \in Cores : alloc'[c] # Free => Apart(thread'[t].want, c)
    <3>1. t \in Threads \cap current
      OBVIOUS
    <3>2. /\ thread[t].phase = "update"
          /\ \A c \in Cores : alloc[c] # Free => Apart(thread[t].want, c)
      BY <3>1 DEF CurrentIsApart
    <3> QED
      BY <1>2, <3>2
  <2> QED
    BY <2>1, <2>2 DEF CurrentIsApart, Apart
<1> QED
  BY <1>1, <1>2

(* A step that reserves nothing, of an actor that is not at the end of a   *)
(* deployment nor of a reservation.                                        *)
LEMMA QuietFrame ==
    ASSUME CoresAssumption, Parted, NEW h \in Actors,
           phase[h] # "run", phase[h] = "shrink" => h \in Boxes,
           h \in Boxes => ~Shared(h)',
           \A c \in Cores : alloc'[c] \in {alloc[c], Free},
           \A a \in Actors : a # h => phase'[a] = phase[a],
           \A x \in Boxes : x # h =>
               /\ row'[x] = row[x] /\ box'[x] = box[x] /\ pinned'[x] = pinned[x]
               /\ spec'[x] = spec[x] /\ grant'[x] = grant[x]
               /\ x \in hit => x \in hit',
           UNCHANGED off,
           \A t \in Threads : thread[t].phase \in {"due", "update"} => thread'[t] = thread[t]
    PROVE  Parted'
<1> SUFFICES ASSUME NEW b \in Boxes, NEW c \in Cores, Shared(b)', Counts(c)'
             PROVE  Settled(b, c)'
  BY DEF Parted
<1>1. b # h
  OBVIOUS
<1>2. Shared(b)
  BY <1>1 DEF Shared, Still
<1>3. alloc'[c] = alloc[c] /\ Counts(c)
  BY DEF Counts
<1>4. Settled(b, c)
  BY <1>2, <1>3 DEF Parted
<1>5. box'[b] = box[b]
  BY <1>1
<1>6. Coming => Coming'
  <2>1. ASSUME NEW a \in {Engine, Reconciler}, phase[a] = "shrink" PROVE phase'[a] = "shrink"
    BY <2>1, CoresAssumption DEF CoresAssumption
  <2>2. ASSUME NEW t \in Threads, thread[t].phase = "due" PROVE thread'[t].phase = "due"
    BY <2>2
  <2> QED
    BY <2>1, <2>2 DEF Coming
<1>7. Awaits(b) => Awaits(b)'
  <2>1. ASSUME NEW t \in Threads, thread[t].phase = "update" PROVE thread'[t] = thread[t]
    BY <2>1
  <2> QED
    BY <2>1 DEF Awaits
<1>8. ASSUME NEW o \in Boxes, Pending(o) PROVE Pending(o)'
  <2>1. o # h
    BY <1>8 DEF Pending
  <2> QED
    BY <1>8, <2>1 DEF Pending, Signed
<1> QED
  BY <1>3, <1>4, <1>5, <1>6, <1>7, <1>8 DEF Settled, Apart

LEMMA QuietStep ==
    ASSUME CoresAssumption, TypeOK, DInv, NEW h \in Actors,
           phase[h] # "run", phase[h] = "shrink" => h \in Boxes,
           h \in Boxes => ~Shared(h)',
           \/ UNCHANGED <<alloc, current>>
           \/ \E H \in SUBSET Holders : Write(Released(H)),
           \A a \in Actors : a # h => phase'[a] = phase[a],
           \A x \in Boxes : x # h =>
               row'[x] = row[x] /\ box'[x] = box[x] /\ spec'[x] = spec[x],
           UNCHANGED <<pinned, grant, off, hit>>,
           \A t \in Threads : thread[t].phase \in {"due", "update"} => thread'[t] = thread[t]
    PROVE  DInv'
<1>1. /\ UNCHANGED alloc \/ \E H \in SUBSET Holders : alloc' = Released(H)
      /\ current' \subseteq current
      /\ UNCHANGED alloc \/ current' = {}
  BY DEF Write
<1>2. \A c \in Cores : alloc'[c] \in {alloc[c], Free}
  BY <1>1 DEF Released
<1>3. Parted'
  BY <1>2, QuietFrame DEF DInv
<1>4. CurrentIsApart'
  <2>1. \A b \in Boxes : phase[b] = "run" => phase'[b] = phase[b]
    OBVIOUS
  <2> QED
    BY <1>1, <2>1, CurrentFrame DEF DInv
<1>5. HeldIsPinned'
  <2>1. \A x \in Boxes : Held(x)' \subseteq Held(x)
    BY <1>1, HeldAfter
  <2> QED
    BY <2>1 DEF DInv, HeldIsPinned
<1> QED
  BY <1>3, <1>4, <1>5 DEF DInv

(* Threads begun are new ones. *)
LEMMA BeginFrame ==
    ASSUME TypeOK, NEW job, Begin(job)
    PROVE  \A t \in Threads : thread[t].phase # "idle" => thread'[t] = thread[t]
BY DEF Begin, TypeOK

LEMMA StartComes == ASSUME TypeOK, Start PROVE Coming'
<1>1. PICK t \in Threads : thread' = [thread EXCEPT ![t] = Due]
  BY DEF Start, Begin
<1>2. thread'[t].phase = "due"
  BY <1>1 DEF TypeOK, Due
<1> QED
  BY <1>2 DEF Coming

(* Creation, destruction, the beginning of a deployment, the steps of the  *)
(* engine that reserve nothing.                                            *)
LEMMA LifeParted ==
    ASSUME CoresAssumption, TypeOK, IInv, DInv,
           \/ \E b \in Boxes : Create(b) \/ Deploy(b) \/ List(b) \/ Purge(b)
           \/ \E h \in Holders : Destroy(h) \/ Remove(h) \/ Forget(h)
           \/ EngineDeploy \/ Inspect \/ Compare \/ Launch
    PROVE  DInv'
<1> USE DEF Go, tables, docker, mine, rest, history
<1>1. ASSUME NEW b \in Boxes, Create(b) PROVE DInv'
  <2>1. /\ row[b] = "none" /\ row' = [row EXCEPT ![b] = "live"]
        /\ UNCHANGED <<alloc, current, phase, box, spec, pinned, grant, off, hit, thread>>
    BY <1>1 DEF Create
  <2>2. phase[b] # "run" /\ box'[b] = {}
    BY <2>1 DEF IInv, BoxInv, Deploying
  <2>3. ~Shared(b)' /\ \A x \in Boxes : x # b => row'[x] = row[x]
    BY <2>1, <2>2 DEF Shared, Still, TypeOK
  <2> QED
    BY <2>1, <2>2, <2>3, QuietStep
<1>2. ASSUME NEW b \in Boxes, Deploy(b) \/ List(b) \/ Purge(b) PROVE DInv'
  <2>1. /\ phase[b] \in {"idle", "list", "purge"}
        /\ \E there \in {"list", "share", "purge", "allocate"} : phase' = [phase EXCEPT ![b] = there]
        /\ UNCHANGED <<row, box, spec, pinned, grant, off, hit, thread>>
    BY <1>2 DEF Deploy, List, Purge
  <2>2. \/ UNCHANGED <<alloc, current>>
        \/ \E H \in SUBSET Holders : Write(Released(H))
    <3>1. CASE Deploy(b)
      BY <3>1 DEF Deploy, Write
    <3>2. CASE List(b)
      BY <3>2 DEF List
    <3>3. CASE Purge(b)
      BY <3>3 DEF Purge, TypeOK
    <3> QED
      BY <1>2, <3>1, <3>2, <3>3
  <2>3. phase'[b] # "idle" /\ \A a \in Actors : a # b => phase'[a] = phase[a]
    BY <2>1 DEF TypeOK
  <2> QED
    BY <2>1, <2>2, <2>3, QuietStep DEF Shared, Still
<1>3. ASSUME NEW h \in Holders, Destroy(h) \/ Remove(h) \/ Forget(h) PROVE DInv'
  <2>1. /\ phase[h] \in {"idle", "remove", "forget"}
        /\ \A a \in Actors : a # h => phase'[a] = phase[a]
        /\ \A x \in Holders : x # h => row'[x] = row[x] /\ box'[x] = box[x]
        /\ UNCHANGED <<spec, pinned, grant, off, hit>>
    BY <1>3 DEF Destroy, Remove, Forget, TypeOK
  <2>2. phase'[h] # "idle" \/ row'[h] # "live"
    BY <1>3 DEF Destroy, Remove, Forget, TypeOK
  <2>3. \/ UNCHANGED <<alloc, current>>
        \/ \E H \in SUBSET Holders : Write(Released(H))
    BY <1>3 DEF Destroy, Remove, Forget, Write
  <2>4. \A t \in Threads : thread[t].phase # "idle" => thread'[t] = thread[t]
    <3>1. UNCHANGED thread \/ Begin(Widening)
      BY <1>3 DEF Destroy, Remove, Forget, Widen
    <3> QED
      BY <3>1, BeginFrame
  <2> QED
    BY <2>1, <2>2, <2>3, <2>4, QuietStep DEF Shared, Still
<1>4. ASSUME EngineDeploy \/ Inspect \/ Compare \/ Launch PROVE DInv'
  <2>1. PICK h \in {Engine, Reconciler} :
          /\ phase[h] \in {"idle", "compare", "launch"}
          /\ \A a \in Actors : a # h => phase'[a] = phase[a]
    BY <1>4 DEF EngineDeploy, Inspect, Compare, Launch, TypeOK
  <2>2. /\ UNCHANGED <<alloc, current, row, spec, pinned, grant, off, hit, thread>>
        /\ UNCHANGED box \/ box' = [box EXCEPT ![Engine] = Pin]
    BY <1>4 DEF EngineDeploy, Inspect, Compare, Launch
  <2>3. h \in Actors /\ h \notin Boxes /\ Engine \notin Boxes
    BY CoresAssumption DEF CoresAssumption
  <2>4. \A x \in Boxes : box'[x] = box[x]
    BY <2>2, <2>3 DEF TypeOK
  <2> QED
    BY <2>1, <2>2, <2>3, <2>4, QuietStep
<1> QED
  BY <1>1, <1>2, <1>3, <1>4

(* Cores are given: the deployment will have the others moved, unless it   *)
(* had these cores already.                                                *)
LEMMA GivenParted ==
    ASSUME CoresAssumption, TypeOK, IInv, DInv, NEW b \in Boxes, phase[b] = "allocate",
           UNCHANGED <<row, docker, rest, off>>,
           NEW S \in SUBSET Cores, S = PhysFree(b, S), Dedicated(b, S)
    PROVE  DInv'
<1>1. /\ alloc' = Given(b, S)
      /\ current' \subseteq current /\ (UNCHANGED alloc \/ current' = {})
      /\ UNCHANGED <<row, box, spec, off, thread>>
  BY DEF Dedicated, Write, docker, rest
<1>2. /\ phase'[b] = "run" /\ pinned'[b] = S /\ grant'[b] = S
      /\ \A a \in Actors : a # b => phase'[a] = phase[a]
      /\ \A x \in Boxes : x # b => pinned'[x] = pinned[x] /\ grant'[x] = grant[x]
  BY DEF Dedicated, Go, TypeOK
<1>3. /\ \A x \in Boxes : x \in hit => x \in hit'
      /\ \A x \in Boxes : x # b /\ x \in hit' => x \in hit
      /\ alloc' # alloc /\ box[b] # {} /\ spec[b] = [cores |-> S, dedicated |-> S # {}] => b \in hit'
  BY <1>1 DEF Dedicated
<1>4. Parted'
  <2>1. ~Shared(b)'
    BY <1>2 DEF Shared, Still
  <2>2. CASE alloc' = alloc
    BY <1>1, <1>2, <1>3, <2>1, <2>2, QuietFrame DEF DInv
  <2>3. CASE alloc' # alloc
    <3> SUFFICES ASSUME NEW x \in Boxes, NEW c \in Cores, Shared(x)', Counts(c)'
                 PROVE  Settled(x, c)'
      BY DEF Parted
    <3>1. Pending(b)'
      <4>1. Signed(b)' = [cores |-> S, dedicated |-> S # {}]
        BY <1>2 DEF Signed
      <4> QED
        BY <1>1, <1>2, <1>3, <2>3, <4>1 DEF Pending
    <3>2. CASE alloc'[c] = b
      BY <3>1, <3>2 DEF Settled
    <3>3. CASE alloc'[c] # b
      <4>1. alloc'[c] = alloc[c]
        BY <1>1, <3>3 DEF Given, Counts
      <4>2. Counts(c)
        BY <1>1, <4>1 DEF Counts
      <4>3. x # b /\ Shared(x)
        BY <1>1, <1>2, <2>1 DEF Shared, Still
      <4>4. Settled(x, c)
        BY <4>2, <4>3 DEF DInv, Parted
      <4>5. Coming => Coming'
        BY <1>1, <1>2, CoresAssumption DEF Coming, CoresAssumption
      <4>6. Awaits(x) => Awaits(x)'
        BY <1>1 DEF Awaits
      <4>7. ASSUME NEW o \in Boxes, o # b, Pending(o) PROVE Pending(o)'
        BY <1>1, <1>2, <1>3, <4>7 DEF Pending, Signed
      <4> QED
        BY <1>1, <3>3, <4>1, <4>4, <4>5, <4>6, <4>7 DEF Settled, Apart
    <3> QED
      BY <3>2, <3>3
  <2> QED
    BY <2>2, <2>3
<1>5. CurrentIsApart'
  <2>1. b \notin current
    BY DEF DInv, CurrentIsApart
  <2> QED
    BY <1>1, <1>2, <1>3, <2>1, CurrentFrame DEF DInv
<1>6. HeldIsPinned'
  <2>1. \A x \in Boxes : Held(x)' = IF x = b THEN S ELSE Held(x)
    BY <1>1, HeldAfter
  <2> QED
    BY <1>2, <2>1 DEF DInv, HeldIsPinned
<1> QED
  BY <1>4, <1>5, <1>6 DEF DInv

LEMMA AllocateParted ==
    ASSUME CoresAssumption, TypeOK, IInv, DInv, NEW b \in Boxes, Allocate(b) PROVE DInv'
<1>1. phase[b] = "allocate" /\ UNCHANGED <<row, docker, rest, off>>
  BY AllocateCases
<1>2. CASE \E S \in SUBSET Cores : S = PhysFree(b, S) /\ Dedicated(b, S)
  BY <1>1, <1>2, GivenParted
<1>3. CASE Refused(b, alloc) \/ Refused(b, Released({b}))
  <2>1. /\ phase'[b] = "share" /\ \A a \in Actors : a # b => phase'[a] = phase[a]
        /\ UNCHANGED <<grant, pinned, hit>>
    BY <1>3 DEF Refused, Go, TypeOK
  <2>2. \/ UNCHANGED <<alloc, current>>
        \/ \E H \in SUBSET Holders : Write(Released(H))
    BY <1>3 DEF Refused, Write
  <2>3. ~Shared(b)'
    BY <2>1 DEF Shared, Still
  <2> QED
    BY <1>1, <2>1, <2>2, <2>3, QuietStep DEF docker, rest
<1> QED
  BY <1>2, <1>3, AllocateCases

LEMMA ShareParted ==
    ASSUME CoresAssumption, TypeOK, IInv, DInv, NEW b \in Boxes, Share(b) PROVE DInv'
<1> DEFINE shared == Shareable(known[b], b)
<1>1. /\ phase[b] = "share" /\ phase' = [phase EXCEPT ![b] = "run"]
      /\ grant' = [grant EXCEPT ![b] = IF shared = {} THEN known[b] ELSE shared]
      /\ pinned' = [pinned EXCEPT ![b] = {}]
      /\ current' = current \cup {b}
      /\ hit' = IF shared = {} THEN hit \cup {b} ELSE hit
      /\ UNCHANGED <<alloc, row, box, spec, thread, off>>
  BY DEF Share, Go, docker, rest
<1>2. \A c \in Cores : alloc[c] \notin {b, Free} => Apart(shared, c)
  BY ShareableApart DEF TypeOK
<1> HIDE DEF shared
<1>3. /\ phase'[b] = "run" /\ pinned'[b] = {}
      /\ b \in hit' \/ grant'[b] = shared
      /\ \A a \in Actors : a # b => phase'[a] = phase[a]
      /\ \A x \in Boxes : x # b => pinned'[x] = pinned[x] /\ grant'[x] = grant[x]
      /\ \A x \in Boxes : x \in hit => x \in hit'
  BY <1>1 DEF TypeOK
<1>4. Parted'
  <2>1. ~Shared(b)'
    BY <1>3 DEF Shared, Still
  <2> QED
    BY <1>1, <1>3, <2>1, QuietFrame DEF DInv
<1>5. CurrentIsApart'
  <2>1. ASSUME NEW x \in Boxes \cap current'
        PROVE  /\ phase'[x] = "run" /\ pinned'[x] = {}
               /\ x \in hit' \/ \A c \in Cores : alloc'[c] \notin {x, Free} => Apart(grant'[x], c)
    <3>1. CASE x = b
      BY <1>1, <1>2, <1>3, <3>1
    <3>2. CASE x # b
      <4>1. x \in Boxes \cap current
        BY <1>1, <3>2
      <4>2. /\ phase[x] = "run" /\ pinned[x] = {}
            /\ x \in hit \/ \A c \in Cores : alloc[c] \notin {x, Free} => Apart(grant[x], c)
        BY <4>1 DEF DInv, CurrentIsApart
      <4> QED
        BY <1>1, <1>3, <3>2, <4>2
    <3> QED
      BY <3>1, <3>2
  <2>2. ASSUME NEW t \in Threads \cap current'
        PROVE  /\ thread'[t].phase = "update"
               /\ \A c \in Cores : alloc'[c] # Free => Apart(thread'[t].want, c)
    <3>1. t \in Threads \cap current
      BY <1>1, CoresAssumption DEF CoresAssumption
    <3>2. /\ thread[t].phase = "update"
          /\ \A c \in Cores : alloc[c] # Free => Apart(thread[t].want, c)
      BY <3>1 DEF DInv, CurrentIsApart
    <3> QED
      BY <1>1, <3>2
  <2> QED
    BY <2>1, <2>2 DEF CurrentIsApart, Apart
<1>6. HeldIsPinned'
  <2>1. Held(b) = {} /\ \A x \in Boxes : Held(x)' = Held(x)
    BY <1>1, HeldAfter DEF IInv, BoxInv
  <2> QED
    BY <1>3, <2>1 DEF DInv, HeldIsPinned
<1> QED
  BY <1>4, <1>5, <1>6 DEF DInv

(* The end of a deployment: the container is on a cpuset still current, or *)
(* excused, or its cores were just reserved and a reapplication begins; or *)
(* nothing has been reserved for it.                                       *)
LEMMA EndParted ==
    ASSUME CoresAssumption, TypeOK, IInv, DInv, NEW b \in Boxes,
           NEW new \in BOOLEAN, NEW ok \in BOOLEAN, End(b, new, ok),
           phase[b] \in {"share", "run"},
           ok => phase[b] = "run",
           new => ok /\ box'[b] = grant[b] /\ (pinned[b] # {} => Start),
           ~new /\ ok => box'[b] = box[b] /\ box[b] # {} /\ spec[b] = Signed(b),
           \A x \in Boxes : x # b => box'[x] = box[x] /\ spec'[x] = spec[x],
           UNCHANGED thread \/ Start
    PROVE  DInv'
<1>1. /\ off'[b] = (~ok \/ b \in hit \/ (pinned[b] = {} /\ b \notin current)
                      \/ (~new /\ (off[b] \/ box[b] # grant[b])))
      /\ hit' = hit \ {b} /\ current' = current \ {b}
      /\ phase' = [phase EXCEPT ![b] = "idle"]
      /\ grant' = [grant EXCEPT ![b] = {}]
      /\ \A x \in Boxes : x # b => off'[x] = off[x]
      /\ UNCHANGED <<alloc, row, pinned>>
  BY DEF End, Finish, Go, tables, TypeOK
<1>2. /\ \A a \in Actors : a # b => phase'[a] = phase[a]
      /\ \A x \in Boxes : x # b => grant'[x] = grant[x]
  BY <1>1 DEF TypeOK
<1>3. \A t \in Threads : thread[t].phase # "idle" => thread'[t] = thread[t]
  BY BeginFrame DEF Start
<1>4. ASSUME NEW x \in Boxes, NEW c \in Cores, Shared(x)', Counts(c)' PROVE Settled(x, c)'
  <2>1. CASE x = b
    <3>1. /\ ok /\ b \notin hit /\ b \in current /\ box'[b] = grant[b] /\ pinned[b] = {}
      BY <1>1, <1>4, <2>1 DEF Shared, Still
    <3>2. Held(b) = {}
      BY <3>1 DEF IInv, BoxInv
    <3>3. alloc[c] \notin {b, Free}
      BY <1>1, <1>4, <3>2 DEF Counts, Held
    <3>4. Apart(grant[b], c)
      BY <3>1, <3>3 DEF DInv, CurrentIsApart
    <3> QED
      BY <2>1, <3>1, <3>4 DEF Settled, Apart
  <2>2. CASE x # b /\ Coming'
    BY <2>2 DEF Settled
  <2>3. CASE x # b /\ ~Coming'
    <3>1. Shared(x)
      BY <1>1, <1>2, <1>4, <2>3 DEF Shared, Still
    <3>2. ~Start /\ UNCHANGED thread
      BY <2>3, StartComes
    <3>3. CASE alloc[c] = b
      <4>1. c \in Held(b) /\ Held(b) \subseteq pinned[b]
        BY <3>3 DEF Held, DInv, HeldIsPinned
      <4>2. ~off'[b]
        BY <1>1, <1>4, <3>3 DEF Counts
      <4>3. ok /\ ~new /\ ~off[b] /\ b \notin hit
        BY <1>1, <3>2, <4>1, <4>2
      <4>4. ~Pending(b) /\ Counts(c)
        BY <1>1, <1>4, <3>3, <4>3 DEF Pending, Counts
      <4>5. Settled(x, c)
        BY <3>1, <4>4 DEF DInv, Parted
      <4>6. Apart(box[x], c) \/ Coming \/ Awaits(x)
        BY <3>3, <4>4, <4>5 DEF Settled
      <4>7. Coming => Coming'
        BY <1>2, <3>2, CoresAssumption DEF Coming, CoresAssumption
      <4> QED
        BY <2>3, <3>2, <4>6, <4>7 DEF Settled, Apart, Awaits
    <3>4. CASE alloc[c] # b
      <4>1. Counts(c)
        BY <1>1, <1>4, <3>4 DEF Counts
      <4>2. Settled(x, c)
        BY <3>1, <4>1 DEF DInv, Parted
      <4>3. Coming => Coming'
        BY <1>2, <3>2, CoresAssumption DEF Coming, CoresAssumption
      <4>4. ASSUME NEW o \in Boxes, o # b, Pending(o) PROVE Pending(o)'
        BY <1>1, <1>2, <4>4 DEF Pending, Signed
      <4> QED
        BY <1>1, <2>3, <3>2, <3>4, <4>2, <4>3, <4>4 DEF Settled, Apart, Awaits
    <3> QED
      BY <3>3, <3>4
  <2> QED
    BY <2>1, <2>2, <2>3
<1>5. CurrentIsApart'
  <2>1. \A x \in Boxes : x \in current' => x # b
    BY <1>1
  <2> QED
    BY <1>1, <1>2, <1>3, <2>1, CurrentFrame DEF DInv
<1>6. HeldIsPinned'
  BY <1>1, HeldAfter DEF DInv, HeldIsPinned
<1> QED
  BY <1>4, <1>5, <1>6 DEF DInv, Parted

LEMMA EndsParted ==
    ASSUME CoresAssumption, TypeOK, IInv, DInv, NEW b \in Boxes, Run(b) \/ Conforming(b) \/ GiveUp(b)
    PROVE  DInv'
<1>1. CASE Run(b)
  <2>1. /\ phase[b] = "run" /\ End(b, TRUE, TRUE)
        /\ box' = [box EXCEPT ![b] = grant[b]] /\ spec' = [spec EXCEPT ![b] = Signed(b)]
        /\ IF pinned[b] = {} THEN UNCHANGED thread ELSE Start
    BY <1>1 DEF Run
  <2>2. box'[b] = grant[b] /\ \A x \in Boxes : x # b => box'[x] = box[x] /\ spec'[x] = spec[x]
    BY <2>1 DEF TypeOK
  <2> QED
    BY <2>1, <2>2, EndParted
<1>2. CASE Conforming(b)
  <2>1. /\ phase[b] = "run" /\ spec[b] = Signed(b) /\ box[b] # {}
        /\ End(b, FALSE, TRUE) /\ UNCHANGED <<box, spec, thread>>
    BY <1>2 DEF Conforming, docker
  <2> QED
    BY <2>1, EndParted
<1>3. CASE GiveUp(b)
  <2>1. /\ phase[b] \in {"share", "run"} /\ End(b, FALSE, FALSE) /\ UNCHANGED thread
        /\ \/ UNCHANGED <<box, spec>>
           \/ box' = [box EXCEPT ![b] = {}] /\ spec' = [spec EXCEPT ![b] = Unsigned]
    BY <1>3 DEF GiveUp, docker
  <2>2. \A x \in Boxes : x # b => box'[x] = box[x] /\ spec'[x] = spec[x]
    BY <2>1 DEF TypeOK
  <2> QED
    BY <2>1, <2>2, EndParted
<1> QED
  BY <1>1, <1>2, <1>3

(* A reservation for the engine is followed by a reapplication. *)
LEMMA ReserveParted ==
    ASSUME CoresAssumption, TypeOK, IInv, DInv, NEW a \in {Engine, Reconciler}, Reserve(a) PROVE DInv'
<1>1. /\ alloc' = Conquered /\ phase' = [phase EXCEPT ![a] = "shrink"]
      /\ current' \subseteq current /\ (UNCHANGED alloc \/ current' = {})
      /\ \A b \in Boxes : b \in hit => b \in hit'
      /\ UNCHANGED <<pinned, grant, thread>>
  BY DEF Reserve, Write, Go, tables, mine, rest
<1>2. a \notin Boxes /\ phase'[a] = "shrink"
  BY <1>1, CoresAssumption DEF CoresAssumption, TypeOK
<1>3. Parted'
  BY <1>2 DEF Parted, Settled, Coming
<1>4. CurrentIsApart'
  <2>1. \A b \in Boxes : phase'[b] = phase[b]
    BY <1>1, <1>2 DEF TypeOK
  <2> QED
    BY <1>1, <2>1, CurrentFrame DEF DInv
<1>5. HeldIsPinned'
  <2>1. \A x \in Boxes : Held(x)' = Held(x) \ Pin
    BY <1>1, HeldAfter
  <2> QED
    BY <1>1, <2>1 DEF DInv, HeldIsPinned
<1> QED
  BY <1>3, <1>4, <1>5 DEF DInv

LEMMA ShrinkParted ==
    ASSUME CoresAssumption, TypeOK, IInv, DInv, NEW a \in {Engine, Reconciler}, Shrink(a) PROVE DInv'
<1>1. /\ Start /\ phase[a] = "shrink"
      /\ \E there : phase' = [phase EXCEPT ![a] = there]
      /\ current' \in {current, {}}
      /\ UNCHANGED <<alloc, pinned, grant, hit>>
  BY DEF Shrink, Go
<1>2. a \notin Boxes
  BY CoresAssumption DEF CoresAssumption
<1>3. Parted'
  BY <1>1, StartComes DEF Parted, Settled
<1>4. CurrentIsApart'
  <2>1. \A b \in Boxes : phase'[b] = phase[b]
    BY <1>1, <1>2 DEF TypeOK
  <2>2. \A t \in Threads : thread[t].phase # "idle" => thread'[t] = thread[t]
    BY <1>1, BeginFrame DEF Start
  <2> QED
    BY <1>1, <2>1, <2>2, CurrentFrame DEF DInv
<1>5. HeldIsPinned'
  BY <1>1, HeldAfter DEF DInv, HeldIsPinned
<1> QED
  BY <1>3, <1>4, <1>5 DEF DInv

(* A measure finds every shared container on what it may use, or will come *)
(* to it; when nothing is left to share, it excuses.                       *)
LEMMA MeasureParted ==
    ASSUME CoresAssumption, TypeOK, IInv, DInv, NEW t \in Threads, Measure(t) PROVE DInv'
<1> DEFINE want == Shareable(pool, Free)
           unreserved == {h \in Holders : row[h] = "live" /\ Held(h) = {}}
           job(T) == IF T = {} THEN AtRest ELSE [phase |-> "update", want |-> want, targets |-> T]
<1>1. PICK T \in SUBSET unreserved :
        /\ \/ thread[t].phase = "due" /\ want # {} /\ T = {h \in unreserved : box[h] # want}
           \/ thread[t].phase = "widen"
           \/ thread[t].phase = "due" /\ want = {}
        /\ thread' = [thread EXCEPT ![t] = job(T)]
        /\ current' = IF T = {} THEN current ELSE current \cup {t}
  BY DEF Measure
<1>2. /\ UNCHANGED <<alloc, row, pinned, box, spec, phase, grant, hit>>
      /\ off' = [b \in Boxes |-> off[b] \/ (want = {} /\ b \in unreserved)]
  BY DEF Measure, tables, docker, mine
<1>3. \A c \in Cores : alloc[c] # Free => Apart(want, c)
  BY ShareableApart DEF TypeOK
<1>4. \A s \in Threads : thread'[s] = IF s = t THEN job(T) ELSE thread[s]
  BY <1>1 DEF TypeOK
<1>5. \A s \in Threads : s # t => (s \in current' <=> s \in current)
  BY <1>1
<1>6. \A x \in Boxes : x \in unreserved <=> row[x] = "live" /\ Held(x) = {}
  OBVIOUS
<1>a. T # {} => job(T).phase = "update" /\ job(T).want = want /\ job(T).targets = T
  OBVIOUS
<1>b. T = {} => job(T) = AtRest
  OBVIOUS
<1>c. T \subseteq unreserved
  OBVIOUS
<1> HIDE DEF want, job
<1>7. ASSUME NEW x \in Boxes, NEW c \in Cores, Shared(x)', Counts(c)' PROVE Settled(x, c)'
  <2>1. Shared(x) /\ Counts(c)
    BY <1>2, <1>7 DEF Shared, Still, Counts, TypeOK
  <2>2. x \in unreserved
    BY <1>6, <2>1 DEF Shared, Still, DInv, HeldIsPinned
  <2>3. want # {}
    BY <1>2, <1>7, <2>2 DEF Shared, Still
  <2>4. Settled(x, c)
    BY <2>1 DEF DInv, Parted
  <2>5. CASE thread[t].phase = "due"
    <3>1. T = {h \in unreserved : box[h] # want}
      BY <1>1, <2>3, <2>5
    <3>2. CASE x \in T
      BY <1>4, <1>a, <3>2 DEF Settled, Awaits
    <3>3. CASE x \notin T
      <4>1. box[x] = want
        BY <2>2, <3>1, <3>3
      <4> QED
        BY <1>2, <1>3, <2>1, <4>1 DEF Settled, Apart, Counts
    <3> QED
      BY <3>2, <3>3
  <2>6. CASE thread[t].phase = "widen"
    <3>1. Coming => Coming'
      <4>1. ASSUME NEW s \in Threads, thread[s].phase = "due" PROVE thread'[s].phase = "due"
        BY <1>4, <2>6, <4>1
      <4> QED
        BY <1>2, <4>1 DEF Coming
    <3>2. Awaits(x) => Awaits(x)'
      <4>1. ASSUME NEW s \in Threads, thread[s].phase = "update" PROVE thread'[s] = thread[s]
        BY <1>4, <2>6, <4>1
      <4> QED
        BY <4>1 DEF Awaits
    <3>3. \A o \in Boxes : Pending(o) => Pending(o)'
      BY <1>2 DEF Pending, Signed
    <3> QED
      BY <1>2, <2>4, <3>1, <3>2, <3>3 DEF Settled, Apart
  <2> QED
    BY <1>1, <2>5, <2>6
<1>8. CurrentIsApart'
  <2>1. ASSUME NEW b \in Boxes \cap current'
        PROVE  /\ phase'[b] = "run" /\ pinned'[b] = {}
               /\ b \in hit' \/ \A c \in Cores : alloc'[c] \notin {b, Free} => Apart(grant'[b], c)
    <3>1. b \in Boxes \cap current
      BY <1>1, CoresAssumption DEF CoresAssumption
    <3>2. /\ phase[b] = "run" /\ pinned[b] = {}
          /\ b \in hit \/ \A c \in Cores : alloc[c] \notin {b, Free} => Apart(grant[b], c)
      BY <3>1 DEF DInv, CurrentIsApart
    <3> QED
      BY <1>2, <3>2
  <2>2. ASSUME NEW s \in Threads \cap current'
        PROVE  /\ thread'[s].phase = "update"
               /\ \A c \in Cores : alloc'[c] # Free => Apart(thread'[s].want, c)
    <3>1. CASE s = t
      <4>1. T # {}
        <5>1. t \notin current
          BY <1>1 DEF DInv, CurrentIsApart
        <5> QED
          BY <1>1, <3>1, <5>1
      <4> QED
        BY <1>2, <1>3, <1>4, <1>a, <3>1, <4>1
    <3>2. CASE s # t
      <4>1. s \in Threads \cap current /\ thread'[s] = thread[s]
        BY <1>4, <1>5, <3>2
      <4>2. /\ thread[s].phase = "update"
            /\ \A c \in Cores : alloc[c] # Free => Apart(thread[s].want, c)
        BY <4>1 DEF DInv, CurrentIsApart
      <4> QED
        BY <1>2, <4>1, <4>2
    <3> QED
      BY <3>1, <3>2
  <2> QED
    BY <2>1, <2>2 DEF CurrentIsApart, Apart
<1>9. HeldIsPinned'
  BY <1>2, HeldAfter DEF DInv, HeldIsPinned
<1> QED
  BY <1>7, <1>8, <1>9 DEF DInv, Parted

(* docker update: on a cpuset still current, or excused. *)
LEMMA UpdateParted ==
    ASSUME CoresAssumption, TypeOK, IInv, DInv, NEW t \in Threads, Update(t) PROVE DInv'
<1>1. PICK h \in thread[t].targets, done \in BOOLEAN :
        /\ thread' = [thread EXCEPT ![t] = IF thread[t].targets \ {h} = {} THEN AtRest
                       ELSE [phase |-> "update", want |-> thread[t].want,
                             targets |-> thread[t].targets \ {h}]]
        /\ current' = IF thread[t].targets \ {h} = {} THEN current \ {t} ELSE current
        /\ done => box[h] # {}
        /\ box' = IF done THEN [box EXCEPT ![h] = thread[t].want] ELSE box
        /\ off' = [b \in Boxes |-> IF b = h /\ phase[b] = "idle"
                      THEN ~done \/ t \notin current \/ (pinned[b] # {} /\ off[b])
                      ELSE off[b]]
  BY DEF Update
<1>2. /\ UNCHANGED <<alloc, row, pinned, spec, phase, grant, hit>> /\ thread[t].phase = "update"
  BY DEF Update, tables, mine
<1>3. /\ thread[t].targets \ {h} # {} =>
            /\ thread'[t].phase = "update" /\ thread'[t].want = thread[t].want
            /\ thread'[t].targets = thread[t].targets \ {h}
      /\ \A s \in Threads : s # t => thread'[s] = thread[s]
  BY <1>1 DEF TypeOK
<1>4. h \in Holders /\ \A x \in Holders : box'[x] = IF done /\ x = h THEN thread[t].want ELSE box[x]
  BY <1>1 DEF TypeOK
<1>5. \A x \in Boxes : off'[x] = IF x = h /\ phase[x] = "idle"
                      THEN ~done \/ t \notin current \/ (pinned[x] # {} /\ off[x])
                      ELSE off[x]
  BY <1>1
<1>6. ASSUME NEW x \in Boxes, NEW c \in Cores, Shared(x)', Counts(c)' PROVE Settled(x, c)'
  <2>1. Counts(c)
    <3>1. ASSUME alloc[c] \in Boxes, off[alloc[c]] PROVE FALSE
      <4>1. ~off'[alloc[c]]
        BY <1>2, <1>6, <3>1 DEF Counts
      <4>2. alloc[c] = h /\ t \in current
        BY <1>5, <3>1, <4>1
      <4>3. Held(h) = {}
        BY <1>2, <4>2 DEF IInv, TargetsHoldNothing
      <4> QED
        BY <4>2, <4>3 DEF Held
    <3> QED
      BY <1>2, <1>6, <3>1 DEF Counts
  <2>2. CASE x = h
    <3>1. phase[x] = "idle" /\ ~off'[x]
      BY <1>2, <1>6 DEF Shared, Still
    <3>2. done /\ t \in current
      BY <1>5, <2>2, <3>1
    <3>3. Apart(thread[t].want, c)
      BY <2>1, <3>2 DEF DInv, CurrentIsApart, Counts
    <3>4. box'[x] = thread[t].want
      BY <1>4, <2>2, <3>2
    <3> QED
      BY <3>3, <3>4 DEF Settled, Apart
  <2>3. CASE x # h
    <3>1. box'[x] = box[x] /\ off'[x] = off[x]
      BY <1>4, <1>5, <2>3
    <3>2. Shared(x)
      BY <1>2, <1>6, <3>1 DEF Shared, Still
    <3>3. Settled(x, c)
      BY <2>1, <3>2 DEF DInv, Parted
    <3>4. Coming => Coming'
      <4>1. ASSUME NEW s \in Threads, thread[s].phase = "due" PROVE thread'[s].phase = "due"
        BY <1>2, <1>3, <4>1
      <4> QED
        BY <1>2, <4>1 DEF Coming
    <3>5. Awaits(x) => Awaits(x)'
      <4>1. ASSUME NEW s \in Threads, thread[s].phase = "update", x \in thread[s].targets
            PROVE  thread'[s].phase = "update" /\ x \in thread'[s].targets
        BY <1>3, <2>3, <4>1
      <4> QED
        BY <4>1 DEF Awaits
    <3>6. ASSUME NEW o \in Boxes, Pending(o) PROVE Pending(o)'
      <4>1. box[o] = {} => box'[o] = {}
        BY <1>1, <1>4
      <4> QED
        BY <1>2, <3>6, <4>1 DEF Pending, Signed
    <3> QED
      BY <1>2, <3>1, <3>3, <3>4, <3>5, <3>6 DEF Settled, Apart
  <2> QED
    BY <2>2, <2>3
<1>7. CurrentIsApart'
  <2>1. ASSUME NEW b \in Boxes \cap current'
        PROVE  /\ phase'[b] = "run" /\ pinned'[b] = {}
               /\ b \in hit' \/ \A c \in Cores : alloc'[c] \notin {b, Free} => Apart(grant'[b], c)
    <3>1. b \in Boxes \cap current
      BY <1>1
    <3>2. /\ phase[b] = "run" /\ pinned[b] = {}
          /\ b \in hit \/ \A c \in Cores : alloc[c] \notin {b, Free} => Apart(grant[b], c)
      BY <3>1 DEF DInv, CurrentIsApart
    <3> QED
      BY <1>2, <3>2
  <2>2. ASSUME NEW s \in Threads \cap current'
        PROVE  /\ thread'[s].phase = "update"
               /\ \A c \in Cores : alloc'[c] # Free => Apart(thread'[s].want, c)
    <3>1. s \in Threads \cap current
      BY <1>1
    <3>2. /\ thread[s].phase = "update"
          /\ \A c \in Cores : alloc[c] # Free => Apart(thread[s].want, c)
      BY <3>1 DEF DInv, CurrentIsApart
    <3>3. s = t => thread[t].targets \ {h} # {}
      BY <1>1
    <3>4. thread'[s].phase = thread[s].phase /\ thread'[s].want = thread[s].want
      BY <1>2, <1>3, <3>3
    <3> QED
      BY <1>2, <3>2, <3>4
  <2> QED
    BY <2>1, <2>2 DEF CurrentIsApart, Apart
<1>8. HeldIsPinned'
  BY <1>2, HeldAfter DEF DInv, HeldIsPinned
<1> QED
  BY <1>6, <1>7, <1>8 DEF DInv, Parted

(* « Dédié doit vouloir dire dédié »: at rest, no shared container is on a *)
(* core that another one has reserved, nor on its sibling if the operator  *)
(* wants it so, in whatever order containers, engine and reapplications    *)
(* came.                                                                   *)
THEOREM DedicatedIsDedicatedHolds ==
    ASSUME CoresAssumption PROVE Spec => []DedicatedIsDedicated
<1>1. Init => DInv
  <2> SUFFICES ASSUME Init PROVE DInv
    OBVIOUS
  <2>1. \A b \in Boxes : box[b] = {} /\ Held(b) = {}
    BY CoresAssumption DEF Init, Held, CoresAssumption
  <2>2. current = {}
    BY DEF Init
  <2> QED
    BY <2>1, <2>2 DEF DInv, Parted, Shared, Still, CurrentIsApart, HeldIsPinned
<1>2. TypeOK /\ IInv /\ DInv /\ [Next]_vars => DInv'
  <2> SUFFICES ASSUME TypeOK, IInv, DInv, [Next]_vars PROVE DInv'
    OBVIOUS
  <2>1. CASE UNCHANGED vars
    <3>1. UNCHANGED <<alloc, row, pinned, box, spec, phase, grant, thread, current, off, hit>>
      BY <2>1 DEF vars, tables, docker, mine, rest, history
    <3>2. HeldIsPinned'
      BY <3>1, HeldAfter DEF DInv, HeldIsPinned
    <3>3. CurrentIsApart'
      BY <3>1, CurrentFrame DEF DInv
    <3>4. Parted'
      BY <3>1 DEF DInv, Parted, Shared, Still, Counts, Settled, Apart, Coming, Awaits, Pending, Signed
    <3> QED
      BY <3>2, <3>3, <3>4 DEF DInv
  <2>2. CASE \E h \in Holders : Destroy(h) \/ Remove(h) \/ Forget(h)
    BY <2>2, LifeParted
  <2>3. ASSUME NEW b \in Boxes,
               \/ Create(b) \/ Deploy(b) \/ List(b) \/ Purge(b) \/ Allocate(b) \/ Share(b)
               \/ Run(b) \/ Conforming(b) \/ GiveUp(b)
        PROVE  DInv'
    BY <2>3, LifeParted, AllocateParted, ShareParted, EndsParted
  <2>4. CASE EngineDeploy \/ Inspect \/ Compare \/ Launch
    BY <2>4, LifeParted
  <2>5. ASSUME NEW a \in {Engine, Reconciler}, Reserve(a) \/ Shrink(a) PROVE DInv'
    BY <2>5, ReserveParted, ShrinkParted
  <2>6. ASSUME NEW t \in Threads, Measure(t) \/ Update(t) PROVE DInv'
    BY <2>6, MeasureParted, UpdateParted
  <2> QED
    BY <2>1, <2>2, <2>3, <2>4, <2>5, <2>6 DEF Next
<1>3. TypeOK /\ DInv => DedicatedIsDedicated
  <2> SUFFICES ASSUME DInv, AllStill, NEW b \in Boxes, Shared(b), NEW c \in Cores, Counts(c)
               PROVE  Apart(box[b], c)
    BY DEF DedicatedIsDedicated, Shared, Counts, Apart
  <2>1. ~Coming /\ ~Awaits(b) /\ \A o \in Boxes : ~Pending(o)
    BY DEF AllStill, AtRest, Coming, Awaits, Pending
  <2> QED
    BY <2>1 DEF DInv, Parted, Settled
<1> QED
  BY <1>1, <1>2, <1>3, TypeCorrect, IInvHolds, PTL DEF Spec
=============================================================================
