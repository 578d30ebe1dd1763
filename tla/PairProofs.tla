----------------------------- MODULE PairProofs -----------------------------
(***************************************************************************)
(* Theorems on the pair of controllers: on their roles and the changes     *)
(* they hold (HaPair), when control is handed over only once the other     *)
(* controller is off or has stopped driving; and on the code that pairs    *)
(* them (HaPairing), whatever claims are repeated or late and wherever an  *)
(* installation is cut.  For any controllers, changes, codes, claims and   *)
(* events.                                                                 *)
(***************************************************************************)
EXTENDS HaPair, HaPairing, FiniteSetTheorems, TLAPS

(***************************************************************************)
(* Roles and changes.                                                      *)
(***************************************************************************)
\* A promotion that passed its guards has a replica to apply.
ReplicaAtHand == \A c \in Controllers : promo[c] = "saved" => staged[c] # NoOne

TypeInv == TypeOK /\ ReplicaAtHand

\* A promotion runs in a passive process, and until the replica replaces the
\* live database everything that database holds is in the safety backup.
PromotionCovered ==
    \A c \in Controllers :
        /\ promo[c] # "idle" => proc[c] = "passive"
        /\ promo[c] = "saved" =>
              db[c].role = "standby" /\ db[c].data \subseteq kept[c]

IInv == TypeInv /\ OneClaim /\ PromotionCovered /\ NothingErased

-----------------------------------------------------------------------------
LEMMA TypeInvInit == Init => TypeInv
  BY HaPairAssumption DEF Init, TypeInv, TypeOK, ReplicaAtHand, Databases, Roles

LEMMA TypeInvStep == TypeInv /\ [Next]_vars => TypeInv'
<1> SUFFICES ASSUME TypeInv, [Next]_vars PROVE TypeInv'
  OBVIOUS
<1> USE HaPairAssumption DEF TypeInv, TypeOK, ReplicaAtHand, Databases, Roles
<1>1. CASE UNCHANGED vars
  BY <1>1 DEF vars
<1>2. ASSUME NEW c \in Controllers, Process(c) PROVE TypeInv'
  <2>1. CASE Boot(c)
    BY <2>1 DEF Boot
  <2>2. CASE RestartFires(c)
    BY <2>2 DEF RestartFires, Stop
  <2>3. CASE Crash(c)
    BY <2>3 DEF Crash, Stop, Event
  <2>4. CASE PowerOff(c)
    BY <2>4 DEF PowerOff, Stop, Event
  <2>5. CASE PowerOn(c)
    BY <2>5 DEF PowerOn
  <2> QED
    BY <1>2, <2>1, <2>2, <2>3, <2>4, <2>5 DEF Process
<1>3. ASSUME NEW c \in Controllers, Replication(c) PROVE TypeInv'
  <2>1. CASE PushSnapshot(c)
    BY <2>1 DEF PushSnapshot
  <2>2. CASE StoreReplica(c)
    BY <2>2 DEF StoreReplica, Up
  <2>3. CASE PushFails(c)
    BY <2>3 DEF PushFails
  <2> QED
    BY <1>3, <2>1, <2>2, <2>3 DEF Replication
<1>4. ASSUME NEW c \in Controllers, NEW x \in Changes, Write(c, x) PROVE TypeInv'
  BY <1>4 DEF Write
<1>5. ASSUME NEW c \in Controllers, Switchover(c) PROVE TypeInv'
  <2>1. CASE PromoteSave(c)
    BY <2>1 DEF PromoteSave, Event
  <2>2. CASE PromoteSwap(c)
    BY <2>2 DEF PromoteSwap
  <2>3. CASE PromoteFinish(c)
    BY <2>3 DEF PromoteFinish
  <2>4. CASE Demote(c)
    BY <2>4 DEF Demote, Event
  <2>5. ASSUME NEW r \in Roles, RoleSet(c, r) PROVE TypeInv'
    BY <2>5 DEF RoleSet, Event
  <2>6. ASSUME NEW p \in (Controllers \ {c}) \cup {NoOne}, SetPeer(c, p) PROVE TypeInv'
    BY <2>6 DEF SetPeer, Event
  <2> QED
    BY <1>5, <2>1, <2>2, <2>3, <2>4, <2>5, <2>6 DEF Switchover
<1> QED
  BY <1>1, <1>2, <1>3, <1>4, <1>5 DEF Next

\* Every state of HaPair has the declared types, whatever the operator's rule:
\* a promotion never installs anything but a complete database (ha.py:402).
THEOREM TypeCorrect == Spec => []TypeOK
<1>1. TypeInv => TypeOK
  BY DEF TypeInv
<1> QED
  BY <1>1, TypeInvInit, TypeInvStep, PTL DEF Spec

-----------------------------------------------------------------------------
(* One driver.  A step of controller c leaves the claim of every other     *)
(* controller as it was, and gives c a claim it had not only where the     *)
(* operator's rule was checked.                                            *)

OnlyByRule(c) ==
    /\ \A d \in Controllers \ {c} : Claims(d)' <=> Claims(d)
    /\ Claims(c)' => Claims(c) \/ MayTakeOver(c)

LEMMA RuleGivesClaim ==
    ASSUME Rule = "stopped", TypeInv, OneClaim, NEW c \in Controllers, OnlyByRule(c)
    PROVE  OneClaim'
<1>1. MayTakeOver(c) => \A d \in Controllers \ {c} : ~Claims(d)
  BY DEF MayTakeOver, Claims
<1> QED
  BY <1>1 DEF OneClaim, OnlyByRule

LEMMA ClaimStep ==
    ASSUME Rule = "stopped", TypeInv, PromotionCovered, OneClaim, [Next]_vars
    PROVE  OneClaim'
<1> USE DEF TypeInv, TypeOK, Databases, Roles
<1>1. CASE UNCHANGED vars
  BY <1>1 DEF vars, OneClaim, Claims
<1>2. ASSUME NEW c \in Controllers, Process(c) PROVE OnlyByRule(c)
  <2> USE DEF OnlyByRule, Claims
  <2>1. CASE Boot(c)
    BY <2>1 DEF Boot
  <2>2. CASE RestartFires(c)
    BY <2>2 DEF RestartFires, Stop
  <2>3. CASE Crash(c)
    BY <2>3 DEF Crash, Stop, Event, Up
  <2>4. CASE PowerOff(c)
    BY <2>4 DEF PowerOff, Stop, Event
  <2>5. CASE PowerOn(c)
    BY <2>5 DEF PowerOn, PromotionCovered
  <2> QED
    BY <1>2, <2>1, <2>2, <2>3, <2>4, <2>5 DEF Process
<1>3. ASSUME NEW c \in Controllers, Replication(c) PROVE OnlyByRule(c)
  BY <1>3 DEF Replication, PushSnapshot, StoreReplica, PushFails, OnlyByRule, Claims
<1>4. ASSUME NEW c \in Controllers, NEW x \in Changes, Write(c, x) PROVE OnlyByRule(c)
  BY <1>4 DEF Write, OnlyByRule, Claims
<1>5. ASSUME NEW c \in Controllers, Switchover(c) PROVE OnlyByRule(c)
  <2> USE DEF OnlyByRule, Claims
  <2>1. CASE PromoteSave(c)
    BY <2>1 DEF PromoteSave, Event
  <2>2. CASE PromoteSwap(c)
    BY <2>2 DEF PromoteSwap, PromotionCovered
  <2>3. CASE PromoteFinish(c)
    BY <2>3 DEF PromoteFinish, PromotionCovered
  <2>4. CASE Demote(c)
    BY <2>4 DEF Demote, Event
  <2>5. ASSUME NEW r \in Roles, RoleSet(c, r) PROVE OnlyByRule(c)
    BY <2>5 DEF RoleSet, Event
  <2>6. ASSUME NEW p \in (Controllers \ {c}) \cup {NoOne}, SetPeer(c, p)
        PROVE  OnlyByRule(c)
    BY <2>6 DEF SetPeer, Event
  <2> QED
    BY <1>5, <2>1, <2>2, <2>3, <2>4, <2>5, <2>6 DEF Switchover
<1> QED
  BY <1>1, <1>2, <1>3, <1>4, <1>5, RuleGivesClaim DEF Next

-----------------------------------------------------------------------------
(* Nothing erased.  A passive controller in standby writes nothing, so the *)
(* backup taken before the replacement covers what the replacement loses.  *)

LEMMA CoveredStep ==
    ASSUME Rule = "stopped", TypeInv, PromotionCovered, [Next]_vars
    PROVE  PromotionCovered'
<1> USE DEF TypeInv, TypeOK, Databases, Roles, PromotionCovered
<1>1. CASE UNCHANGED vars
  BY <1>1 DEF vars
<1>2. ASSUME NEW c \in Controllers, Process(c) PROVE PromotionCovered'
  BY <1>2 DEF Process, Boot, RestartFires, Crash, PowerOff, PowerOn, Stop, Event, Up
<1>3. ASSUME NEW c \in Controllers, Replication(c) PROVE PromotionCovered'
  BY <1>3 DEF Replication, PushSnapshot, StoreReplica, PushFails
<1>4. ASSUME NEW c \in Controllers, NEW x \in Changes, Write(c, x) PROVE PromotionCovered'
  BY <1>4 DEF Write
<1>5. ASSUME NEW c \in Controllers, Switchover(c) PROVE PromotionCovered'
  <2>1. CASE PromoteSave(c)
    BY <2>1 DEF PromoteSave, Event, Settled
  <2>2. CASE PromoteSwap(c)
    BY <2>2 DEF PromoteSwap
  <2>3. CASE PromoteFinish(c)
    BY <2>3 DEF PromoteFinish
  <2>4. CASE Demote(c)
    BY <2>4 DEF Demote, Event
  <2>5. ASSUME NEW r \in Roles, RoleSet(c, r) PROVE PromotionCovered'
    BY <2>5 DEF RoleSet, Event
  <2>6. ASSUME NEW p \in (Controllers \ {c}) \cup {NoOne}, SetPeer(c, p)
        PROVE  PromotionCovered'
    BY <2>6 DEF SetPeer, Event
  <2> QED
    BY <1>5, <2>1, <2>2, <2>3, <2>4, <2>5, <2>6 DEF Switchover
<1> QED
  BY <1>1, <1>2, <1>3, <1>4, <1>5 DEF Next

\* Where each change is to be found: nothing made so far leaves its controller.
Held(c) == db[c].data \cup kept[c]

LEMMA NothingErasedStep ==
    ASSUME TypeInv, PromotionCovered, NothingErased, [Next]_vars
    PROVE  NothingErased'
<1> USE DEF TypeInv, TypeOK, Databases, Roles
<1>1. ASSUME made' = made, \A d \in Controllers : Held(d) \subseteq Held(d)'
      PROVE  NothingErased'
  BY <1>1 DEF NothingErased, Held
<1>2. CASE UNCHANGED vars
  BY <1>1, <1>2 DEF vars, Held
<1>3. ASSUME NEW c \in Controllers, Process(c) PROVE NothingErased'
  BY <1>1, <1>3
     DEF Held, Process, Boot, RestartFires, Crash, PowerOff, PowerOn
<1>4. ASSUME NEW c \in Controllers, Replication(c) PROVE NothingErased'
  BY <1>1, <1>4 DEF Held, Replication, PushSnapshot, StoreReplica, PushFails
<1>5. ASSUME NEW c \in Controllers, NEW x \in Changes, Write(c, x) PROVE NothingErased'
  <2>1. /\ x \in Held(c)'
        /\ \A d \in Controllers : Held(d) \subseteq Held(d)'
    BY <1>5 DEF Write, Held
  <2> QED
    BY <1>5, <2>1 DEF NothingErased, Held, Write
<1>6. ASSUME NEW c \in Controllers, Switchover(c) PROVE NothingErased'
  <2>1. CASE PromoteSave(c)
    BY <1>1, <2>1 DEF PromoteSave, Held
  <2>2. CASE PromoteSwap(c)
    BY <1>1, <2>2 DEF PromoteSwap, PromotionCovered, Held
  <2>3. CASE PromoteFinish(c)
    BY <1>1, <2>3 DEF PromoteFinish, Held
  <2>4. CASE Demote(c)
    BY <1>1, <2>4 DEF Demote, Held
  <2>5. ASSUME NEW r \in Roles, RoleSet(c, r) PROVE NothingErased'
    BY <1>1, <2>5 DEF RoleSet, Held
  <2>6. ASSUME NEW p \in (Controllers \ {c}) \cup {NoOne}, SetPeer(c, p)
        PROVE  NothingErased'
    BY <1>1, <2>6 DEF SetPeer, Held
  <2> QED
    BY <1>6, <2>1, <2>2, <2>3, <2>4, <2>5, <2>6 DEF Switchover
<1> QED
  BY <1>2, <1>3, <1>4, <1>5, <1>6 DEF Next

-----------------------------------------------------------------------------
LEMMA Inductive == ASSUME Rule = "stopped" PROVE Spec => []IInv
<1>1. Init => IInv
  <2>1. Init => TypeInv
    BY TypeInvInit
  <2>2. Init => OneClaim /\ PromotionCovered /\ NothingErased
    BY HaPairAssumption
       DEF Init, OneClaim, Claims, PromotionCovered, NothingErased
  <2> QED
    BY <2>1, <2>2 DEF IInv
<1>2. IInv /\ [Next]_vars => IInv'
  BY TypeInvStep, ClaimStep, CoveredStep, NothingErasedStep DEF IInv
<1> QED
  BY <1>1, <1>2, PTL DEF Spec

\* When control is handed over only to replace a controller that is off or
\* has stopped, no crash, restart, boot or replica ever makes two drive.
THEOREM OneDriverHolds == ASSUME Rule = "stopped" PROVE Spec => []OneDriver
<1>1. IInv => OneDriver
  BY DEF IInv, OneClaim, OneDriver, Claims
<1> QED
  BY <1>1, Inductive, PTL

\* Under the same rule a promotion never destroys a change: it is in a live
\* database of the pair or in one of its pre-promotion backups.
THEOREM NothingErasedHolds == ASSUME Rule = "stopped" PROVE Spec => []NothingErased
<1>1. IInv => NothingErased
  BY DEF IInv
<1> QED
  BY <1>1, Inductive, PTL

(***************************************************************************)
(* Pairing.                                                                *)
(***************************************************************************)
\* What the argument needs of the types.
Typed ==
    /\ issued \in 0..MaxCodes
    /\ offer = [code |-> offer.code, expire |-> offer.expire, failures |-> offer.failures]
    /\ offer.code \in 0..issued
    /\ offer.failures \in Nat /\ (offer.code = NoCode => offer.failures = 0)
    /\ paid \in [Codes -> Nat]
    /\ wrong \in [Codes -> Nat]
    /\ closed \subseteq 1..issued
    /\ \A m \in sealing : m.code \in Codes

\* The open code is not closed and has paid nothing.
OpenIsFresh ==
    Open => /\ offer.code \notin closed
            /\ paid[offer.code] = 0
            /\ wrong[offer.code] = offer.failures
            /\ offer.failures < ECHECS_MAX

\* A code not issued yet has paid nothing and seen no false proof.
FutureIsBlank == \A k \in Codes : k > issued => paid[k] = 0 /\ wrong[k] = 0

\* A package is being sealed for a code closed for good, which has paid
\* nothing and has no other package on the way.
SealingIsLast ==
    /\ \A m \in sealing : m.code \in closed /\ paid[m.code] = 0
    /\ \A m, n \in sealing : m.code = n.code => m = n

PairingInv == Typed /\ OpenIsFresh /\ FutureIsBlank /\ SealingIsLast /\ PaysOnce /\ NoFurtherGuess

LEMMA InitPairingInv == PairingInit => PairingInv
  BY HaPairingAssumption
     DEF PairingInit, PairingInv, Typed, OpenIsFresh, FutureIsBlank, SealingIsLast, PaysOnce,
         NoFurtherGuess, Open, NoOffer, NoCode, Codes

LEMMA StepPairingInv == PairingInv /\ [PairingNext]_pairingVars => PairingInv'
<1> SUFFICES ASSUME PairingInv, [PairingNext]_pairingVars PROVE PairingInv'
  OBVIOUS
<1> USE HaPairingAssumption
<1> USE DEF PairingInv, Typed, OpenIsFresh, FutureIsBlank, SealingIsLast, PaysOnce,
            NoFurtherGuess, Open, NoOffer, NoCode, Codes
<1>1. CASE UNCHANGED pairingVars
  BY <1>1 DEF pairingVars
<1>2. CASE Tick
  BY <1>2 DEF Tick, activeVars, standbyVars
<1>3. CASE Demarrer
  <2>1. Typed'
    BY <1>3 DEF Demarrer, Close, standbyVars
  <2>2. OpenIsFresh'
    BY <1>3 DEF Demarrer, Close, standbyVars
  <2>3. FutureIsBlank'
    BY <1>3 DEF Demarrer, Close, standbyVars
  <2>4. SealingIsLast'
    BY <1>3 DEF Demarrer, Close, standbyVars
  <2>5. PaysOnce'
    BY <1>3 DEF Demarrer, Close, standbyVars
  <2>6. NoFurtherGuess'
    BY <1>3 DEF Demarrer, Close, standbyVars
  <2> QED
    BY <2>1, <2>2, <2>3, <2>4, <2>5, <2>6
<1>4. ASSUME offer' = NoOffer, Close, UNCHANGED <<issued, paid, wrong, claims>>,
             sealing' \subseteq sealing
      PROVE  PairingInv'
  <2>1. Typed'
    BY <1>4 DEF Close
  <2>2. OpenIsFresh'
    BY <1>4 DEF Close
  <2>3. FutureIsBlank'
    BY <1>4 DEF Close
  <2>4. SealingIsLast'
    BY <1>4 DEF Close
  <2>5. PaysOnce'
    BY <1>4 DEF Close
  <2>6. NoFurtherGuess'
    BY <1>4 DEF Close
  <2> QED
    BY <2>1, <2>2, <2>3, <2>4, <2>5, <2>6
<1>5. CASE Annuler \/ ActiveRestarts
  BY <1>4, <1>5 DEF Annuler, ActiveRestarts, standbyVars
<1>6. ASSUME NEW m \in claims, ClaimExpired(m) PROVE PairingInv'
  BY <1>4, <1>6 DEF ClaimExpired, standbyVars
<1>7. ASSUME NEW m \in claims, ClaimRefused(m) PROVE PairingInv'
  <2>1. Typed'
    <3>1. CASE offer.failures + 1 >= ECHECS_MAX
      BY <1>7, <3>1 DEF ClaimRefused, Close, standbyVars
    <3>2. CASE ~(offer.failures + 1 >= ECHECS_MAX)
      <4>1. /\ offer' = [offer EXCEPT !.failures = @ + 1]
            /\ UNCHANGED <<closed, issued, sealing, paid>>
            /\ wrong' = [wrong EXCEPT ![offer.code] = @ + 1]
        BY <1>7, <3>2 DEF ClaimRefused
      <4>2. offer' = [code |-> offer.code, expire |-> offer.expire,
                      failures |-> offer.failures + 1]
        BY <4>1
      <4>3. /\ offer'.code = offer.code
            /\ offer'.expire = offer.expire
            /\ offer'.failures = offer.failures + 1
        BY <4>2
      <4>4. wrong' \in [Codes -> Nat]
        <5>1. wrong \in [Codes -> Nat] /\ offer.code \in Codes
          BY <1>7 DEF ClaimRefused
        <5> HIDE DEF Codes, PairingInv, Open
        <5> QED
          BY ONLY <4>1, <5>1
      <4>5. offer' = [code |-> offer'.code, expire |-> offer'.expire,
                      failures |-> offer'.failures]
        BY <4>2, <4>3
      <4> QED
        BY <4>1, <4>3, <4>4, <4>5
    <3> QED
      BY <3>1, <3>2
  <2>2. OpenIsFresh'
    BY <1>7 DEF ClaimRefused, Close, standbyVars
  <2>3. FutureIsBlank'
    BY <1>7 DEF ClaimRefused, Close, standbyVars
  <2>4. SealingIsLast'
    BY <1>7 DEF ClaimRefused, Close, standbyVars
  <2>5. PaysOnce'
    BY <1>7 DEF ClaimRefused, Close, standbyVars
  <2>6. NoFurtherGuess'
    BY <1>7 DEF ClaimRefused, Close, standbyVars
  <2> QED
    BY <2>1, <2>2, <2>3, <2>4, <2>5, <2>6
<1>8. ASSUME NEW m \in claims, ClaimAccepted(m) PROVE PairingInv'
  <2>1. Typed'
    BY <1>8 DEF ClaimAccepted, Close, standbyVars
  <2>2. OpenIsFresh'
    BY <1>8 DEF ClaimAccepted, Close, standbyVars
  <2>3. FutureIsBlank'
    BY <1>8 DEF ClaimAccepted, Close, standbyVars
  <2>4. SealingIsLast'
    BY <1>8 DEF ClaimAccepted, Close, standbyVars
  <2>5. PaysOnce'
    BY <1>8 DEF ClaimAccepted, Close, standbyVars
  <2>6. NoFurtherGuess'
    BY <1>8 DEF ClaimAccepted, Close, standbyVars
  <2> QED
    BY <2>1, <2>2, <2>3, <2>4, <2>5, <2>6
<1>9. ASSUME NEW m \in sealing, Seal(m) PROVE PairingInv'
  <2>1. Typed'
    BY <1>9 DEF Seal
  <2>2. OpenIsFresh'
    BY <1>9 DEF Seal
  <2>3. FutureIsBlank'
    BY <1>9 DEF Seal
  <2>4. SealingIsLast'
    BY <1>9 DEF Seal
  <2>5. PaysOnce'
    BY <1>9 DEF Seal
  <2>6. NoFurtherGuess'
    BY <1>9 DEF Seal
  <2> QED
    BY <2>1, <2>2, <2>3, <2>4, <2>5, <2>6
<1>10. ASSUME NEW m \in sealing, SealFails(m) PROVE PairingInv'
  BY <1>10 DEF SealFails, standbyVars
<1>11. ASSUME NEW code \in 0..issued, Rejoindre(code) PROVE PairingInv'
  <2>1. Typed'
    BY <1>11 DEF Rejoindre, activeVars
  <2>2. OpenIsFresh'
    BY <1>11 DEF Rejoindre, activeVars
  <2>3. FutureIsBlank'
    BY <1>11 DEF Rejoindre, activeVars
  <2>4. SealingIsLast'
    BY <1>11 DEF Rejoindre, activeVars
  <2>5. PaysOnce'
    BY <1>11 DEF Rejoindre, activeVars
  <2>6. NoFurtherGuess'
    BY <1>11 DEF Rejoindre, activeVars
  <2> QED
    BY <2>1, <2>2, <2>3, <2>4, <2>5, <2>6
<1>12. CASE JoinFails \/ InstallSave \/ InstallWrite \/ StandbyRestarts
  BY <1>12 DEF JoinFails, InstallSave, InstallWrite, StandbyRestarts, activeVars
<1> QED
  BY <1>1, <1>2, <1>3, <1>5, <1>6, <1>7, <1>8, <1>9, <1>10, <1>11, <1>12 DEF PairingNext

LEMMA PairingInductive == PairingSpec => []PairingInv
  BY InitPairingInv, StepPairingInv, PTL DEF PairingSpec

\* The authority is handed over at most once per code.
THEOREM PaysOnceHolds == PairingSpec => []PaysOnce
<1>1. PairingInv => PaysOnce
  BY DEF PairingInv
<1> QED
  BY <1>1, PairingInductive, PTL

\* A code examines at most ECHECS_MAX false proofs.
THEOREM NoFurtherGuessHolds == PairingSpec => []NoFurtherGuess
<1>1. PairingInv => NoFurtherGuess
  BY DEF PairingInv
<1> QED
  BY <1>1, PairingInductive, PTL

\* A code cancelled, replaced, expired or burned is never accepted again.
THEOREM ClosedStaysClosedHolds == PairingSpec => ClosedStaysClosed
<1>1. PairingInv /\ [PairingNext]_pairingVars
      => [\A m \in sealing' \ sealing : m.code \notin closed /\ now <= offer.expire]_pairingVars
  <2> SUFFICES ASSUME PairingInv, PairingNext
               PROVE  \A m \in sealing' \ sealing : m.code \notin closed /\ now <= offer.expire
    OBVIOUS
  <2>1. ASSUME NEW m \in claims, ClaimAccepted(m)
        PROVE  \A n \in sealing' \ sealing : n.code \notin closed /\ now <= offer.expire
    BY <2>1 DEF ClaimAccepted, PairingInv, OpenIsFresh
  <2>2. CASE \E m \in claims : ClaimAccepted(m)
    BY <2>1, <2>2
  <2>3. CASE ~ \E m \in claims : ClaimAccepted(m)
    <3>1. sealing' \subseteq sealing
      BY <2>3 DEF PairingNext, Tick, Demarrer, Annuler, ActiveRestarts, ClaimExpired,
                  ClaimRefused, Seal, SealFails, Rejoindre, JoinFails, InstallSave,
                  InstallWrite, StandbyRestarts, activeVars, standbyVars
    <3> QED
      BY <3>1
  <2> QED
    BY <2>2, <2>3
<1> QED
  BY <1>1, PairingInductive, PTL DEF PairingSpec, ClosedStaysClosed
-----------------------------------------------------------------------------
(* The standby, and the remaining types.                                   *)

Authority == [Paths -> Codes \cup {NoCode}]
Opened == {"opened", "saved"} \cup Paths
Replacing == {"saved"} \cup Paths

StandbyTyped ==
    /\ now \in 0..MaxTime
    /\ offer.expire \in Nat
    /\ claims \subseteq Claim /\ IsFiniteSet(claims)
    /\ sealing \subseteq claims
    /\ join = [step |-> join.step, claim |-> join.claim]
    /\ join.step \in Steps
    /\ tls \in Authority
    /\ saves \subseteq Authority

\* A package is opened only for a claim that has paid.
OpenedIsPaid == join.step \in Opened => join.claim.code \in Codes /\ paid[join.claim.code] > 0

\* Files are replaced only once a whole authority is kept beside them: the one
\* they make up, or the one that was kept when they stopped making one up.
ReplacedIsKept == join.step \in Replacing => \E s \in saves : Whole(s)

SInv == StandbyTyped /\ OpenedIsPaid /\ InstalledWasPaid /\ ReplacedIsKept /\ AuthorityKept

LEMMA InitSInv == PairingInit => SInv
<1> SUFFICES ASSUME PairingInit PROVE SInv
  OBVIOUS
<1>1. StandbyTyped
  BY HaPairingAssumption, FS_EmptySet
     DEF PairingInit, StandbyTyped, Authority, NoOffer, NotJoining, Steps
<1>2. OpenedIsPaid /\ ReplacedIsKept
  BY DEF PairingInit, OpenedIsPaid, ReplacedIsKept, Opened, Replacing, NotJoining, Paths
<1>3. InstalledWasPaid /\ AuthorityKept
  BY DEF PairingInit, InstalledWasPaid, AuthorityKept, Whole
<1> QED
  BY <1>1, <1>2, <1>3 DEF SInv

\* What the active does, but for a package sealed, does not reach the standby.
LEMMA ActiveSInv ==
    ASSUME SInv, UNCHANGED <<claims, standbyVars, paid>>, sealing' \subseteq claims,
           now' \in 0..MaxTime, offer'.expire \in Nat
    PROVE  SInv'
  BY DEF SInv, StandbyTyped, OpenedIsPaid, InstalledWasPaid, ReplacedIsKept, AuthorityKept,
         standbyVars, Whole

LEMMA SealSInv ==
    ASSUME PairingInv, SInv, NEW m \in sealing, Seal(m)
    PROVE  SInv'
<1>1. m.code \in Codes /\ paid \in [Codes -> Nat] /\ m \in claims
  BY DEF PairingInv, Typed, SInv, StandbyTyped
<1>2. /\ paid'[m.code] = paid[m.code] + 1 /\ paid'[m.code] > 0
      /\ \A k \in Codes : paid[k] > 0 => paid'[k] > 0
  BY <1>1 DEF Seal
<1>3. join' = join \/ join' = [step |-> "opened", claim |-> m]
  BY DEF Seal
<1>4. UNCHANGED <<now, offer, claims, tls, saves>> /\ sealing' = sealing \ {m}
  BY DEF Seal
<1>5. StandbyTyped'
  BY <1>3, <1>4 DEF SInv, StandbyTyped, Steps
<1>6. OpenedIsPaid'
  BY <1>1, <1>2, <1>3 DEF SInv, OpenedIsPaid
<1>7. InstalledWasPaid'
  BY <1>2, <1>4 DEF SInv, InstalledWasPaid, StandbyTyped, Authority, NoCode
<1>8. ReplacedIsKept'
  BY <1>3, <1>4 DEF SInv, ReplacedIsKept, Replacing, Paths, Whole
<1>9. AuthorityKept'
  BY <1>4 DEF SInv, AuthorityKept, Whole
<1> QED
  BY <1>5, <1>6, <1>7, <1>8, <1>9 DEF SInv

LEMMA RejoindreSInv ==
    ASSUME PairingInv, SInv, NEW code \in 0..issued, Rejoindre(code)
    PROVE  SInv'
<1> DEFINE n == Cardinality(claims) + 1
           m == [code |-> code, nonce |-> n]
<1>1. Cardinality(claims) \in Nat
  BY FS_CardinalityType DEF SInv, StandbyTyped
<1>2. n \in 1..MaxClaims
  BY <1>1, HaPairingAssumption DEF Rejoindre
<1>3. code \in Codes \cup {NoCode}
  BY HaPairingAssumption DEF PairingInv, Typed, Codes, NoCode
<1>4. claims' = claims \cup {m} /\ join' = [step |-> "asked", claim |-> m]
      /\ UNCHANGED <<now, offer, sealing, paid, tls, saves>>
  BY DEF Rejoindre, activeVars
<1> HIDE DEF n
<1>5. m \in Claim
  BY <1>2, <1>3 DEF Claim
<1> HIDE DEF m
<1>6. IsFiniteSet(claims')
  BY <1>4, FS_AddElement DEF SInv, StandbyTyped
<1>7. StandbyTyped'
  BY <1>4, <1>5, <1>6 DEF SInv, StandbyTyped, Steps
<1>8. OpenedIsPaid' /\ ReplacedIsKept'
  BY <1>4 DEF OpenedIsPaid, ReplacedIsKept, Opened, Replacing, Paths
<1>9. InstalledWasPaid' /\ AuthorityKept'
  BY <1>4 DEF SInv, InstalledWasPaid, AuthorityKept, Whole
<1> QED
  BY <1>7, <1>8, <1>9 DEF SInv

LEMMA InstallSaveSInv ==
    ASSUME SInv, InstallSave
    PROVE  SInv'
<1>1. /\ join.step = "opened" /\ saves' = saves \cup {tls}
      /\ join'.step = "saved" /\ join'.claim = join.claim
      /\ join' = [step |-> join'.step, claim |-> join'.claim]
      /\ UNCHANGED <<now, offer, sealing, paid, claims, tls>>
  BY DEF InstallSave, activeVars, SInv, StandbyTyped
<1>2. \E s \in saves' : Whole(s)
  BY <1>1 DEF SInv, AuthorityKept
<1>3. StandbyTyped'
  BY <1>1 DEF SInv, StandbyTyped, Steps
<1>4. OpenedIsPaid'
  BY <1>1 DEF SInv, OpenedIsPaid, Opened
<1>5. InstalledWasPaid'
  BY <1>1 DEF SInv, InstalledWasPaid
<1> QED
  BY <1>2, <1>3, <1>4, <1>5 DEF SInv, ReplacedIsKept, AuthorityKept, Whole

LEMMA InstallWriteSInv ==
    ASSUME SInv, InstallWrite
    PROVE  SInv'
<1> DEFINE p == Written(join.step)
<1>1. join.step \in {"saved", "ca_cert", "ca_key", "ctrl_cert"} /\ p \in Paths
  BY DEF InstallWrite, Written, Paths
<1>2. /\ tls' = [tls EXCEPT ![p] = join.claim.code]
      /\ join' = IF p = "ctrl_key" THEN NotJoining ELSE [join EXCEPT !.step = p]
      /\ UNCHANGED <<now, offer, sealing, paid, claims, saves>>
  BY DEF InstallWrite, activeVars
<1> HIDE DEF p
<1>3. /\ join' = NotJoining \/ (join'.step = p /\ join'.claim = join.claim)
      /\ join' = [step |-> join'.step, claim |-> join'.claim]
      /\ join'.step \in Steps
  BY <1>1, <1>2 DEF NotJoining, SInv, StandbyTyped, Steps
<1>4. join.claim.code \in Codes /\ paid[join.claim.code] > 0 /\ \E s \in saves : Whole(s)
  BY <1>1 DEF SInv, OpenedIsPaid, ReplacedIsKept, Opened, Replacing, Paths
<1>5. tls' \in Authority /\ \A q \in Paths : tls'[q] = IF q = p THEN join.claim.code ELSE tls[q]
  BY <1>2, <1>4 DEF SInv, StandbyTyped, Authority
<1>6. StandbyTyped'
  BY <1>2, <1>3, <1>5 DEF SInv, StandbyTyped
<1>7. OpenedIsPaid'
  BY <1>2, <1>3, <1>4 DEF OpenedIsPaid, NotJoining, Opened, Paths
<1>8. InstalledWasPaid'
  BY <1>2, <1>4, <1>5 DEF SInv, InstalledWasPaid
<1>9. ReplacedIsKept' /\ AuthorityKept'
  BY <1>2, <1>4 DEF ReplacedIsKept, AuthorityKept, Whole
<1> QED
  BY <1>6, <1>7, <1>8, <1>9 DEF SInv

LEMMA StepSInv == PairingInv /\ SInv /\ [PairingNext]_pairingVars => SInv'
<1> SUFFICES ASSUME PairingInv, SInv, [PairingNext]_pairingVars PROVE SInv'
  OBVIOUS
<1>0. /\ now \in 0..MaxTime /\ offer.expire \in Nat /\ sealing \subseteq claims
      /\ NoOffer.expire \in Nat /\ MaxTime \in Nat /\ TTL_S \in Nat
  BY HaPairingAssumption DEF SInv, StandbyTyped, NoOffer
<1>1. CASE Tick \/ Demarrer
  BY <1>0, <1>1, ActiveSInv DEF Tick, Demarrer, activeVars
<1>2. CASE Annuler \/ ActiveRestarts
  BY <1>0, <1>2, ActiveSInv DEF Annuler, ActiveRestarts
<1>3. ASSUME NEW m \in claims, ClaimExpired(m) \/ ClaimRefused(m) \/ ClaimAccepted(m) PROVE SInv'
  <2>1. offer'.expire \in Nat
    <3>1. offer' = NoOffer \/ offer' = [offer EXCEPT !.failures = @ + 1]
      BY <1>3 DEF ClaimExpired, ClaimRefused, ClaimAccepted
    <3>2. offer = [code |-> offer.code, expire |-> offer.expire, failures |-> offer.failures]
      BY DEF PairingInv, Typed
    <3> QED
      BY <1>0, <3>1, <3>2
  <2> QED
    BY <1>0, <1>3, <2>1, ActiveSInv DEF ClaimExpired, ClaimRefused, ClaimAccepted
<1>4. ASSUME NEW m \in sealing, SealFails(m) PROVE SInv'
  BY <1>0, <1>4, ActiveSInv DEF SealFails
<1>5. CASE JoinFails \/ StandbyRestarts
  <2>1. join' = NotJoining /\ UNCHANGED <<now, activeVars, claims, tls, saves>>
    BY <1>5 DEF JoinFails, StandbyRestarts
  <2>2. StandbyTyped'
    BY <2>1 DEF SInv, StandbyTyped, NotJoining, Steps, activeVars
  <2>3. OpenedIsPaid' /\ ReplacedIsKept'
    BY <2>1 DEF OpenedIsPaid, ReplacedIsKept, NotJoining, Opened, Replacing, Paths
  <2>4. InstalledWasPaid' /\ AuthorityKept'
    BY <2>1 DEF SInv, InstalledWasPaid, AuthorityKept, Whole, activeVars
  <2> QED
    BY <2>2, <2>3, <2>4 DEF SInv
<1>6. CASE UNCHANGED pairingVars
  BY <1>0, <1>6, ActiveSInv DEF pairingVars, standbyVars
<1> QED
  BY <1>1, <1>2, <1>3, <1>4, <1>5, <1>6, SealSInv, RejoindreSInv, InstallSaveSInv,
     InstallWriteSInv DEF PairingNext

LEMMA StandbyInductive == PairingSpec => []SInv
  BY InitSInv, StepSInv, PairingInductive, PTL DEF PairingSpec

\* Every variable keeps its type.
THEOREM PairingTypeCorrect == PairingSpec => []PairingTypeOK
<1>1. PairingInv /\ SInv => PairingTypeOK
  <2> SUFFICES ASSUME PairingInv, SInv PROVE PairingTypeOK
    OBVIOUS
  <2>1. offer.code \in Codes \cup {NoCode} /\ offer.expire \in Nat /\ issued \in 0..MaxCodes
    BY HaPairingAssumption DEF PairingInv, SInv, Typed, StandbyTyped, Codes, NoCode
  <2>2. offer.failures \in 0..ECHECS_MAX
    <3>1. CASE Open
      BY <3>1, HaPairingAssumption DEF PairingInv, Typed, OpenIsFresh
    <3>2. CASE ~ Open
      BY <3>2, HaPairingAssumption DEF PairingInv, Typed, Open
    <3> QED
      BY <3>1, <3>2
  <2>3. offer \in [code : Codes \cup {NoCode}, expire : Nat, failures : 0..ECHECS_MAX]
    BY <2>1, <2>2 DEF PairingInv, Typed
  <2>4. closed \subseteq Codes
    BY <2>1, HaPairingAssumption DEF PairingInv, Typed, Codes
  <2> QED
    BY <2>1, <2>3, <2>4 DEF PairingInv, Typed, SInv, StandbyTyped, Authority, PairingTypeOK
<1> QED
  BY <1>1, PairingInductive, StandbyInductive, PTL

\* The files of the standby are one authority, or a crash left them mixed and
\* a whole one is kept beside them (ha_appairage.py:257).
THEOREM AuthorityKeptHolds == PairingSpec => []AuthorityKept
<1>1. SInv => AuthorityKept
  BY DEF SInv
<1> QED
  BY <1>1, StandbyInductive, PTL

\* An authority on the standby was handed over by the active.
THEOREM InstalledWasPaidHolds == PairingSpec => []InstalledWasPaid
<1>1. SInv => InstalledWasPaid
  BY DEF SInv
<1> QED
  BY <1>1, StandbyInductive, PTL
=============================================================================
