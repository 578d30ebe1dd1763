----------------------------- MODULE HaPairing -----------------------------
(***************************************************************************)
(* Pairing of a standby with the active controller (app/ha_appairage.py):  *)
(* the one-time code of the active, the claims that reach its public       *)
(* route late, twice or with a mistyped code, and the installation of the  *)
(* shared authority, file by file, on the standby.                         *)
(*                                                                         *)
(* Cryptography is what it guarantees: a claim proves the code it was made *)
(* from, a sealed package opens only for the claim it answers.             *)
(***************************************************************************)
EXTENDS Naturals, FiniteSets

CONSTANTS
    MaxCodes,       \* bound on the codes opened
    MaxTime,        \* bound on the clock
    TTL_S,          \* life of a code
    ECHECS_MAX,     \* false proofs that burn a code
    MaxClaims       \* bound on the claims the standby makes

ASSUME HaPairingAssumption ==
    /\ MaxCodes \in Nat /\ MaxTime \in Nat /\ TTL_S \in Nat \ {0}
    /\ ECHECS_MAX \in Nat \ {0} /\ MaxClaims \in Nat

VARIABLES
    now,
    issued,         \* codes opened so far: 1..issued
    offer,          \* _en_cours: the code open on the active, or NoOffer
    claims,         \* every claim sent; the network may deliver it again
    sealing,        \* claims accepted, whose package is being prepared
    paid,           \* packages sealed, as many as there were
    wrong,          \* false proofs examined under each code (history)
    closed,         \* codes cancelled, replaced, expired or burned (history)
    join,           \* the standby: what its join is doing, and for which claim
    tls,            \* its four authority files, each from one authority
    saves           \* the copies of that directory it kept

pairingVars == <<now, issued, offer, claims, sealing, paid, wrong, closed, join, tls, saves>>
activeVars == <<issued, offer, sealing, paid, wrong, closed>>
standbyVars == <<join, tls, saves>>

Codes == 1..MaxCodes
NoCode == 0                     \* a mistyped code; the authority of the standby's own
NoOffer == [code |-> NoCode, expire |-> 0, failures |-> 0]
Claim == [code : Codes \cup {NoCode}, nonce : 1..MaxClaims]
Paths == {"ca_cert", "ca_key", "ctrl_cert", "ctrl_key"}
NotJoining == [step |-> "idle", claim |-> [code |-> NoCode, nonce |-> 0]]

\* installer() writes them in this order, each by an atomic replacement.
Written(step) ==
    CASE step = "saved"    -> "ca_cert"
      [] step = "ca_cert"  -> "ca_key"
      [] step = "ca_key"   -> "ctrl_cert"
      [] step = "ctrl_cert" -> "ctrl_key"

Steps == {"idle", "asked", "opened", "saved"} \cup Paths

PairingTypeOK ==
    /\ now \in 0..MaxTime
    /\ issued \in 0..MaxCodes
    /\ offer \in [code : Codes \cup {NoCode}, expire : Nat, failures : 0..ECHECS_MAX]
    /\ claims \subseteq Claim
    /\ sealing \subseteq Claim
    /\ paid \in [Codes -> Nat]
    /\ wrong \in [Codes -> Nat]
    /\ closed \subseteq Codes
    /\ join.step \in Steps
    /\ tls \in [Paths -> Codes \cup {NoCode}]
    /\ saves \subseteq [Paths -> Codes \cup {NoCode}]

Open == offer.code # NoCode
Close == closed' = closed \cup ({offer.code} \ {NoCode})

-----------------------------------------------------------------------------
(* The active controller.                                                  *)

Tick ==
    /\ now < MaxTime
    /\ now' = now + 1
    /\ UNCHANGED <<activeVars, claims, standbyVars>>

\* demarrer(): a new code; the previous one, if any, is abandoned.
Demarrer ==
    /\ issued < MaxCodes
    /\ issued' = issued + 1
    /\ offer' = [code |-> issued', expire |-> now + TTL_S, failures |-> 0]
    /\ Close
    /\ UNCHANGED <<now, claims, sealing, paid, wrong, standbyVars>>

Annuler ==
    /\ Open
    /\ offer' = NoOffer
    /\ Close
    /\ UNCHANGED <<now, issued, claims, sealing, paid, wrong, standbyVars>>

\* traiter_demande(), under the lock: an expired code is dropped...
ClaimExpired(m) ==
    /\ m \in claims
    /\ Open /\ now > offer.expire
    /\ offer' = NoOffer
    /\ Close
    /\ UNCHANGED <<now, issued, claims, sealing, paid, wrong, standbyVars>>

\* Mutant: the last false proof allowed does not burn the code.
ClaimRefusedForever(m) ==
    /\ m \in claims
    /\ Open /\ now <= offer.expire
    /\ m.code # offer.code
    /\ offer' = [offer EXCEPT !.failures = @ + 1]
    /\ wrong' = [wrong EXCEPT ![offer.code] = @ + 1]
    /\ UNCHANGED <<now, issued, claims, sealing, paid, closed, standbyVars>>

\* ...a false proof is counted, and burns the code at the last one allowed...
ClaimRefused(m) ==
    /\ m \in claims
    /\ Open /\ now <= offer.expire
    /\ m.code # offer.code
    /\ IF offer.failures + 1 >= ECHECS_MAX
       THEN offer' = NoOffer /\ Close
       ELSE offer' = [offer EXCEPT !.failures = @ + 1] /\ UNCHANGED closed
    /\ wrong' = [wrong EXCEPT ![offer.code] = @ + 1]
    /\ UNCHANGED <<now, issued, claims, sealing, paid, standbyVars>>

\* Mutant: the code is burned once the package is sealed, not before.
ClaimAcceptedLate(m) ==
    /\ m \in claims
    /\ Open /\ now <= offer.expire
    /\ m.code = offer.code
    /\ sealing' = sealing \cup {m}
    /\ UNCHANGED <<now, issued, offer, claims, paid, wrong, closed, standbyVars>>

\* Mutant: the term of the code is not looked at.
ClaimAcceptedExpired(m) ==
    /\ m \in claims
    /\ Open
    /\ m.code = offer.code
    /\ sealing' = sealing \cup {m}
    /\ offer' = NoOffer
    /\ Close
    /\ UNCHANGED <<now, issued, claims, paid, wrong, standbyVars>>

\* ...and the right one burns it before anything is signed.
ClaimAccepted(m) ==
    /\ m \in claims
    /\ Open /\ now <= offer.expire
    /\ m.code = offer.code
    /\ sealing' = sealing \cup {m}
    /\ offer' = NoOffer
    /\ Close
    /\ UNCHANGED <<now, issued, claims, paid, wrong, standbyVars>>

\* Outside the lock: sign, seal, answer.  The answer reaches a standby that
\* still waits for this claim, or nobody.
Seal(m) ==
    /\ m \in sealing
    /\ sealing' = sealing \ {m}
    /\ paid' = [paid EXCEPT ![m.code] = @ + 1]
    /\ join' = IF join = [step |-> "asked", claim |-> m]
               THEN [join EXCEPT !.step = "opened"] ELSE join
    /\ UNCHANGED <<now, issued, offer, claims, wrong, closed, tls, saves>>

\* The authority cannot sign: the code is gone all the same.
SealFails(m) ==
    /\ m \in sealing
    /\ sealing' = sealing \ {m}
    /\ UNCHANGED <<now, issued, offer, claims, paid, wrong, closed, standbyVars>>

\* A restart of the active forgets the code, which lives in memory only.
ActiveRestarts ==
    /\ offer' = NoOffer /\ sealing' = {}
    /\ Close
    /\ UNCHANGED <<now, issued, claims, paid, wrong, standbyVars>>

-----------------------------------------------------------------------------
(* The standby.                                                            *)

\* rejoindre(): a fresh key and nonce, a claim made from the code typed in.
Rejoindre(code) ==
    /\ join.step = "idle"
    /\ Cardinality(claims) < MaxClaims
    /\ LET m == [code |-> code, nonce |-> Cardinality(claims) + 1]
       IN  claims' = claims \cup {m} /\ join' = [step |-> "asked", claim |-> m]
    /\ UNCHANGED <<now, activeVars, tls, saves>>

\* Refused, timed out, or an answer that does not open.
JoinFails ==
    /\ join.step = "asked"
    /\ join' = NotJoining
    /\ UNCHANGED <<now, activeVars, claims, tls, saves>>

\* Mutant: the former authority is not kept.
InstallUnsaved ==
    /\ join.step = "opened"
    /\ join' = [join EXCEPT !.step = "saved"]
    /\ UNCHANGED <<now, activeVars, claims, tls, saves>>

\* Mutant: the answer is installed unopened.
InstallUnverified ==
    /\ join.step \in {"asked", "opened"}
    /\ saves' = saves \cup {tls}
    /\ join' = [join EXCEPT !.step = "saved"]
    /\ UNCHANGED <<now, activeVars, claims, tls>>

\* installer(): certificate, key and authority verified, old directory copied.
InstallSave ==
    /\ join.step = "opened"
    /\ saves' = saves \cup {tls}
    /\ join' = [join EXCEPT !.step = "saved"]
    /\ UNCHANGED <<now, activeVars, claims, tls>>

InstallWrite ==
    /\ join.step \in {"saved", "ca_cert", "ca_key", "ctrl_cert"}
    /\ tls' = [tls EXCEPT ![Written(join.step)] = join.claim.code]
    /\ join' = IF Written(join.step) = "ctrl_key" THEN NotJoining
               ELSE [join EXCEPT !.step = Written(join.step)]
    /\ UNCHANGED <<now, activeVars, claims, saves>>

StandbyRestarts ==
    /\ join' = NotJoining
    /\ UNCHANGED <<now, activeVars, claims, tls, saves>>

-----------------------------------------------------------------------------
PairingInit ==
    /\ now = 0 /\ issued = 0
    /\ offer = NoOffer
    /\ claims = {} /\ sealing = {}
    /\ paid = [k \in Codes |-> 0]
    /\ wrong = [k \in Codes |-> 0]
    /\ closed = {}
    /\ join = NotJoining
    /\ tls = [p \in Paths |-> NoCode]
    /\ saves = {}

PairingNext ==
    \/ Tick \/ Demarrer \/ Annuler \/ ActiveRestarts
    \/ \E m \in claims :
          ClaimExpired(m) \/ ClaimRefused(m) \/ ClaimAccepted(m)
    \/ \E m \in sealing : Seal(m) \/ SealFails(m)
    \/ \E code \in 0..issued : Rejoindre(code)
    \/ JoinFails \/ InstallSave \/ InstallWrite \/ StandbyRestarts

PairingSpec == PairingInit /\ [][PairingNext]_pairingVars

-----------------------------------------------------------------------------
\* A code hands over the authority at most once, whatever is delivered again
\* and however slowly the package is sealed (ha_appairage.py:222).
PaysOnce == \A k \in Codes : paid[k] <= 1

\* Five false proofs and the code is gone: it never examines a sixth
\* (ha_appairage.py:217).
NoFurtherGuess == \A k \in Codes : wrong[k] <= ECHECS_MAX

\* A code cancelled, replaced, expired or burned is never accepted again.
ClosedStaysClosed ==
    [][\A m \in sealing' \ sealing : m.code \notin closed /\ now <= offer.expire]_pairingVars

\* The files of the standby are one authority, or a crash left them mixed and
\* a whole one is kept beside them (ha_appairage.py:257).
Whole(files) == \A p, q \in Paths : files[p] = files[q]
AuthorityKept == Whole(tls) \/ \E s \in saves : Whole(s)

\* An authority on the standby was handed over by the active.
InstalledWasPaid == \A p \in Paths : tls[p] # NoCode => paid[tls[p]] > 0
=============================================================================
