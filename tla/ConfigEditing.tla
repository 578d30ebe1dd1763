--------------------------- MODULE ConfigEditing ---------------------------
(***************************************************************************)
(* Several people editing the configuration of one container: the guard of *)
(* POST /deploy (app/routes/__init__.py:1148) compares the revision the    *)
(* editor loaded with the current one; the write is made later, by a       *)
(* thread, under the lock of the container.  The configuration is the set  *)
(* of gestures it contains; an editor posts all it shows at each gesture.  *)
(* Reading a row and writing one are atomic (SQLite).                      *)
(***************************************************************************)
EXTENDS Naturals, FiniteSets

CONSTANTS
    Users,
    Machine,        \* the author of a write nobody asked for (NULL)
    MaxGestures,    \* bound on the gestures made in editors
    MaxOthers,      \* bound on the writes made elsewhere
    Authors,        \* who makes those: Users, Machine
    InFlight        \* bound on the deployments accepted and not yet written

ASSUME ConfigEditingAssumption ==
    /\ Machine \notin Users /\ Authors \subseteq Users \cup {Machine}
    /\ MaxGestures \in Nat /\ MaxOthers \in Nat /\ InFlight \in Nat \ {0}

VARIABLES
    config,     \* deploy_config
    rev, author,    \* config_rev, config_rev_by
    editor,     \* what each editor shows, and the revision it loaded
    flight,     \* the threads of accepted deployments
    exposed,    \* the guard has been outrun, from here on (history)
    gestures, others

vars == <<config, rev, author, editor, flight, exposed, gestures, others>>

Gestures == [by : Users \cup {Machine}, n : 1..(MaxGestures + MaxOthers)]
Gesture(u, n) == [by |-> u, n |-> n]
MaxRev == MaxGestures + MaxOthers
Closed == [open |-> FALSE, base |-> 0, shows |-> {}]

TypeOK ==
    /\ config \subseteq Gestures
    /\ rev \in 0..MaxRev /\ author \in Users \cup {Machine}
    /\ editor \in [Users -> [open : BOOLEAN, base : 0..MaxRev, shows : SUBSET Gestures]]
    /\ flight \subseteq [by : Users, params : SUBSET Gestures]
    /\ Cardinality(flight) <= InFlight
    /\ exposed \in BOOLEAN
    /\ gestures \in 0..MaxGestures /\ others \in 0..MaxOthers
    /\ \A u \in Users : editor[u].base <= rev

\* db_update_deploy_config: the revision moves at each write, whoever makes it.
Write(params, by) ==
    config' = params /\ rev' = rev + 1 /\ author' = by

\* Opening the editor, or reloading it after a refusal.
Open(u) ==
    /\ editor' = [editor EXCEPT ![u] = [open |-> TRUE, base |-> rev, shows |-> config]]
    /\ UNCHANGED <<config, rev, author, flight, exposed, gestures, others>>

\* Mutant: only the author is compared.
AcceptsAnybody(u) == editor[u].base = rev \/ author \in Users

\* The guard: a conflict is a configuration that moved, by somebody else's hand.
Accepts(u) == editor[u].base = rev \/ author \in {u, Machine}

\* A gesture: everything the editor shows is posted.
Post(u) ==
    /\ editor[u].open /\ gestures < MaxGestures /\ gestures' = gestures + 1
    /\ Cardinality(flight) < InFlight
    /\ Accepts(u)
    /\ LET params == editor[u].shows \cup {Gesture(u, gestures' + others)}
       IN  /\ editor' = [editor EXCEPT ![u].shows = params]
           /\ flight' = flight \cup {[by |-> u, params |-> params]}
    /\ exposed' = (exposed \/ flight # {})
    /\ UNCHANGED <<config, rev, author, others>>

\* 409: nothing is applied, the editor shows what it showed.
Refused(u) ==
    /\ editor[u].open /\ ~Accepts(u)
    /\ editor' = [editor EXCEPT ![u] = Closed]
    /\ UNCHANGED <<config, rev, author, flight, exposed, gestures, others>>

\* The thread writes what was posted, in the name of who posted it.
Deploy ==
    \E f \in flight :
        /\ Write(f.params, f.by) /\ flight' = flight \ {f}
        /\ UNCHANGED <<editor, exposed, gestures, others>>

\* A deployment refused, failed or cut by a restart writes nothing; whoever
\* posted it was answered and is not told.
DeployFails ==
    \E f \in flight :
        /\ flight' = flight \ {f}
        /\ UNCHANGED <<config, rev, author, editor, exposed, gestures, others>>

\* Mutant: a write made elsewhere leaves the revision as it was.
WriteSilently(by) ==
    /\ others < MaxOthers /\ others' = others + 1
    /\ config' = config \cup {Gesture(by, gestures + others')}
    /\ UNCHANGED <<rev, author, editor, flight, exposed, gestures>>

\* A write made elsewhere (cabling, macro, surveillance, agent): the
\* configuration is read again under the lock and something added to it.
WriteElsewhere(by) ==
    /\ others < MaxOthers /\ others' = others + 1
    /\ Write(config \cup {Gesture(by, gestures + others')}, by)
    /\ exposed' = (exposed \/ flight # {} \/ author \notin {by, Machine})
    /\ UNCHANGED <<editor, flight, gestures>>

Init ==
    /\ config = {} /\ rev = 0 /\ author = Machine
    /\ editor = [u \in Users |-> Closed]
    /\ flight = {} /\ exposed = FALSE /\ gestures = 0 /\ others = 0

Next ==
    \/ \E u \in Users : Open(u) \/ Post(u) \/ Refused(u)
    \/ Deploy \/ DeployFails
    \/ \E by \in Authors : WriteElsewhere(by)

Spec == Init /\ [][Next]_vars

-----------------------------------------------------------------------------
\* The hard net refuses a deployment built on a stale state (edit_lock.py:13-15):
\* what one person put into the configuration is never erased by another,
\* unless something was accepted or written while a deployment was in flight,
\* or a write made elsewhere followed somebody else's and hid its author.
NoOtherErased ==
    [][\A g \in config :
          g.by \in Users => g \in config' \/ author' = g.by \/ exposed]_vars

\* The revision moves at each write, whoever makes it (database.py:4088): an
\* editor at the current revision shows all there is.
ShownIsCurrent ==
    \A u \in Users : (editor[u].open /\ editor[u].base = rev) => config \subseteq editor[u].shows
=============================================================================
