--------------------------- MODULE PlayoutGroups ---------------------------
(***************************************************************************)
(* Playout groups (app/playout_groups.py): operations of an operator, and  *)
(* the pass of the engine (Engine._group), each under one lock.  The       *)
(* engine compares the /state of the players with the plan; it reads the   *)
(* players outside the lock (Poll), and the mixer through an observer      *)
(* (MixerSeen), so that what it acts on may be old.                        *)
(*                                                                         *)
(* The players and the mixer are external: a player takes a file with the  *)
(* answer to the request, cued and paused, or fails to; it starts some     *)
(* time after PLAY was accepted.  One group, since a player serves one.    *)
(* Left out: delays between two sends of one load, fetching of missing     *)
(* media (a load without effect here), alerts, views, macros.              *)
(***************************************************************************)
EXTENDS PlayoutPlan, FiniteSets

CONSTANTS
    Unseen,             \* what was not read, or too long ago
    OutputLists,        \* the lists of outputs a configuration may give
    FirstOutputs,       \* the one the group is created with
    Settings,           \* out_of_order, trigger, auto_next, auto_release
    Shown,              \* the sets of outputs the mixer may show
    MaxItems,           \* bound on the items ever added
    MaxEvents           \* bound on the operations, the players lost, the restarts

ASSUME PlayoutAssumption ==
    /\ \A l \in OutputLists : Len(l) >= 2 /\ IsInjective(l) /\ NoOutput \notin Range(l)
    /\ FirstOutputs \in OutputLists
    /\ Settings \subseteq [ooo : {"skip", "requeue", "refuse"}, mixer : BOOLEAN,
                           auto_next : BOOLEAN, auto_release : BOOLEAN]
    /\ \A v \in Shown : v \subseteq UNION {Range(l) : l \in OutputLists}
    /\ MaxItems \in Nat /\ MaxEvents \in Nat
    /\ NoItem = 0

VARIABLES
    group,      \* the row of playout_groups
    set,        \* its settings
    pending,    \* Engine.pending: the take that was asked for and not seen yet
    obs,        \* Engine.rt[u].obs: the file last seen on each output, or Unseen
    fired,      \* Engine.endwatch: the item whose end was already followed
    view,       \* Engine.views: what the mixer shows, or Unseen
    before,     \* Engine.program_prev
    player,     \* external: the file of each player, and what it does with it
    made, events

engine == <<pending, obs, fired, before>>
counters == <<made, events>>
vars == <<group, set, engine, view, player, counters>>

Outputs == UNION {Range(l) : l \in OutputLists}
Items == 1..MaxItems
NoTake == [output |-> NoOutput, item |-> NoItem]

Modes == {"cued", "going", "playing", "down"}

TypeOK ==
    /\ group.outputs \in OutputLists
    /\ IsInjective(group.items) /\ Range(group.items) \subseteq Items
    /\ group.skipped \subseteq Range(group.items) /\ group.played \subseteq Range(group.items)
    /\ group.cursor \in Range(group.items) \cup {NoItem}
    /\ group.air \in Range(group.outputs) \cup {NoOutput} /\ group.live \in BOOLEAN
    /\ group.release \subseteq Range(group.outputs) \ {Air(group)}
    /\ set \in Settings /\ group.ooo = set.ooo
    /\ pending \in [output : Outputs, item : Items] \cup {NoTake}
    /\ \A u \in Outputs : obs[u] \in Items \cup {NoItem, Unseen}
    /\ fired \in Items \cup {NoItem}
    /\ view \in SUBSET Outputs \cup {Unseen} /\ before \in SUBSET Outputs \cup {Unseen}
    /\ player \in [Outputs -> [file : Items \cup {NoItem}, mode : Modes]]

Init ==
    /\ set \in Settings
    /\ group = [outputs |-> FirstOutputs, items |-> <<1, 2>>, skipped |-> {}, played |-> {},
                cursor |-> NoItem, air |-> NoOutput, live |-> FALSE, release |-> {}, ooo |-> set.ooo]
    /\ pending = NoTake /\ fired = NoItem
    /\ obs = [u \in Outputs |-> Unseen]
    /\ view = Unseen /\ before = Unseen
    /\ player = [u \in Outputs |-> [file |-> NoItem, mode |-> "cued"]]
    /\ made = 2 /\ events = 0

(* Operations, players lost and restarts share one bound. *)
Event == events < MaxEvents /\ events' = events + 1

(***************************************************************************)
(* What the engine asks of a player.  A state of the engine in the middle  *)
(* of a pass is a record st: group, pending, obs, fired, player.           *)
(***************************************************************************)
Up(st, u) == st.player[u].mode # "down"

(* Engine.program: the outputs the mixer uses, of those of the group. *)
Programme == IF view = Unseen THEN {} ELSE view \cap Range(group.outputs)

Seen(st, u) == IF Up(st, u) THEN st.player[u].file ELSE Unseen

(* _load: /file with cue; taken is the set of outputs it has an effect on. *)
Load(st, u, it, taken) ==
    IF Up(st, u) /\ u \in taken
    THEN [st EXCEPT !.player[u] = [file |-> it, mode |-> "cued"]] ELSE st

(* Engine.cue: without an item the output is paused. *)
CueOutput(st, u, taken) ==
    IF Want(st.group, u) # NoItem THEN Load(st, u, Want(st.group, u), taken)
    ELSE IF Up(st, u) THEN [st EXCEPT !.player[u].mode = "cued"] ELSE st

(* Engine.play, the way that opens a take; a refusal changes nothing here. *)
PlayOk(st, u) ==
    /\ st.pending = NoTake
    /\ u # Air(st.group) /\ Role(st.group, u) = "cue"
    /\ ~ (st.group.ooo = "refuse" /\ Want(st.group, u) # Upcoming(st.group)[1])
    /\ Up(st, u) /\ st.player[u].file = Want(st.group, u)

Play(st, u) ==
    [st EXCEPT !.pending = [output |-> u, item |-> Want(st.group, u)],
               !.player[u].mode = IF @ = "playing" THEN @ ELSE "going"]

(***************************************************************************)
(* One pass of the engine, Engine._group, in its order.                    *)
(***************************************************************************)
TakeSeen(st) ==
    st.player[st.pending.output] = [file |-> st.pending.item, mode |-> "playing"]

(* _check_take: item removed, take seen, or too late; the output that was  *)
(* too late is cued again, unless the mixer shows it.                      *)
CheckTake(st, late, taken) ==
    LET p == st.pending
        looked == [st EXCEPT !.obs[p.output] = Seen(st, p.output)]
        over == [looked EXCEPT !.pending = NoTake]
    IN  IF p = NoTake THEN st
        ELSE IF p.item \notin Range(st.group.items) THEN [st EXCEPT !.pending = NoTake]
        ELSE IF TakeSeen(st) THEN [over EXCEPT !.group = ConfirmTake(@, p.output, p.item)]
        ELSE IF ~ late THEN looked
        ELSE IF p.output \in Programme THEN over
        ELSE CueOutput(over, p.output, taken)

(* _end_of_clip: the end of the clip on air is worth a NEXT, once. *)
EndOfClip(st, ended) ==
    LET air == Air(st.group)
        looked == [st EXCEPT !.obs[air] = Seen(st, air),
                             !.fired = IF @ = st.group.cursor THEN @ ELSE NoItem]
        u == NextOutput(st.group)
    IN  IF ~ set.auto_next \/ air = NoOutput \/ st.pending # NoTake THEN st
        ELSE IF \/ st.group.cursor = NoItem \/ Seen(st, air) # st.group.cursor
                \/ looked.fired = st.group.cursor \/ ~ ended \/ u = NoOutput THEN looked
        ELSE LET once == [looked EXCEPT !.fired = st.group.cursor]
             IN  IF PlayOk(once, u) THEN Play(once, u) ELSE once

FollowMixer(st) ==
    IF /\ set.mixer /\ st.pending = NoTake
       /\ view # Unseen /\ before # Unseen /\ MixerShouldPlay(st.group, Programme, before)
       /\ PlayOk(st, NextOutput(st.group))
    THEN Play(st, NextOutput(st.group)) ELSE st

(* auto_release_check: the mixer does not use the output, and its strip is *)
(* closed (closed: the strips read as closed).                             *)
Releases(st, closed) ==
    IF set.auto_release /\ view # Unseen THEN (st.group.release \cap closed) \ Programme ELSE {}

Release(st, closed, taken) ==
    LET free == Releases(st, closed)
        freed == [st EXCEPT !.group.release = @ \ free]
    IN  [freed EXCEPT !.player = [u \in Outputs |->
            IF u \in free THEN CueOutput(freed, u, taken).player[u] ELSE @[u]]]

(* Mutant: what the mixer shows is not protected. *)
ToLoadShown(st) ==
    {u \in Range(st.group.outputs) \ {st.pending.output} :
        /\ Role(st.group, u) = "cue"
        /\ st.obs[u] \notin {Unseen, Want(st.group, u)}}

ToLoad(st) ==
    {u \in Range(st.group.outputs) \ {st.pending.output} :
        /\ Role(st.group, u) = "cue"
        /\ st.obs[u] \notin {Unseen, Want(st.group, u)}
        /\ u \notin Programme}

LoadAll(st, taken) ==
    LET due == ToLoad(st)
    IN  [st EXCEPT !.player = [u \in Outputs |->
            IF u \in due THEN Load(st, u, Want(st.group, u), taken).player[u] ELSE @[u]]]

Now == [group |-> group, pending |-> pending, obs |-> obs, fired |-> fired, player |-> player]

Becomes(st) ==
    /\ group' = st.group /\ pending' = st.pending /\ obs' = st.obs /\ fired' = st.fired
    /\ player' = st.player

(* The output of the take was removed from the group: the pass stops on an *)
(* exception, after the take was forgotten and before anything was saved.  *)
Astray(late) ==
    /\ pending # NoTake /\ pending.item \in Range(group.items)
    /\ pending.output \notin Range(group.outputs)
    /\ TakeSeen(Now) \/ late

(* What a call to a player has done, answered or not. *)
Effects == {{}, Outputs}

(* Each part begins where the one before it has ended. *)
Pass ==
    \E took \in {CheckTake(Now, late, taken) : late \in {l \in BOOLEAN : ~ Astray(l)}, taken \in Effects} :
    \E ended \in {EndOfClip(took, over) : over \in BOOLEAN} :
    \E freed \in {Release(FollowMixer(ended), closed, taken) : closed \in Effects, taken \in Effects} :
    \E done \in {LoadAll(freed, taken) : taken \in Effects} :
        /\ Becomes(done)
        /\ before' = IF view = Unseen THEN Unseen ELSE Programme
        /\ UNCHANGED <<set, view, counters>>

PassStops(late) ==
    /\ Astray(late)
    /\ pending' = NoTake
    /\ obs' = [obs EXCEPT ![pending.output] = Seen(Now, pending.output)]
    /\ UNCHANGED <<group, set, fired, before, view, player, counters>>

(* _poll, outside the lock: operations come between it and the pass. *)
Poll ==
    /\ obs' = [u \in Outputs |-> IF u \in Range(group.outputs) THEN Seen(Now, u) ELSE obs[u]]
    /\ UNCHANGED <<group, set, pending, fired, before, view, player, counters>>

(* on_views; a view that is too old is no view. *)
MixerSeen ==
    /\ view' \in Shown \cup {Unseen}
    /\ UNCHANGED <<group, set, engine, player, counters>>

(* The engine starts again: only the group is in the database. *)
Restart ==
    /\ Event
    /\ pending' = NoTake /\ fired' = NoItem
    /\ obs' = [u \in Outputs |-> Unseen]
    /\ view' = Unseen /\ before' = Unseen
    /\ UNCHANGED <<group, set, player, made>>

(***************************************************************************)
(* The operator.                                                           *)
(***************************************************************************)
(* op_play and op_next. *)
OpPlay(u) ==
    /\ Event
    /\ u \in Range(group.outputs) /\ PlayOk(Now, u)
    /\ Becomes(Play(Now, u))
    /\ UNCHANGED <<set, before, view, made>>

(* PLAY of the output on air resumes it. *)
OpResume ==
    /\ Event
    /\ pending = NoTake /\ Air(group) # NoOutput /\ player[Air(group)].mode = "cued"
    /\ player' = [player EXCEPT ![Air(group)].mode = "going"]
    /\ UNCHANGED <<group, set, engine, view, made>>

OpCue(u, taken) ==
    /\ Event
    /\ u \in Range(group.outputs) /\ pending.output # u
    /\ Becomes(CueOutput([Now EXCEPT !.group = StopAir(group, u)], u, taken))
    /\ UNCHANGED <<set, before, view, made>>

(* op_item, op_reset and update_group write the group and nothing else. *)
Rewrites(g) ==
    /\ Event
    /\ group' = g
    /\ UNCHANGED <<engine, view, player>>

OpItem(it) ==
    /\ it \in Range(group.items)
    /\ \/ it # group.cursor /\ Rewrites(Drop(group, it))
       \/ /\ Place(group.items, it) > CursorAt(group)
          /\ \/ \E on \in BOOLEAN : Rewrites(SkipItem(group, it, on))
             \/ \E to \in 1..Len(group.items) : Rewrites(Move(group, it, to))
             \/ Rewrites(GoTo(group, it))
    /\ UNCHANGED <<set, made>>

OpAdd(mode) ==
    /\ made < MaxItems
    /\ Rewrites(Add(group, made + 1, mode))
    /\ made' = made + 1
    /\ UNCHANGED set

OpReset == Rewrites(Reset(group)) /\ UNCHANGED <<set, made>>

Update(l, s) ==
    /\ l \in OutputLists /\ s \in Settings
    /\ LET kept == group.air \in Range(l)
       IN  Rewrites([group EXCEPT !.outputs = l, !.ooo = s.ooo,
                     !.air = IF kept THEN @ ELSE NoOutput, !.live = @ /\ kept,
                     !.release = @ \cap Range(l)])
    /\ set' = s
    /\ UNCHANGED made

(***************************************************************************)
(* External.                                                               *)
(***************************************************************************)
Starts(u) ==
    /\ player[u].mode = "going"
    /\ player' = [player EXCEPT ![u].mode = "playing"]
    /\ UNCHANGED <<group, set, engine, view, counters>>

PlayerDown(u) ==
    /\ Event
    /\ player' = [player EXCEPT ![u] = [file |-> NoItem, mode |-> "down"]]
    /\ UNCHANGED <<group, set, engine, view, made>>

PlayerUp(u) ==
    /\ player[u].mode = "down"
    /\ player' = [player EXCEPT ![u].mode = "cued"]
    /\ UNCHANGED <<group, set, engine, view, counters>>

Next ==
    \/ Pass
    \/ \E late \in BOOLEAN : PassStops(late)
    \/ \E u \in Outputs : OpPlay(u) \/ \E taken \in Effects : OpCue(u, taken)
    \/ Poll
    \/ MixerSeen
    \/ Restart
    \/ OpResume
    \/ \E it \in Items : OpItem(it)
    \/ \E mode \in {"replace", "next", "append"} : OpAdd(mode)
    \/ OpReset
    \/ \E l \in OutputLists, s \in Settings : Update(l, s)
    \/ \E u \in Outputs : Starts(u) \/ PlayerDown(u) \/ PlayerUp(u)

Spec == Init /\ [][Next]_vars

(* What is on air is the item at the cursor: whatever was asked meanwhile, *)
(* the file of the output on air is the one whose take was seen (a player  *)
(* that was lost has none).                                                *)
AirPlaysCursor ==
    Air(group) # NoOutput /\ group.cursor # NoItem
        => player[Air(group)].file \in {group.cursor, NoItem}

(* No item is passed over without a word, and none comes twice: up to the  *)
(* cursor all were played or are marked skipped, after it none was played. *)
(* Takes are seen after the playlist has changed: moves, drops, additions  *)
(* and resets come between a PLAY and its take.                            *)
PlaylistIsSplit ==
    \A k \in 1..Len(group.items) :
        LET it == group.items[k]
        IN  IF k <= CursorAt(group) THEN it \in group.played \cup group.skipped
            ELSE it \notin group.played

(* Unless the operator asks or a player is lost, nothing reloads, cues     *)
(* again or pauses an output that is on air, that is not released yet or   *)
(* that the mixer was last seen to show ("ce qui ne se recharge jamais     *)
(* d'office").                                                             *)
Halted(u) ==
    \/ player'[u].file # player[u].file
    \/ player[u].mode = "playing" /\ player'[u].mode # "playing"
AirIsLeftAlone ==
    [][events' = events =>
        \A u \in Range(group.outputs) :
            u = Air(group') \/ u \in group'.release \/ u \in Programme => ~ Halted(u)]_vars
=============================================================================
