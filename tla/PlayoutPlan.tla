---------------------------- MODULE PlayoutPlan ----------------------------
(***************************************************************************)
(* The pure functions of a playout group (app/playout_groups.py): one      *)
(* playlist handed in turn to N outputs.  Which item an output must have   *)
(* ready is never stored: it is worked out from the playlist, the cursor   *)
(* (the item of the last take) and the base (the output of the last take). *)
(*                                                                         *)
(* A group is a record: outputs, items, skipped, played, cursor, air (the  *)
(* base), live (the base is on air), release (outputs that left the air    *)
(* and were not cued again), ooo (out_of_order).  An item is its id: its   *)
(* file and its title are left out.                                        *)
(***************************************************************************)
EXTENDS Naturals, FiniteSets, SequencesExt

CONSTANTS NoItem, NoOutput

Place(s, x) == IF x \in Range(s) THEN CHOOSE k \in DOMAIN s : s[k] = x ELSE 0

CursorAt(g) == Place(g.items, g.cursor)

(* The items of s that are in S, in their order: the n-th of them is at the *)
(* n-th of their positions.                                                 *)
Nth(P, n) == CHOOSE k \in P : Cardinality({j \in P : j <= k}) = n

Among(s, S) ==
    LET at == {k \in DOMAIN s : s[k] \in S}
    IN  [n \in 1..Cardinality(at) |-> s[Nth(at, n)]]

Upcoming(g) ==
    LET rest == SubSeq(g.items, CursorAt(g) + 1, Len(g.items))
    IN  Among(rest, Range(rest) \ g.skipped)

Base(g) == IF g.air \in Range(g.outputs) THEN g.air ELSE NoOutput

Air(g) == IF g.live THEN Base(g) ELSE NoOutput

(* assignment: the output whose turn the k-th upcoming item is. *)
Turn(g, k) == g.outputs[((Place(g.outputs, Base(g)) + k - 1) % Len(g.outputs)) + 1]

(* plan: the item an output must have, on air left aside; N - 1 items wait *)
(* when an output is on air, N when none is.                               *)
Want(g, u) ==
    LET ahead == Upcoming(g)
        waiting == IF Air(g) = NoOutput THEN Len(g.outputs) ELSE Len(g.outputs) - 1
        turns == {k \in 1..Len(ahead) : k <= waiting /\ Turn(g, k) = u}
    IN  IF turns = {} THEN NoItem ELSE ahead[CHOOSE k \in turns : TRUE]

Role(g, u) ==
    IF u = Air(g) THEN "air"
    ELSE IF u \in g.release THEN "release"
    ELSE IF Want(g, u) = NoItem THEN "idle" ELSE "cue"

(* next_target. *)
NextOutput(g) == IF Upcoming(g) = <<>> THEN NoOutput ELSE Turn(g, 1)

(* Mutant: the items that were passed over are neither skipped nor moved. *)
ConfirmTakeSilent(g, u, it) ==
    [g EXCEPT !.played = @ \cup {it}, !.skipped = @ \ {it}, !.cursor = it, !.air = u, !.live = TRUE,
              !.release = (@ \cup ({Air(g)} \ {NoOutput})) \ {u}]

(* Mutant: the cursor advances by one, whichever item was played. *)
ConfirmTakeNext(g, u, it) ==
    [g EXCEPT !.played = @ \cup {it}, !.skipped = @ \ {it}, !.cursor = Upcoming(g)[1], !.air = u, !.live = TRUE,
              !.release = (@ \cup ({Air(g)} \ {NoOutput})) \ {u}]

(* confirm_take: item it is SEEN playing on u. *)
ConfirmTake(g, u, it) ==
    LET at == Place(g.items, it)
        between == SubSeq(g.items, CursorAt(g) + 1, at - 1)
        passed == Among(between, Range(between) \ g.skipped)
        kept == Among(between, g.skipped)
        requeue == g.ooo = "requeue"
    IN  [g EXCEPT
          !.items = IF requeue
                    THEN SubSeq(@, 1, CursorAt(g)) \o kept \o <<it>> \o passed \o SubSeq(@, at + 1, Len(@))
                    ELSE @,
          !.skipped = (IF requeue THEN @ ELSE @ \cup Range(passed)) \ {it},
          !.played = @ \cup {it},
          !.cursor = it, !.air = u, !.live = TRUE,
          !.release = (@ \cup ({Air(g)} \ {NoOutput})) \ {u}]

(* stop_air: the base of the rotation does not move. *)
StopAir(g, u) ==
    [g EXCEPT !.live = @ /\ Air(g) # u, !.release = @ \ {u}]

(* mixer_should_play: the programme has just come to the output that waits *)
(* for the next item.                                                      *)
MixerShouldPlay(g, now, before) ==
    LET u == NextOutput(g)
    IN  /\ u # NoOutput
        /\ u \notin g.release /\ u # Air(g)
        /\ u \in now /\ u \notin before

(* item_op.  Drop is refused on the item on air only; the others are for   *)
(* upcoming items.                                                         *)
Drop(g, it) ==
    [g EXCEPT !.items = RemoveAt(@, Place(@, it)), !.skipped = @ \ {it}, !.played = @ \ {it}]

Move(g, it, to) ==
    LET rest == RemoveAt(g.items, Place(g.items, it))
        last == IF to > Len(g.items) THEN Len(g.items) ELSE to
        place == IF last <= CursorAt(g) THEN CursorAt(g) + 1 ELSE last
    IN  [g EXCEPT !.items = InsertAt(rest, place, it)]

SkipItem(g, it, on) == [g EXCEPT !.skipped = IF on THEN @ \cup {it} ELSE @ \ {it}]

GoTo(g, it) ==
    [g EXCEPT !.skipped =
        (@ \cup Range(SubSeq(g.items, CursorAt(g) + 1, Place(g.items, it) - 1))) \ {it}]

(* add_items, one new item at a time. *)
Add(g, it, mode) ==
    CASE mode = "replace" -> [g EXCEPT !.items = <<it>>, !.cursor = NoItem, !.skipped = {}, !.played = {}]
      [] mode = "next"    -> [g EXCEPT !.items = InsertAt(@, CursorAt(g) + 1, it)]
      [] mode = "append"  -> [g EXCEPT !.items = Append(@, it)]

(* reset: the output on air goes on, nothing reloads it. *)
Reset(g) == [g EXCEPT !.cursor = NoItem, !.played = {}]
=============================================================================
