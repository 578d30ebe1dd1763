------------------------ MODULE PlayoutGroupsProofs ------------------------
(***************************************************************************)
(* Theorems on the engine of a playout group, for any outputs, settings,   *)
(* items, views of the mixer and events: what is on air is the item of     *)
(* the last take seen, nothing on air is disturbed unasked, and the        *)
(* playlist is split at its cursor.  To the first two it does not matter   *)
(* what the plan loads, only where; the third is about the items alone.    *)
(***************************************************************************)
EXTENDS PlayoutGroups, FiniteSetTheorems, SequenceTheorems, TLAPS

(***************************************************************************)
(* The shapes of the records; what they hold is not looked at.             *)
(***************************************************************************)
GroupShape(g) ==
    g = [outputs |-> g.outputs, items |-> g.items, skipped |-> g.skipped, played |-> g.played,
         cursor |-> g.cursor, air |-> g.air, live |-> g.live, release |-> g.release, ooo |-> g.ooo]

StateShape(st) ==
    st = [group |-> st.group, pending |-> st.pending, obs |-> st.obs, fired |-> st.fired,
          player |-> st.player]

PlayersShape(f) == f = [u \in Outputs |-> [file |-> f[u].file, mode |-> f[u].mode]]

(* A state of the engine is what the pass makes of it. *)
LEMMA NowShape ==
    /\ StateShape(Now) /\ Now.group = group /\ Now.pending = pending /\ Now.obs = obs
    /\ Now.fired = fired /\ Now.player = player
BY DEF StateShape, Now

LEMMA NextNow ==
    ASSUME NEW st, StateShape(st), Becomes(st) PROVE Now' = st
BY DEF StateShape, Becomes, Now

(***************************************************************************)
(* The items of a sequence that are in a set.                              *)
(***************************************************************************)
(* Positions of a sequence are finitely many.                              *)
LEMMA SomePositions ==
    ASSUME NEW n \in Nat, NEW P, P \subseteq 1..n
    PROVE  IsFiniteSet(P) /\ Cardinality(P) \in Nat /\ \A k \in P : k \in Nat
<1>1. IsFiniteSet(1..n)
  BY FS_Interval
<1>2. P \in SUBSET (1..n)
  OBVIOUS
<1>3. IsFiniteSet(P)
  BY ONLY <1>1, <1>2, FS_Subset
<1> QED
  BY <1>3, FS_CardinalityType

(* Every rank up to the number of its elements is that of one of them.     *)
LEMMA RankIsTaken ==
    ASSUME NEW n \in Nat, NEW P, P \subseteq 1..n, NEW r \in 1..Cardinality(P)
    PROVE  /\ Nth(P, r) \in P
           /\ Cardinality({j \in P : j <= Nth(P, r)}) = r
<1> DEFINE Rank(k) == Cardinality({j \in P : j <= k})
           rank == [k \in P |-> Rank(k)]
<1>1. IsFiniteSet(P) /\ Cardinality(P) \in Nat /\ \A k \in P : k \in Nat
  BY SomePositions
<1>2. \A k \in P : IsFiniteSet({j \in P : j <= k}) /\ Rank(k) \in Nat
  BY <1>1, FS_Subset, FS_CardinalityType
<1>3. ASSUME NEW k \in P PROVE Rank(k) \in 1..Cardinality(P)
  <2>1. Rank(k) <= Cardinality(P)
    BY <1>1, FS_Subset
  <2>2. {j \in P : j <= k} # {}
    OBVIOUS
  <2>3. Rank(k) # 0
    BY <1>2, <2>2, FS_EmptySet
  <2> QED
    BY <1>1, <1>2, <2>1, <2>3
<1>4. ASSUME NEW k \in P, NEW l \in P, k < l PROVE Rank(k) < Rank(l)
  <2>1. {j \in P : j <= k} \subseteq {j \in P : j <= l} /\ {j \in P : j <= k} # {j \in P : j <= l}
    <3>1. \A j \in P : j <= k => j <= l
      BY <1>1, <1>4
    <3>2. l \in {j \in P : j <= l} /\ l \notin {j \in P : j <= k}
      BY <1>1, <1>4
    <3> QED
      BY <3>1, <3>2
  <2>2. Rank(k) <= Rank(l) /\ Rank(k) # Rank(l)
    BY <1>2, <2>1, FS_Subset
  <2> QED
    BY <1>2, <2>2
<1>5. rank \in Injection(P, 1..Cardinality(P))
  <2>1. rank \in [P -> 1..Cardinality(P)]
    BY <1>3
  <2>2. ASSUME NEW k \in P, NEW l \in P, rank[k] = rank[l] PROVE k = l
    <3>1. Rank(k) = Rank(l) /\ Rank(k) \in Nat
      BY <1>2, <2>2
    <3>2. k < l \/ l < k \/ k = l
      OBVIOUS
    <3> HIDE DEF Rank
    <3> QED
      BY <1>4, <3>1, <3>2
  <2> QED
    BY <2>1, <2>2 DEF Injection, IsInjective
<1>6. rank \in Surjection(P, 1..Cardinality(P))
  <2>1. IsFiniteSet(1..Cardinality(P)) /\ Cardinality(1..Cardinality(P)) = Cardinality(P)
    BY <1>1, FS_Interval
  <2> QED
    BY <1>5, <2>1, FS_Injection
<1>7. \E k \in P : Cardinality({j \in P : j <= k}) = r
  BY <1>6 DEF Surjection
<1> QED
  BY <1>7 DEF Nth

(* And no other element has the rank of k. *)
LEMMA RankIsOne ==
    ASSUME NEW n \in Nat, NEW P, P \subseteq 1..n, NEW k \in P
    PROVE  \E r \in 1..Cardinality(P) : Nth(P, r) = k
<1> DEFINE Upto(i) == {j \in P : j <= i}
           r == Cardinality(Upto(k))
<1>1. IsFiniteSet(P) /\ Cardinality(P) \in Nat /\ \A j \in P : j \in Nat
  BY SomePositions
<1>2. \A i \in P : IsFiniteSet(Upto(i)) /\ Cardinality(Upto(i)) \in Nat
  BY <1>1, FS_Subset, FS_CardinalityType
<1>3. r \in 1..Cardinality(P)
  <2>1. r <= Cardinality(P)
    BY <1>1, FS_Subset
  <2>2. Upto(k) # {}
    OBVIOUS
  <2>3. r # 0
    BY <1>2, <2>2, FS_EmptySet
  <2> HIDE DEF r
  <2> QED
    BY <1>1, <1>2, <2>1, <2>3 DEF r
<1>4. PICK i \in P : i = Nth(P, r) /\ Cardinality(Upto(i)) = r
  BY <1>3, RankIsTaken
<1>5. Upto(i) = Upto(k)
  <2>1. Upto(i) \subseteq Upto(k) \/ Upto(k) \subseteq Upto(i)
    <3>1. (\A j \in P : j <= i => j <= k) \/ (\A j \in P : j <= k => j <= i)
      BY <1>1
    <3> QED
      BY <3>1
  <2>2. IsFiniteSet(Upto(i)) /\ IsFiniteSet(Upto(k)) /\ Cardinality(Upto(i)) = Cardinality(Upto(k))
    BY <1>2, <1>4
  <2> HIDE DEF Upto
  <2> QED
    BY <2>1, <2>2, FS_Subset
<1>6. i = k
  <2>1. i \in Upto(k) /\ k \in Upto(i)
    <3>1. i \in Upto(i) /\ k \in Upto(k)
      BY <1>1
    <3> HIDE DEF Upto
    <3> QED
      BY <1>5, <3>1
  <2> QED
    BY <1>1, <2>1
<1> QED
  BY <1>3, <1>4, <1>6

(* Among keeps the items of s that are in S, each of them as often as s.   *)
IsAmong(t, X, s, S) ==
    /\ t \in Seq(X)
    /\ \A k \in 1..Len(t) : t[k] \in S /\ \E j \in 1..Len(s) : t[k] = s[j]
    /\ IsInjective(s) => IsInjective(t)

(* What Among keeps.                                                       *)
LEMMA AmongIs ==
    ASSUME NEW X, NEW s \in Seq(X), NEW S
    PROVE  IsAmong(Among(s, S), X, s, S)
<1> DEFINE at == {k \in DOMAIN s : s[k] \in S}
<1>1. Len(s) \in Nat /\ DOMAIN s = 1..Len(s) /\ at \subseteq 1..Len(s)
  OBVIOUS
<1>2. Cardinality(at) \in Nat
  BY <1>1, SomePositions
<1>3. \A n \in 1..Cardinality(at) : Nth(at, n) \in at /\ Cardinality({j \in at : j <= Nth(at, n)}) = n
  BY <1>1, RankIsTaken
<1>4. Among(s, S) = [n \in 1..Cardinality(at) |-> s[Nth(at, n)]]
  BY DEF Among
<1> HIDE DEF at
<1>5. \A n \in 1..Cardinality(at) : s[Nth(at, n)] \in X /\ s[Nth(at, n)] \in S /\ Nth(at, n) \in 1..Len(s)
  <2> TAKE n \in 1..Cardinality(at)
  <2>1. Nth(at, n) \in at
    BY <1>3
  <2>2. \A k \in at : s[k] \in X /\ s[k] \in S /\ k \in 1..Len(s)
    BY <1>1 DEF at
  <2> QED
    BY <2>1, <2>2
<1>6. Among(s, S) \in Seq(X) /\ Len(Among(s, S)) = Cardinality(at)
  BY <1>2, <1>4, <1>5
<1>7. ASSUME IsInjective(s) PROVE IsInjective(Among(s, S))
  <2> SUFFICES ASSUME NEW m \in 1..Cardinality(at), NEW n \in 1..Cardinality(at),
                      s[Nth(at, m)] = s[Nth(at, n)]
               PROVE  m = n
    BY <1>4 DEF IsInjective
  <2>1. Nth(at, m) = Nth(at, n)
    BY <1>1, <1>5, <1>7 DEF IsInjective
  <2>2. Cardinality({j \in at : j <= Nth(at, m)}) = m /\ Cardinality({j \in at : j <= Nth(at, n)}) = n
    BY <1>3
  <2> QED
    BY <2>1, <2>2
<1> QED
  BY <1>4, <1>5, <1>6, <1>7 DEF IsAmong

(* Among loses no item of s that is in S.                                  *)
LEMMA AmongHas ==
    ASSUME NEW X, NEW s \in Seq(X), NEW S, NEW j \in 1..Len(s), s[j] \in S
    PROVE  \E k \in 1..Len(Among(s, S)) : Among(s, S)[k] = s[j]
<1> DEFINE at == {k \in DOMAIN s : s[k] \in S}
<1>1. Len(s) \in Nat /\ DOMAIN s = 1..Len(s) /\ at \subseteq 1..Len(s) /\ j \in at
  OBVIOUS
<1>2. PICK r \in 1..Cardinality(at) : Nth(at, r) = j
  BY <1>1, RankIsOne
<1>3. Among(s, S) = [n \in 1..Cardinality(at) |-> s[Nth(at, n)]]
  BY DEF Among
<1>4. Among(s, S) \in Seq(X)
  BY AmongIs DEF IsAmong
<1> HIDE DEF at
<1>5. DOMAIN Among(s, S) = 1..Cardinality(at) /\ DOMAIN Among(s, S) = 1..Len(Among(s, S))
  <2>1. DOMAIN Among(s, S) = 1..Cardinality(at)
    BY <1>3
  <2>2. DOMAIN Among(s, S) = 1..Len(Among(s, S))
    BY <1>4
  <2> QED
    BY <2>1, <2>2
<1> QED
  BY <1>2, <1>3, <1>5

(***************************************************************************)
(* The playlist, cut behind its first n items.                             *)
(***************************************************************************)
(* The cursor is the last of the first n items, which were played or are   *)
(* skipped; none of the others was played.  The item of a take that is     *)
(* awaited, p, is not one of the first.  All ids are among the first m.    *)
Cut(g, n, m, p) ==
    /\ g.items \in Seq(1..m) /\ IsInjective(g.items)
    /\ n \in 0..Len(g.items) /\ g.cursor = (IF n = 0 THEN NoItem ELSE g.items[n])
    /\ p \in 0..m /\ g.played \subseteq 1..m
    /\ \A k \in 1..n : g.items[k] \in (g.played \cup g.skipped) \ {p}
    /\ \A k \in (n + 1)..Len(g.items) : g.items[k] \notin g.played

(* In a sequence without doubles every item has one place.                 *)
LEMMA PlaceIs ==
    ASSUME NEW X, NEW s \in Seq(X), IsInjective(s)
    PROVE  /\ \A k \in 1..Len(s) : Place(s, s[k]) = k
           /\ \A x : x \in Range(s) => Place(s, x) \in 1..Len(s) /\ s[Place(s, x)] = x
           /\ \A x : x \notin Range(s) => Place(s, x) = 0
<1>1. DOMAIN s = 1..Len(s) /\ Len(s) \in Nat
  OBVIOUS
<1>2. ASSUME NEW x \in Range(s) PROVE Place(s, x) \in 1..Len(s) /\ s[Place(s, x)] = x
  <2>1. \E k \in DOMAIN s : s[k] = x
    BY DEF Range
  <2> QED
    BY <1>1, <2>1 DEF Place
<1>3. ASSUME NEW k \in 1..Len(s) PROVE Place(s, s[k]) = k
  <2>1. s[k] \in Range(s)
    BY <1>1 DEF Range
  <2>2. Place(s, s[k]) \in 1..Len(s) /\ s[Place(s, s[k])] = s[k]
    BY <1>2, <2>1
  <2> QED
    BY <1>1, <2>2 DEF IsInjective
<1>4. \A x : x \notin Range(s) => Place(s, x) = 0
  BY DEF Place
<1> QED
  BY <1>2, <1>3, <1>4

(* The playlist is cut behind its cursor.                                  *)
LEMMA CutIsAtCursor ==
    ASSUME PlayoutAssumption, NEW m \in Nat, NEW p, NEW g, NEW n, Cut(g, n, m, p)
    PROVE  CursorAt(g) = n
<1>1. g.items \in Seq(1..m) /\ IsInjective(g.items) /\ n \in 0..Len(g.items)
  BY DEF Cut
<1>2. CASE n = 0
  <2>1. g.cursor = 0
    BY <1>2 DEF Cut, PlayoutAssumption
  <2>2. 0 \notin Range(g.items)
    BY <1>1 DEF Range
  <2> QED
    BY <1>1, <1>2, <2>1, <2>2, PlaceIs DEF CursorAt
<1>3. CASE n # 0
  <2>1. g.cursor = g.items[n] /\ n \in 1..Len(g.items)
    BY <1>1, <1>3 DEF Cut
  <2> QED
    BY <1>1, <2>1, PlaceIs DEF CursorAt
<1> QED
  BY <1>2, <1>3

(* Where an item is: up to the cursor or after it. *)
LEMMA PlaceInCut ==
    ASSUME NEW m \in Nat, NEW p, NEW g, NEW n, Cut(g, n, m, p), NEW it \in Range(g.items)
    PROVE  /\ Place(g.items, it) \in 1..Len(g.items) /\ g.items[Place(g.items, it)] = it
           /\ it \in 1..m
           /\ \A k \in 1..Len(g.items) : g.items[k] = it => k = Place(g.items, it)
<1>1. g.items \in Seq(1..m) /\ IsInjective(g.items)
  BY DEF Cut
<1>2. /\ Place(g.items, it) \in 1..Len(g.items) /\ g.items[Place(g.items, it)] = it
      /\ \A k \in 1..Len(g.items) : Place(g.items, g.items[k]) = k
  BY <1>1, PlaceIs
<1> QED
  BY <1>1, <1>2

(***************************************************************************)
(* The operations on the items.                                            *)
(***************************************************************************)
(* The library's fact about SubSeq, with its positions spelled out.        *)
LEMMA Part ==
    ASSUME NEW X, NEW s \in Seq(X), NEW i \in 1..(Len(s) + 1), NEW j \in 0..Len(s), i <= j + 1
    PROVE  /\ SubSeq(s, i, j) \in Seq(X) /\ Len(SubSeq(s, i, j)) = j - i + 1
           /\ \A k \in 1..(j - i + 1) : SubSeq(s, i, j)[k] = s[k + i - 1]
<1>1. Len(s) \in Nat /\ \A k \in i..j : s[k] \in X
  OBVIOUS
<1>2. /\ SubSeq(s, i, j) \in Seq(X)
      /\ Len(SubSeq(s, i, j)) = IF i <= j THEN j - i + 1 ELSE 0
      /\ \A k \in 1..j - i + 1 : SubSeq(s, i, j)[k] = s[i + k - 1]
  BY <1>1, SubSeqProperties
<1> QED
  BY <1>1, <1>2

(* The same of the concatenation.                                          *)
LEMMA Joined ==
    ASSUME NEW X, NEW s \in Seq(X), NEW t \in Seq(X)
    PROVE  /\ s \o t \in Seq(X) /\ Len(s \o t) = Len(s) + Len(t)
           /\ \A k \in 1..(Len(s) + Len(t)) :
                (s \o t)[k] = IF k <= Len(s) THEN s[k] ELSE t[k - Len(s)]
BY ConcatProperties

(* RemoveAt closes the gap.                                                *)
LEMMA Removed ==
    ASSUME NEW X, NEW s \in Seq(X), NEW i \in 1..Len(s)
    PROVE  /\ RemoveAt(s, i) \in Seq(X) /\ Len(RemoveAt(s, i)) = Len(s) - 1
           /\ \A k \in 1..(Len(s) - 1) : RemoveAt(s, i)[k] = IF k < i THEN s[k] ELSE s[k + 1]
<1> DEFINE a == SubSeq(s, 1, i - 1)
           b == SubSeq(s, i + 1, Len(s))
<1>1. Len(s) \in Nat
  OBVIOUS
<1>2. a \in Seq(X) /\ Len(a) = i - 1 /\ \A k \in 1..(i - 1) : a[k] = s[k]
  BY <1>1, Part
<1>3. /\ b \in Seq(X) /\ Len(b) = Len(s) - i
      /\ \A k \in 1..(Len(s) - i) : b[k] = s[k + i]
  BY <1>1, Part
<1> HIDE DEF a, b
<1>4. /\ a \o b \in Seq(X) /\ Len(a \o b) = Len(a) + Len(b)
      /\ \A k \in 1..(Len(a) + Len(b)) : (a \o b)[k] = IF k <= Len(a) THEN a[k] ELSE b[k - Len(a)]
  BY <1>2, <1>3, Joined
<1>5. RemoveAt(s, i) = a \o b
  BY DEF RemoveAt, a, b
<1>6. ASSUME NEW k \in 1..(Len(s) - 1)
      PROVE  (a \o b)[k] = IF k < i THEN s[k] ELSE s[k + 1]
  <2>1. k \in 1..(Len(a) + Len(b)) /\ (k < i <=> k <= Len(a))
    BY <1>1, <1>2, <1>3
  <2>2. CASE k < i
    BY <1>2, <1>4, <2>1, <2>2
  <2>3. CASE ~ (k < i)
    <3>1. (k - Len(a)) \in 1..(Len(s) - i) /\ (k - Len(a)) + i = k + 1
      BY <1>1, <1>2, <2>3
    <3>2. b[k - Len(a)] = s[(k - Len(a)) + i]
      BY <1>3, <3>1
    <3> QED
      BY <1>4, <2>1, <2>3, <3>1, <3>2
  <2> QED
    BY <2>2, <2>3
<1>7. (i - 1) + (Len(s) - i) = Len(s) - 1
  BY <1>1
<1>8. Len(a \o b) = Len(s) - 1
  BY <1>2, <1>3, <1>4, <1>7
<1> QED
  BY ONLY <1>4, <1>5, <1>6, <1>8

IsInserted(t, X, s, i, e) ==
    /\ t \in Seq(X) /\ Len(t) = Len(s) + 1
    /\ \A k \in 1..(Len(s) + 1) :
         t[k] = IF k < i THEN s[k] ELSE IF k = i THEN e ELSE s[k - 1]

(* InsertAt makes room for one item.                                       *)
LEMMA Inserted ==
    ASSUME NEW X, NEW s \in Seq(X), NEW i \in 1..(Len(s) + 1), NEW e \in X
    PROVE  IsInserted(InsertAt(s, i, e), X, s, i, e)
<1> DEFINE a == SubSeq(s, 1, i - 1)
           b == SubSeq(s, i, Len(s))
<1>1. Len(s) \in Nat
  OBVIOUS
<1>2. a \in Seq(X) /\ Len(a) = i - 1 /\ \A k \in 1..(i - 1) : a[k] = s[k]
  BY <1>1, Part
<1>3. /\ b \in Seq(X) /\ Len(b) = Len(s) - i + 1
      /\ \A k \in 1..(Len(s) - i + 1) : b[k] = s[k + i - 1]
  BY <1>1, Part
<1> HIDE DEF a, b
<1>4. <<e>> \in Seq(X) /\ Len(<<e>>) = 1 /\ <<e>>[1] = e
  OBVIOUS
<1> DEFINE c == a \o <<e>>
<1>5. /\ c \in Seq(X) /\ Len(c) = i
      /\ \A k \in 1..i : c[k] = IF k < i THEN s[k] ELSE e
  BY <1>2, <1>4, Joined
<1> HIDE DEF c
<1>6. /\ c \o b \in Seq(X) /\ Len(c \o b) = Len(c) + Len(b)
      /\ \A k \in 1..(Len(c) + Len(b)) : (c \o b)[k] = IF k <= Len(c) THEN c[k] ELSE b[k - Len(c)]
  BY <1>3, <1>5, Joined
<1>7. InsertAt(s, i, e) = c \o b
  BY DEF InsertAt, a, b, c
<1>8. ASSUME NEW k \in 1..(Len(s) + 1)
      PROVE  (c \o b)[k] = IF k < i THEN s[k] ELSE IF k = i THEN e ELSE s[k - 1]
  <2>1. k \in 1..(Len(c) + Len(b)) /\ (k <= i <=> k <= Len(c))
    BY ONLY <1>1, <1>3, <1>5, k \in 1..(Len(s) + 1), i \in 1..(Len(s) + 1)
  <2>2. CASE k <= i
    BY <1>5, <1>6, <2>1, <2>2
  <2>3. CASE ~ (k <= i)
    <3>1. (k - Len(c)) \in 1..(Len(s) - i + 1) /\ (k - Len(c)) + i - 1 = k - 1
      BY <1>1, <1>5, <2>3
    <3>2. b[k - Len(c)] = s[(k - Len(c)) + i - 1]
      BY <1>3, <3>1
    <3> QED
      BY ONLY <1>5, <1>6, <2>1, <2>3, <3>1, <3>2, k \in 1..(Len(s) + 1), i \in 1..(Len(s) + 1)
  <2> QED
    BY <2>2, <2>3
<1>9. Len(c \o b) = Len(s) + 1
  BY ONLY <1>1, <1>3, <1>5, <1>6, i \in 1..(Len(s) + 1)
<1> QED
  BY ONLY <1>5, <1>6, <1>7, <1>8, <1>9, b \in Seq(X) DEF IsInserted


(* The items of g in another order, some of them left out: the k-th was    *)
(* the Was[k]-th.                                                          *)
LEMMA Rearranged ==
    ASSUME NEW m \in Nat, NEW p, NEW g, NEW n, Cut(g, n, m, p), NEW f,
           f.items \in Seq(1..m), f.played \subseteq 1..m, NEW Was \in [1..Len(f.items) -> 1..Len(g.items)],
           IsInjective(Was), \A k \in 1..Len(f.items) : f.items[k] = g.items[Was[k]],
           NEW c \in 0..Len(f.items), f.cursor = (IF c = 0 THEN NoItem ELSE f.items[c]),
           \A k \in 1..c :
                Was[k] <= n \/ (f.items[k] \in f.played \cup f.skipped /\ f.items[k] # p),
           \A k \in (c + 1)..Len(f.items) : Was[k] > n,
           \A k \in 1..Len(f.items) :
                /\ f.items[k] \in g.played \cup g.skipped => f.items[k] \in f.played \cup f.skipped
                /\ Was[k] > n /\ f.items[k] \notin g.played => f.items[k] \notin f.played \/ k <= c
    PROVE  Cut(f, c, m, p)
<1>1. /\ g.items \in Seq(1..m) /\ IsInjective(g.items) /\ p \in 0..m /\ n \in 0..Len(g.items)
      /\ \A k \in 1..n : g.items[k] \in (g.played \cup g.skipped) \ {p}
      /\ \A k \in (n + 1)..Len(g.items) : g.items[k] \notin g.played
  BY DEF Cut
<1>2. /\ DOMAIN g.items = 1..Len(g.items) /\ DOMAIN f.items = 1..Len(f.items)
      /\ Len(g.items) \in Nat /\ Len(f.items) \in Nat
  BY <1>1
<1> DEFINE Moved == \A k \in 1..Len(f.items) : f.items[k] = g.items[Was[k]]
<1>3. IsInjective(f.items)
  <2> SUFFICES ASSUME NEW k \in 1..Len(f.items), NEW l \in 1..Len(f.items),
                      f.items[k] = f.items[l]
               PROVE  k = l
    BY <1>2 DEF IsInjective
  <2>1. Was[k] \in DOMAIN g.items /\ Was[l] \in DOMAIN g.items
    BY <1>2
  <2>2. g.items[Was[k]] = g.items[Was[l]]
    OBVIOUS
  <2>3. Was[k] = Was[l]
    BY ONLY <1>1, <2>1, <2>2 DEF IsInjective
  <2> QED
    BY ONLY <2>3, IsInjective(Was), Was \in [1..Len(f.items) -> 1..Len(g.items)],
            k \in 1..Len(f.items), l \in 1..Len(f.items) DEF IsInjective
<1>4. ASSUME NEW k \in 1..c PROVE f.items[k] \in (f.played \cup f.skipped) \ {p}
  <2>1. k \in 1..Len(f.items) /\ Was[k] \in 1..Len(g.items) /\ f.items[k] = g.items[Was[k]]
    BY ONLY <1>2, <1>4, c \in 0..Len(f.items), Moved, Was \in [1..Len(f.items) -> 1..Len(g.items)]
  <2>2. CASE Was[k] <= n
    <3>1. Was[k] \in 1..n
      BY <1>1, <2>1, <2>2
    <3> QED
      BY <1>1, <2>1, <3>1
  <2> QED
    BY <2>2
<1>5. ASSUME NEW k \in (c + 1)..Len(f.items) PROVE f.items[k] \notin f.played
  <2>1. k \in 1..Len(f.items) /\ ~ (k <= c) /\ Was[k] > n
    BY <1>2
  <2>2. Was[k] \in (n + 1)..Len(g.items) /\ f.items[k] = g.items[Was[k]]
    BY ONLY <1>1, <1>2, <2>1, Moved, Was \in [1..Len(f.items) -> 1..Len(g.items)]
  <2> QED
    BY <1>1, <2>1, <2>2
<1> QED
  BY <1>1, <1>3, <1>4, <1>5 DEF Cut

(* The operator takes an item off the list, not the one of the cursor.     *)
LEMMA DropCuts ==
    ASSUME NEW m \in Nat, NEW p, NEW g, GroupShape(g), NEW n, Cut(g, n, m, p),
           NEW it \in Range(g.items), it # g.cursor
    PROVE  \E k : Cut(Drop(g, it), k, m, p)
<1> SUFFICES ASSUME NEW f, f = Drop(g, it), NEW i, i = Place(g.items, it)
             PROVE  \E k : Cut(f, k, m, p)
  OBVIOUS
<1>1. i \in 1..Len(g.items) /\ g.items[i] = it
  BY ONLY i = Place(g.items, it), it \in Range(g.items), Cut(g, n, m, p), m \in Nat, PlaceInCut
<1>2. /\ g.items \in Seq(1..m) /\ IsInjective(g.items) /\ Len(g.items) \in Nat
      /\ n \in 0..Len(g.items) /\ g.cursor = (IF n = 0 THEN NoItem ELSE g.items[n])
  BY DEF Cut
<1>3. /\ f.items = RemoveAt(g.items, i)
      /\ f.skipped = g.skipped \ {it} /\ f.played = g.played \ {it} /\ f.cursor = g.cursor
  BY DEF Drop, GroupShape
<1>4. /\ f.items \in Seq(1..m) /\ Len(f.items) = Len(g.items) - 1
      /\ \A k \in 1..(Len(g.items) - 1) :
            f.items[k] = IF k < i THEN g.items[k] ELSE g.items[k + 1]
  <2> DEFINE r == RemoveAt(g.items, i)
  <2>1. /\ r \in Seq(1..m) /\ Len(r) = Len(g.items) - 1
        /\ \A k \in 1..(Len(g.items) - 1) : r[k] = IF k < i THEN g.items[k] ELSE g.items[k + 1]
    BY ONLY <1>1, <1>2, Removed
  <2> HIDE DEF r
  <2>2. f.items = r
    BY <1>3 DEF r
  <2> QED
    BY ONLY <2>1, <2>2
<1>5. i # n
  BY <1>1, <1>2
<1> DEFINE Was == [k \in 1..Len(f.items) |-> IF k < i THEN k ELSE k + 1]
           c == IF i < n THEN n - 1 ELSE n
<1>6. Was \in [1..Len(f.items) -> 1..Len(g.items)] /\ IsInjective(Was)
  <2>1. \A k \in 1..Len(f.items) : (IF k < i THEN k ELSE k + 1) \in 1..Len(g.items)
    BY ONLY <1>1, <1>2, <1>4
  <2>2. \A k, l \in 1..Len(f.items) : Was[k] = Was[l] => k = l
    <3> SUFFICES ASSUME NEW k \in 1..Len(f.items), NEW l \in 1..Len(f.items), Was[k] = Was[l]
                 PROVE  k = l
      OBVIOUS
    <3>1. k \in Int /\ l \in Int /\ i \in Int
      BY <1>1, <1>2, <1>4
    <3>2. Was[k] = (IF k < i THEN k ELSE k + 1) /\ Was[l] = (IF l < i THEN l ELSE l + 1)
      OBVIOUS
    <3> QED
      BY ONLY <3>1, <3>2, Was[k] = Was[l]
  <2> QED
    BY ONLY <2>1, <2>2 DEF IsInjective
<1>7. \A k \in 1..Len(f.items) : f.items[k] = g.items[Was[k]] /\ Was[k] # i
  <2> SUFFICES ASSUME NEW k \in 1..Len(f.items)
               PROVE  f.items[k] = g.items[Was[k]] /\ Was[k] # i
    OBVIOUS
  <2>1. Was[k] = IF k < i THEN k ELSE k + 1
    OBVIOUS
  <2> HIDE DEF Was
  <2>2. k \in Int /\ i \in Int
    BY ONLY <1>1, <1>2, <1>4, k \in 1..Len(f.items)
  <2>3. f.items[k] = IF k < i THEN g.items[k] ELSE g.items[k + 1]
    BY ONLY <1>2, <1>4, k \in 1..Len(f.items)
  <2>4. CASE k < i
    BY ONLY <2>1, <2>2, <2>3, <2>4
  <2>5. CASE ~ (k < i)
    BY ONLY <2>1, <2>2, <2>3, <2>5
  <2> QED
    BY ONLY <2>4, <2>5
<1>8. c \in 0..Len(f.items)
  BY <1>1, <1>2, <1>4, <1>5
<1>9. \A k \in 1..Len(f.items) : (k <= c <=> Was[k] <= n)
  BY <1>1, <1>2, <1>4, <1>5
<1>10. c # 0 => Was[c] = n
  BY <1>1, <1>2, <1>4, <1>5
<1>11. c = 0 <=> n = 0
  BY <1>1, <1>2
<1> HIDE DEF Was, c
<1>12. f.cursor = (IF c = 0 THEN NoItem ELSE f.items[c])
  BY <1>2, <1>3, <1>4, <1>7, <1>8, <1>10, <1>11
<1>13. \A k \in 1..Len(f.items) : f.items[k] # it
  <2> SUFFICES ASSUME NEW k \in 1..Len(f.items), f.items[k] = it PROVE FALSE
    OBVIOUS
  <2>1. g.items[Was[k]] = g.items[i] /\ Was[k] # i
    BY <1>1, <1>7
  <2>2. Was[k] \in 1..Len(g.items)
    BY <1>6
  <2> QED
    BY ONLY <1>1, <1>2, <2>1, <2>2 DEF IsInjective
<1>14. Cut(f, c, m, p)
  <2>1. \A k \in 1..c : Was[k] <= n
    BY <1>4, <1>8, <1>9, <1>2
  <2>2. \A k \in (c + 1)..Len(f.items) : Was[k] > n
    <3> SUFFICES ASSUME NEW k \in (c + 1)..Len(f.items) PROVE Was[k] > n
      OBVIOUS
    <3>1. Len(f.items) \in Nat /\ c \in Int /\ n \in Int
      BY ONLY <1>2, <1>4, <1>8
    <3>2. k \in 1..Len(f.items) /\ ~ (k <= c)
      BY ONLY <1>8, <3>1, k \in (c + 1)..Len(f.items)
    <3>3. ~ (Was[k] <= n) /\ Was[k] \in 1..Len(g.items)
      BY ONLY <1>6, <1>9, <3>2
    <3> QED
      BY ONLY <3>1, <3>3
  <2>3. f.played \subseteq 1..m
    BY <1>3 DEF Cut
  <2>4. \A k \in 1..Len(f.items) :
                /\ f.items[k] \in g.played \cup g.skipped => f.items[k] \in f.played \cup f.skipped
                /\ f.items[k] \notin g.played => f.items[k] \notin f.played
    BY <1>3, <1>13
  <2> QED
    BY <1>4, <1>6, <1>7, <1>8, <1>12, <2>1, <2>2, <2>3, <2>4, Rearranged
<1> QED
  BY <1>14

(* The operator moves an item that is to come: it stays behind the cursor. *)
LEMMA MoveCuts ==
    ASSUME NEW m \in Nat, NEW p, NEW g, GroupShape(g), NEW n, Cut(g, n, m, p), CursorAt(g) = n,
           NEW it \in Range(g.items), Place(g.items, it) > n, NEW to \in 1..Len(g.items)
    PROVE  \E k : Cut(Move(g, it, to), k, m, p)
<1> DEFINE last == IF to > Len(g.items) THEN Len(g.items) ELSE to
<1> SUFFICES ASSUME NEW f, f = Move(g, it, to), NEW i, i = Place(g.items, it),
                    NEW r, r = RemoveAt(g.items, i),
                    NEW place, place = IF last <= n THEN n + 1 ELSE last
             PROVE  Cut(f, n, m, p)
  OBVIOUS
<1>1. i \in 1..Len(g.items) /\ g.items[i] = it /\ it \in 1..m /\ i > n
  BY PlaceInCut
<1>2. /\ g.items \in Seq(1..m) /\ IsInjective(g.items) /\ Len(g.items) \in Nat
      /\ n \in 0..Len(g.items) /\ g.cursor = (IF n = 0 THEN NoItem ELSE g.items[n])
      /\ g.played \subseteq 1..m
  BY DEF Cut
<1>3. place \in (n + 1)..Len(g.items)
  BY <1>1, <1>2
<1>4. /\ f.items = InsertAt(r, place, it)
      /\ f.skipped = g.skipped /\ f.played = g.played /\ f.cursor = g.cursor
  BY DEF Move, GroupShape
<1>5. /\ r \in Seq(1..m) /\ Len(r) = Len(g.items) - 1
      /\ \A k \in 1..(Len(g.items) - 1) : r[k] = IF k < i THEN g.items[k] ELSE g.items[k + 1]
  BY <1>1, <1>2, Removed
<1>6. /\ f.items \in Seq(1..m) /\ Len(f.items) = Len(g.items)
      /\ \A k \in 1..Len(g.items) :
            f.items[k] = IF k < place THEN r[k] ELSE IF k = place THEN it ELSE r[k - 1]
  <2>1. place \in 1..(Len(r) + 1) /\ Len(r) + 1 = Len(g.items)
    BY <1>2, <1>3, <1>5
  <2>2. IsInserted(f.items, 1..m, r, place, it)
    BY <1>1, <1>4, <1>5, <2>1, Inserted
  <2> QED
    BY ONLY <2>1, <2>2 DEF IsInserted
<1> DEFINE Before(k) == IF k < i THEN k ELSE k + 1
           Was == [k \in 1..Len(f.items) |->
                    IF k < place THEN Before(k) ELSE IF k = place THEN i ELSE Before(k - 1)]
<1> DEFINE WasAt(k) == IF k < place THEN Before(k) ELSE IF k = place THEN i ELSE Before(k - 1)
<1>7. \A k \in 1..Len(f.items) : Was[k] = WasAt(k)
  OBVIOUS
<1>8. Was \in [1..Len(f.items) -> 1..Len(g.items)]
  <2>1. \A k \in 1..Len(f.items) : WasAt(k) \in 1..Len(g.items)
    <3> SUFFICES ASSUME NEW k \in 1..Len(f.items) PROVE WasAt(k) \in 1..Len(g.items)
      OBVIOUS
    <3>1. k \in 1..Len(g.items)
      BY <1>6
    <3> QED
      BY ONLY <1>1, <1>2, <1>3, <3>1
  <2> HIDE DEF WasAt
  <2>2. Was = [k \in 1..Len(f.items) |-> WasAt(k)]
    BY DEF WasAt
  <2> QED
    BY ONLY <2>1, <2>2
<1> HIDE DEF Was
<1>9. ASSUME NEW k \in 1..Len(f.items)
      PROVE  /\ Was[k] \in 1..Len(g.items) /\ f.items[k] = g.items[Was[k]]
             /\ (k <= n <=> Was[k] <= n) /\ (k <= n => Was[k] = k)
  <2>1. k \in 1..Len(g.items) /\ Len(g.items) \in Nat
    BY <1>2, <1>6
  <2>5. Was[k] = WasAt(k)
    BY <1>7
  <2>2. CASE k < place
    <3>1. k \in 1..(Len(g.items) - 1) /\ f.items[k] = r[k] /\ Was[k] = Before(k)
      BY <1>3, <1>6, <2>1, <2>2, <2>5
    <3>2. f.items[k] = g.items[Was[k]]
      BY <1>5, <3>1
    <3> QED
      BY ONLY <1>1, <1>2, <1>3, <2>1, <2>2, <3>1, <3>2
  <2>3. CASE k = place
    <3>1. Was[k] = i /\ f.items[k] = it
      BY <1>6, <2>1, <2>3, <2>5
    <3> QED
      BY ONLY <1>1, <1>2, <1>3, <2>1, <2>3, <3>1
  <2>4. CASE k > place
    <3> SUFFICES ASSUME NEW j, j = k - 1
                 PROVE  /\ Was[k] \in 1..Len(g.items) /\ f.items[k] = g.items[Was[k]]
                        /\ ~ (k <= n) /\ ~ (Was[k] <= n)
      BY <1>2, <2>1
    <3>1. /\ j \in 1..(Len(g.items) - 1) /\ j > n
          /\ ~ (k <= n) /\ ~ (k < place) /\ k # place
      BY ONLY <1>2, <1>3, <2>1, <2>4, j = k - 1
    <3>2. f.items[k] = r[j] /\ Was[k] = Before(j)
      BY ONLY <1>6, <2>1, <2>5, <3>1, j = k - 1
    <3>3. f.items[k] = g.items[Was[k]]
      BY ONLY <1>5, <3>1, <3>2
    <3>4. Before(j) \in 1..Len(g.items) /\ ~ (Before(j) <= n)
      BY ONLY <1>1, <1>2, <3>1
    <3> QED
      BY ONLY <3>1, <3>2, <3>3, <3>4
  <2> QED
    BY <1>2, <1>3, <2>1, <2>2, <2>3, <2>4
<1>10. IsInjective(Was)
  <2> SUFFICES ASSUME NEW k \in 1..Len(f.items), NEW l \in 1..Len(f.items), Was[k] = Was[l]
               PROVE  k = l
    <3>1. DOMAIN Was = 1..Len(f.items)
      BY <1>8
    <3> QED
      BY <3>1 DEF IsInjective
  <2>1. k \in Int /\ l \in Int /\ i \in Int /\ place \in Int
    BY <1>1, <1>2, <1>3, <1>6
  <2>2. /\ Was[k] = IF k < place THEN Before(k) ELSE IF k = place THEN i ELSE Before(k - 1)
        /\ Was[l] = IF l < place THEN Before(l) ELSE IF l = place THEN i ELSE Before(l - 1)
    BY <1>7
  <2> QED
    BY ONLY <2>1, <2>2, Was[k] = Was[l]
<1>11. \A k \in 1..n : k \in 1..Len(f.items) /\ k <= n
  BY ONLY <1>2, <1>6
<1>12. \A k \in 1..n : Was[k] <= n /\ f.items[k] = g.items[k]
  BY ONLY <1>9, <1>11
<1>13. n \in 0..Len(f.items) /\ f.cursor = (IF n = 0 THEN NoItem ELSE f.items[n])
  BY ONLY <1>2, <1>4, <1>6, <1>12
<1>14. \A k \in (n + 1)..Len(f.items) : Was[k] > n
  <2> SUFFICES ASSUME NEW k \in (n + 1)..Len(f.items) PROVE Was[k] > n
    OBVIOUS
  <2>1. k \in 1..Len(f.items) /\ ~ (k <= n)
    BY ONLY <1>2, <1>6, k \in (n + 1)..Len(f.items)
  <2> QED
    BY ONLY <1>2, <1>9, <2>1
<1>15. f.items \in Seq(1..m) /\ f.played \subseteq 1..m /\ \A k \in 1..Len(f.items) : f.items[k] = g.items[Was[k]]
  BY <1>2, <1>4, <1>6, <1>9
<1> QED
  BY ONLY <1>4, <1>10, <1>8, <1>13, <1>12, <1>14, <1>15, Cut(g, n, m, p), m \in Nat, Rearranged

(* Only items that are to come may be skipped, or not any more. *)
LEMMA SkippedLater ==
    ASSUME NEW m \in Nat, NEW p, NEW g, NEW n, Cut(g, n, m, p), NEW f,
           f.items = g.items, f.played = g.played, f.cursor = g.cursor,
           \A k \in 1..n : g.items[k] \in g.skipped => g.items[k] \in f.skipped
    PROVE  Cut(f, n, m, p)
BY DEF Cut

(* The operator marks an item that is to come, or jumps to one.            *)
LEMMA SkipCuts ==
    ASSUME NEW m \in Nat, NEW p, NEW g, GroupShape(g), NEW n, Cut(g, n, m, p), CursorAt(g) = n,
           NEW it \in Range(g.items), Place(g.items, it) > n
    PROVE  /\ \A on \in BOOLEAN : \E k : Cut(SkipItem(g, it, on), k, m, p)
           /\ \E k : Cut(GoTo(g, it), k, m, p)
<1>1. Len(g.items) \in Nat /\ n \in 0..Len(g.items)
  BY DEF Cut
<1>2. \A k \in 1..n : g.items[k] # it
  <2> SUFFICES ASSUME NEW k \in 1..n, g.items[k] = it PROVE FALSE
    OBVIOUS
  <2>1. k \in 1..Len(g.items) /\ ~ (k > n)
    BY <1>1
  <2> QED
    BY <2>1, PlaceInCut
<1>3. ASSUME NEW on \in BOOLEAN PROVE \E k : Cut(SkipItem(g, it, on), k, m, p)
  <2> SUFFICES ASSUME NEW f, f = SkipItem(g, it, on) PROVE Cut(f, n, m, p)
    OBVIOUS
  <2>1. /\ f.items = g.items /\ f.played = g.played /\ f.cursor = g.cursor
        /\ f.skipped = IF on THEN g.skipped \cup {it} ELSE g.skipped \ {it}
    BY DEF SkipItem, GroupShape
  <2> QED
    BY <1>2, <2>1, SkippedLater
<1>4. \E k : Cut(GoTo(g, it), k, m, p)
  <2> SUFFICES ASSUME NEW f, f = GoTo(g, it) PROVE Cut(f, n, m, p)
    OBVIOUS
  <2>1. /\ f.items = g.items /\ f.played = g.played /\ f.cursor = g.cursor
        /\ g.skipped \ {it} \subseteq f.skipped
    BY DEF GoTo, GroupShape
  <2> QED
    BY <1>2, <2>1, SkippedLater
<1> QED
  BY <1>3, <1>4

(* The cursor goes back to the start and nothing counts as played.         *)
LEMMA ResetCuts ==
    ASSUME PlayoutAssumption, NEW m \in Nat, NEW p, NEW g, GroupShape(g), NEW n, Cut(g, n, m, p)
    PROVE  \E k : Cut(Reset(g), k, m, p)
<1> SUFFICES ASSUME NEW f, f = Reset(g) PROVE Cut(f, 0, m, p)
  OBVIOUS
<1>1. f.items = g.items /\ f.played = {} /\ f.cursor = NoItem
  BY DEF Reset, GroupShape
<1> QED
  BY <1>1 DEF Cut

(* A new item, after the cursor. *)
LEMMA LaterCuts ==
    ASSUME NEW m \in Nat, NEW p, NEW g, NEW n, Cut(g, n, m, p), NEW i \in (n + 1)..(Len(g.items) + 1),
           NEW f, f.skipped = g.skipped, f.played = g.played, f.cursor = g.cursor,
           f.items \in Seq(1..(m + 1)), Len(f.items) = Len(g.items) + 1,
           \A k \in 1..(Len(g.items) + 1) :
                f.items[k] = IF k < i THEN g.items[k] ELSE IF k = i THEN m + 1 ELSE g.items[k - 1]
    PROVE  Cut(f, n, m + 1, p)
<1>1. /\ g.items \in Seq(1..m) /\ IsInjective(g.items) /\ Len(g.items) \in Nat
      /\ n \in 0..Len(g.items) /\ g.cursor = (IF n = 0 THEN NoItem ELSE g.items[n])
      /\ p \in 0..m /\ g.played \subseteq 1..m
      /\ \A k \in 1..n : g.items[k] \in (g.played \cup g.skipped) \ {p}
      /\ \A k \in (n + 1)..Len(g.items) : g.items[k] \notin g.played
  BY DEF Cut
<1> DEFINE Was(k) == IF k < i THEN k ELSE k - 1
<1>2. ASSUME NEW k \in 1..Len(f.items), k # i
      PROVE  /\ Was(k) \in 1..Len(g.items) /\ f.items[k] = g.items[Was(k)]
             /\ f.items[k] \in 1..m /\ (k > n => Was(k) > n)
  <2>1. k \in 1..(Len(g.items) + 1)
    OBVIOUS
  <2>2. Was(k) \in 1..Len(g.items) /\ (k > n => Was(k) > n)
    BY ONLY <1>1, <1>2, <2>1, i \in (n + 1)..(Len(g.items) + 1)
  <2>3. f.items[k] = g.items[Was(k)]
    BY <1>1, <1>2, <2>1
  <2> HIDE DEF Was
  <2> QED
    BY ONLY <1>1, <2>2, <2>3
<1>3. i \in 1..Len(f.items) /\ f.items[i] = m + 1
  BY <1>1
<1>4. IsInjective(f.items)
  <2> SUFFICES ASSUME NEW k \in 1..Len(f.items), NEW l \in 1..Len(f.items), f.items[k] = f.items[l]
               PROVE  k = l
    <3>1. DOMAIN f.items = 1..Len(f.items)
      OBVIOUS
    <3> QED
      BY <3>1 DEF IsInjective
  <2>1. CASE k = i \/ l = i
    BY <1>2, <1>3, <2>1
  <2>2. CASE k # i /\ l # i
    <3>1. /\ Was(k) \in 1..Len(g.items) /\ Was(l) \in 1..Len(g.items)
          /\ g.items[Was(k)] = g.items[Was(l)]
      BY ONLY <1>2, <2>2, f.items[k] = f.items[l], k \in 1..Len(f.items), l \in 1..Len(f.items)
    <3>2. Was(k) = Was(l)
      <4>1. \A a, b \in 1..Len(g.items) : g.items[a] = g.items[b] => a = b
        <5>1. DOMAIN g.items = 1..Len(g.items)
          BY ONLY <1>1
        <5> QED
          BY ONLY <1>1, <5>1 DEF IsInjective
      <4> HIDE DEF Was
      <4> QED
        BY ONLY <3>1, <4>1
    <3>3. k \in Int /\ l \in Int /\ i \in Int
      BY <1>1
    <3> QED
      BY ONLY <2>2, <3>2, <3>3
  <2> QED
    BY <2>1, <2>2
<1>5. ASSUME NEW k \in 1..n PROVE k \in 1..Len(f.items) /\ f.items[k] = g.items[k]
  <2>1. k \in 1..Len(f.items) /\ k \in 1..(Len(g.items) + 1) /\ k < i
    BY ONLY <1>1, k \in 1..n, i \in (n + 1)..(Len(g.items) + 1), Len(f.items) = Len(g.items) + 1
  <2> QED
    BY <2>1
<1>6. ASSUME NEW k \in (n + 1)..Len(f.items) PROVE f.items[k] \notin g.played
  <2>1. k \in 1..Len(f.items) /\ k > n
    BY <1>1
  <2>2. CASE k = i
    BY <1>1, <1>3, <2>2
  <2>3. CASE k # i
    <3>1. Was(k) \in 1..Len(g.items) /\ Was(k) > n /\ f.items[k] = g.items[Was(k)]
      BY <1>2, <2>1, <2>3
    <3> HIDE DEF Was
    <3>2. Was(k) \in (n + 1)..Len(g.items)
      BY ONLY <1>1, <3>1
    <3> QED
      BY <1>1, <3>1, <3>2
  <2> QED
    BY <2>2, <2>3
<1>7. n \in 0..Len(f.items) /\ f.cursor = (IF n = 0 THEN NoItem ELSE f.items[n])
  BY <1>1, <1>5
<1>8. p \in 0..(m + 1) /\ f.played \subseteq 1..(m + 1)
  BY <1>1
<1> QED
  BY <1>1, <1>4, <1>5, <1>6, <1>7, <1>8 DEF Cut

(* A new item at the end, behind the cursor, or alone.                     *)
LEMMA AddCuts ==
    ASSUME PlayoutAssumption, NEW m \in Nat, NEW p, NEW g, GroupShape(g), NEW n, Cut(g, n, m, p),
           CursorAt(g) = n, NEW mode \in {"replace", "next", "append"}
    PROVE  \E k : Cut(Add(g, m + 1, mode), k, m + 1, p)
<1> SUFFICES ASSUME NEW f, f = Add(g, m + 1, mode) PROVE \E k : Cut(f, k, m + 1, p)
  OBVIOUS
<1>1. /\ g.items \in Seq(1..(m + 1)) /\ Len(g.items) \in Nat /\ n \in 0..Len(g.items)
      /\ p \in 0..(m + 1) /\ m + 1 \in 1..(m + 1) /\ m + 1 \in Nat
  <2>1. g.items \in Seq(1..m) /\ n \in 0..Len(g.items) /\ p \in 0..m
    BY DEF Cut
  <2>2. g.items \in Seq(1..(m + 1))
    BY <2>1
  <2> QED
    BY <2>1, <2>2
<1>2. CASE mode = "replace"
  <2>1. f.items = <<m + 1>> /\ f.played = {} /\ f.cursor = NoItem
    BY <1>2 DEF Add, GroupShape
  <2>2. <<m + 1>> \in Seq(1..(m + 1)) /\ IsInjective(<<m + 1>>) /\ Len(<<m + 1>>) = 1
    BY <1>1 DEF IsInjective
  <2>3. Cut(f, 0, m + 1, p)
    <3>1. f.items \in Seq(1..(m + 1)) /\ IsInjective(f.items) /\ Len(f.items) = 1
      BY ONLY <2>1, <2>2
    <3>2. \A k \in 1..0 : FALSE
      OBVIOUS
    <3> QED
      BY <1>1, <2>1, <3>1, <3>2 DEF Cut
  <2> QED
    BY <2>3
<1>3. CASE mode = "next"
  <2>1. /\ f.items = InsertAt(g.items, n + 1, m + 1)
        /\ f.skipped = g.skipped /\ f.played = g.played /\ f.cursor = g.cursor
    BY <1>3 DEF Add, GroupShape
  <2>2. n + 1 \in 1..(Len(g.items) + 1) /\ n + 1 \in (n + 1)..(Len(g.items) + 1)
    BY <1>1
  <2>3. IsInserted(f.items, 1..(m + 1), g.items, n + 1, m + 1)
    BY <1>1, <2>1, <2>2, Inserted
  <2>4. /\ f.items \in Seq(1..(m + 1)) /\ Len(f.items) = Len(g.items) + 1
        /\ \A k \in 1..(Len(g.items) + 1) : f.items[k] =
              IF k < n + 1 THEN g.items[k] ELSE IF k = n + 1 THEN m + 1 ELSE g.items[k - 1]
    BY ONLY <2>3 DEF IsInserted
  <2>5. Cut(f, n, m + 1, p)
    BY ONLY <2>1, <2>2, <2>4, LaterCuts, Cut(g, n, m, p), m \in Nat
  <2> QED
    BY <2>5
<1>4. CASE mode = "append"
  <2>1. /\ f.items = Append(g.items, m + 1)
        /\ f.skipped = g.skipped /\ f.played = g.played /\ f.cursor = g.cursor
    BY <1>4 DEF Add, GroupShape
  <2> DEFINE i == Len(g.items) + 1
  <2>2. /\ f.items \in Seq(1..(m + 1)) /\ Len(f.items) = Len(g.items) + 1
        /\ \A k \in 1..(Len(g.items) + 1) :
              f.items[k] = IF k < i THEN g.items[k] ELSE IF k = i THEN m + 1 ELSE g.items[k - 1]
    BY ONLY <1>1, <2>1
  <2>3. i \in (n + 1)..(Len(g.items) + 1)
    BY <1>1
  <2> HIDE DEF i
  <2>4. Cut(f, n, m + 1, p)
    BY ONLY <2>1, <2>2, <2>3, LaterCuts, Cut(g, n, m, p), m \in Nat
  <2> QED
    BY <2>4
<1> QED
  BY <1>2, <1>3, <1>4

(* What an output must have is still to come. *)
LEMMA WantCuts ==
    ASSUME PlayoutAssumption, NEW m \in Nat, NEW p, NEW g, NEW n, Cut(g, n, m, p), CursorAt(g) = n,
           NEW u
    PROVE  Cut(g, n, m, NoItem) /\ Cut(g, n, m, Want(g, u))
<1> DEFINE rest == SubSeq(g.items, n + 1, Len(g.items))
           ahead == Among(rest, Range(rest) \ g.skipped)
<1>1. /\ g.items \in Seq(1..m) /\ IsInjective(g.items) /\ Len(g.items) \in Nat
      /\ n \in 0..Len(g.items) /\ g.cursor = (IF n = 0 THEN NoItem ELSE g.items[n])
      /\ g.played \subseteq 1..m
      /\ \A k \in 1..n : g.items[k] \in g.played \cup g.skipped
      /\ \A k \in (n + 1)..Len(g.items) : g.items[k] \notin g.played
  BY DEF Cut
<1>2. ASSUME NEW q \in 0..m, \A k \in 1..n : g.items[k] # q PROVE Cut(g, n, m, q)
  BY <1>1, <1>2 DEF Cut
<1>3. /\ rest \in Seq(1..m) /\ Len(rest) = Len(g.items) - n
      /\ \A k \in 1..(Len(g.items) - n) : rest[k] = g.items[k + n]
  <2>1. n + 1 \in 1..(Len(g.items) + 1) /\ Len(g.items) \in 0..Len(g.items)
        /\ n + 1 <= Len(g.items) + 1
    BY <1>1
  <2>2. /\ rest \in Seq(1..m) /\ Len(rest) = Len(g.items) - (n + 1) + 1
        /\ \A k \in 1..(Len(g.items) - (n + 1) + 1) : rest[k] = g.items[k + (n + 1) - 1]
    BY <1>1, <2>1, Part
  <2>3. Len(g.items) - (n + 1) + 1 = Len(g.items) - n
        /\ \A k \in 1..(Len(g.items) - n) : k + (n + 1) - 1 = k + n
    BY <1>1
  <2> HIDE DEF rest
  <2> QED
    BY ONLY <2>2, <2>3
<1> HIDE DEF rest
<1>4. ahead \in Seq(1..m) /\ \A k \in 1..Len(ahead) : \E j \in 1..Len(rest) : ahead[k] = rest[j]
  <2>1. IsAmong(ahead, 1..m, rest, Range(rest) \ g.skipped)
    BY <1>3, AmongIs
  <2> HIDE DEF ahead
  <2> QED
    BY ONLY <2>1 DEF IsAmong
<1>5. Upcoming(g) = ahead
  BY DEF Upcoming, rest
<1> HIDE DEF ahead
<1>6. Want(g, u) = NoItem \/ \E k \in 1..Len(ahead) : Want(g, u) = ahead[k]
  BY <1>5 DEF Want
<1>7. Cut(g, n, m, NoItem)
  <2>1. NoItem = 0 /\ NoItem \in 0..m
    BY DEF PlayoutAssumption
  <2>2. \A k \in 1..n : g.items[k] \in 1..m
    BY ONLY <1>1
  <2>3. \A k \in 1..n : g.items[k] # NoItem
    BY ONLY <2>1, <2>2
  <2> QED
    BY ONLY <1>2, <2>1, <2>3
<1>8. ASSUME NEW k \in 1..Len(ahead), Want(g, u) = ahead[k] PROVE Cut(g, n, m, Want(g, u))
  <2>1. PICK j \in 1..Len(rest) : ahead[k] = rest[j]
    BY <1>4
  <2>2. j + n \in 1..Len(g.items) /\ j + n > n /\ ahead[k] = g.items[j + n]
    BY <1>1, <1>3, <2>1
  <2>3. ahead[k] \in 1..m
    BY <1>4
  <2>4. \A i \in 1..n : g.items[i] # ahead[k]
    <3> SUFFICES ASSUME NEW i \in 1..n, NEW l, l = j + n, g.items[i] = g.items[l] PROVE FALSE
      BY <2>2
    <3>1. n \in Nat /\ Len(g.items) \in Nat /\ n <= Len(g.items) /\ l \in 1..Len(g.items) /\ l > n
      BY ONLY <1>1, <2>2, l = j + n
    <3>2. i \in 1..Len(g.items) /\ i # l
      BY ONLY <3>1, i \in 1..n
    <3>3. DOMAIN g.items = 1..Len(g.items)
      BY ONLY <1>1
    <3> QED
      BY ONLY <1>1, <3>1, <3>2, <3>3, g.items[i] = g.items[l] DEF IsInjective
  <2> QED
    BY <1>2, <1>8, <2>3, <2>4
<1> QED
  BY <1>6, <1>7, <1>8

(* The item that is seen, and those it passes over, are all to come. *)
LEMMA TakenAhead ==
    ASSUME NEW m \in Nat, NEW g, NEW n, NEW it \in Range(g.items), Cut(g, n, m, it)
    PROVE  Place(g.items, it) > n
<1>1. Place(g.items, it) \in 1..Len(g.items) /\ g.items[Place(g.items, it)] = it
  BY PlaceInCut
<1>2. n \in 0..Len(g.items) /\ \A k \in 1..n : g.items[k] # it
  BY DEF Cut
<1> QED
  BY <1>1, <1>2

(* t has the items of s from the i-th to the j-th that are in S. *)
Chosen(t, m, s, i, j, S) ==
    /\ t \in Seq(1..m) /\ IsInjective(t)
    /\ \A k \in 1..Len(t) : t[k] \in S /\ \E l \in i..j : t[k] = s[l]
    /\ \A l \in i..j : s[l] \in S => s[l] \in Range(t)

(* The items between the cursor and the one that is seen.                  *)
LEMMA Between ==
    ASSUME NEW m \in Nat, NEW p, NEW g, NEW n, Cut(g, n, m, p), NEW at \in (n + 1)..Len(g.items),
           NEW b, b = SubSeq(g.items, n + 1, at - 1), NEW S
    PROVE  /\ \A l \in (n + 1)..(at - 1) : g.items[l] \in Range(b)
           /\ Chosen(Among(b, S), m, g.items, n + 1, at - 1, S)
<1>1. /\ g.items \in Seq(1..m) /\ IsInjective(g.items) /\ Len(g.items) \in Nat
      /\ n \in 0..Len(g.items)
  BY DEF Cut
<1>2. /\ b \in Seq(1..m) /\ Len(b) = at - 1 - n
      /\ \A k \in 1..(at - 1 - n) : b[k] = g.items[k + n]
  <2>1. n + 1 \in 1..(Len(g.items) + 1) /\ at - 1 \in 0..Len(g.items) /\ n + 1 <= (at - 1) + 1
    BY <1>1
  <2>2. /\ b \in Seq(1..m) /\ Len(b) = (at - 1) - (n + 1) + 1
        /\ \A k \in 1..((at - 1) - (n + 1) + 1) : b[k] = g.items[k + (n + 1) - 1]
    BY <1>1, <2>1, Part
  <2>3. (at - 1) - (n + 1) + 1 = at - 1 - n
        /\ \A k \in 1..(at - 1 - n) : k + (n + 1) - 1 = k + n
    BY <1>1
  <2> QED
    BY ONLY <2>2, <2>3
<1>3. IsInjective(b)
  <2> SUFFICES ASSUME NEW k \in 1..Len(b), NEW l \in 1..Len(b), b[k] = b[l] PROVE k = l
    <3>1. DOMAIN b = 1..Len(b)
      BY <1>2
    <3> QED
      BY <3>1 DEF IsInjective
  <2>1. k + n \in 1..Len(g.items) /\ l + n \in 1..Len(g.items) /\ k \in Int /\ l \in Int /\ n \in Int
    BY ONLY <1>1, <1>2, at \in (n + 1)..Len(g.items), k \in 1..Len(b), l \in 1..Len(b)
  <2>2. g.items[k + n] = g.items[l + n]
    BY <1>2
  <2>3. k + n = l + n
    BY ONLY <1>1, <2>1, <2>2 DEF IsInjective
  <2> QED
    BY ONLY <2>1, <2>3
<1>4. /\ Among(b, S) \in Seq(1..m) /\ IsInjective(Among(b, S))
      /\ \A k \in 1..Len(Among(b, S)) :
           Among(b, S)[k] \in S /\ \E j \in 1..Len(b) : Among(b, S)[k] = b[j]
  <2>1. IsAmong(Among(b, S), 1..m, b, S)
    BY <1>2, AmongIs
  <2> QED
    BY ONLY <1>3, <2>1 DEF IsAmong
<1>5. ASSUME NEW k \in 1..Len(Among(b, S))
      PROVE  \E j \in (n + 1)..(at - 1) : Among(b, S)[k] = g.items[j]
  <2>1. PICK j \in 1..Len(b) : Among(b, S)[k] = b[j]
    BY <1>4
  <2>2. j + n \in (n + 1)..(at - 1) /\ b[j] = g.items[j + n]
    BY <1>1, <1>2
  <2> QED
    BY <2>1, <2>2
<1>6. ASSUME NEW j \in (n + 1)..(at - 1)
      PROVE  /\ g.items[j] \in Range(b)
             /\ g.items[j] \in S => g.items[j] \in Range(Among(b, S))
  <2>1. j - n \in 1..Len(b) /\ (j - n) + n = j
    BY <1>1, <1>2
  <2>2. b[j - n] = g.items[j]
    BY <1>2, <2>1
  <2>3. DOMAIN b = 1..Len(b) /\ DOMAIN Among(b, S) = 1..Len(Among(b, S))
    BY <1>2, <1>4
  <2>4. g.items[j] \in Range(b)
    BY <2>1, <2>2, <2>3 DEF Range
  <2>5. ASSUME g.items[j] \in S PROVE g.items[j] \in Range(Among(b, S))
    <3> DEFINE l == j - n
    <3>2. l \in 1..Len(b) /\ b[l] \in S
      BY <2>1, <2>2, <2>5
    <3> HIDE DEF l
    <3>3. \E k \in 1..Len(Among(b, S)) : Among(b, S)[k] = b[l]
      BY ONLY <1>2, <3>2, AmongHas
    <3>1. \E k \in 1..Len(Among(b, S)) : Among(b, S)[k] = b[j - n]
      BY <3>3 DEF l
    <3> QED
      BY <2>2, <2>3, <3>1 DEF Range
  <2> QED
    BY <2>4, <2>5
<1> QED
  BY <1>2, <1>4, <1>5, <1>6 DEF Chosen

(* Sequences without doubles, whose items are in a set. *)
Distinct(t, m, E) == t \in Seq(1..m) /\ IsInjective(t) /\ \A k \in 1..Len(t) : t[k] \in E

IsJoined(t, a, b) ==
    /\ Len(t) = Len(a) + Len(b)
    /\ \A k \in 1..Len(a) : t[k] = a[k]
    /\ \A k \in (Len(a) + 1)..Len(t) : \E j \in 1..Len(b) : t[k] = b[j] /\ k = Len(a) + j

(* Two such sequences of different items make one.                         *)
LEMMA DistinctJoined ==
    ASSUME NEW m, NEW E, NEW F, NEW a, NEW b, Distinct(a, m, E), Distinct(b, m, F), E \cap F = {}
    PROVE  Distinct(a \o b, m, E \cup F) /\ IsJoined(a \o b, a, b)
<1> DEFINE X == 1..m
<1>1. a \in Seq(X) /\ b \in Seq(X) /\ IsInjective(a) /\ IsInjective(b)
  BY DEF Distinct
<1> HIDE DEF X
<1>2. /\ a \o b \in Seq(X) /\ Len(a \o b) = Len(a) + Len(b)
      /\ \A k \in 1..(Len(a) + Len(b)) :
            (a \o b)[k] = IF k <= Len(a) THEN a[k] ELSE b[k - Len(a)]
  BY <1>1, Joined
<1> SUFFICES ASSUME NEW t, t = a \o b PROVE Distinct(t, m, E \cup F) /\ IsJoined(t, a, b)
  OBVIOUS
<1>3. Len(a) \in Nat /\ Len(b) \in Nat /\ DOMAIN a = 1..Len(a) /\ DOMAIN b = 1..Len(b)
  BY <1>1
<1>4. t \in Seq(X) /\ Len(t) = Len(a) + Len(b) /\ DOMAIN t = 1..(Len(a) + Len(b))
  BY <1>2
<1>5. \A k \in 1..Len(a) : t[k] = a[k]
  BY <1>2, <1>3
<1>6. ASSUME NEW k \in (Len(a) + 1)..Len(t)
      PROVE  k - Len(a) \in 1..Len(b) /\ t[k] = b[k - Len(a)] /\ k = Len(a) + (k - Len(a))
  BY <1>2, <1>3, <1>4
<1>7. IsJoined(t, a, b)
  BY <1>4, <1>5, <1>6 DEF IsJoined
<1>8. /\ \A k \in 1..Len(a) : t[k] \in E
      /\ \A k \in (Len(a) + 1)..Len(t) : t[k] \in F
  BY <1>5, <1>6 DEF Distinct
<1>9. IsInjective(t)
  <2> SUFFICES ASSUME NEW k \in 1..Len(t), NEW l \in 1..Len(t), t[k] = t[l] PROVE k = l
    BY <1>4 DEF IsInjective
  <2>1. /\ k \in 1..Len(a) \/ k \in (Len(a) + 1)..Len(t)
        /\ l \in 1..Len(a) \/ l \in (Len(a) + 1)..Len(t)
    BY ONLY <1>3, <1>4, k \in 1..Len(t), l \in 1..Len(t)
  <2>2. CASE k \in 1..Len(a) /\ l \in 1..Len(a)
    <3>1. a[k] = a[l]
      BY <1>5, <2>2
    <3> QED
      BY ONLY <1>1, <1>3, <2>2, <3>1 DEF IsInjective
  <2>3. CASE k \in (Len(a) + 1)..Len(t) /\ l \in (Len(a) + 1)..Len(t)
    <3> DEFINE i == k - Len(a)
               j == l - Len(a)
    <3>1. i \in DOMAIN b /\ j \in DOMAIN b /\ b[i] = b[j] /\ k = Len(a) + i /\ l = Len(a) + j
      BY <1>3, <1>6, <2>3
    <3> HIDE DEF i, j
    <3>2. i = j
      BY ONLY <1>1, <3>1 DEF IsInjective
    <3> QED
      BY <3>1, <3>2
  <2>4. CASE (k \in 1..Len(a)) # (l \in 1..Len(a))
    <3>1. (t[k] \in E /\ t[l] \in F) \/ (t[k] \in F /\ t[l] \in E)
      BY <1>8, <2>1, <2>4
    <3> QED
      BY <3>1
  <2> QED
    BY <2>1, <2>2, <2>3, <2>4
<1>10. \A k \in 1..Len(t) : t[k] \in E \cup F
  <2> TAKE k \in 1..Len(t)
  <2>1. k \in 1..Len(a) \/ k \in (Len(a) + 1)..Len(t)
    BY ONLY <1>3, <1>4, k \in 1..Len(t)
  <2> QED
    BY <1>8, <2>1
<1> QED
  BY <1>4, <1>7, <1>9, <1>10 DEF Distinct, X

(* Items of two stretches of a playlist. *)
Stretch(s, i, j) == {s[k] : k \in i..j}

(* Stretches of a playlist that do not overlap share no item.              *)
LEMMA StretchesApart ==
    ASSUME NEW m, NEW s \in Seq(1..m), IsInjective(s), NEW i \in Nat, NEW j \in Nat, NEW k \in Nat,
           NEW l \in Nat, 1 <= i, j < k, l <= Len(s)
    PROVE  \A x \in Stretch(s, i, j) : x \notin Stretch(s, k, l)
<1> SUFFICES ASSUME NEW v \in i..j, NEW w \in k..l, s[v] = s[w] PROVE FALSE
  BY DEF Stretch
<1>1. v \in DOMAIN s /\ w \in DOMAIN s /\ v # w
  OBVIOUS
<1> QED
  BY <1>1 DEF IsInjective

(* A part of a playlist has no double.                                     *)
LEMMA StretchDistinct ==
    ASSUME NEW m, NEW s \in Seq(1..m), IsInjective(s), NEW i \in 1..(Len(s) + 1),
           NEW j \in 0..Len(s), i <= j + 1
    PROVE  Distinct(SubSeq(s, i, j), m, Stretch(s, i, j))
<1> DEFINE X == 1..m
<1>1. s \in Seq(X) /\ Len(s) \in Nat /\ DOMAIN s = 1..Len(s)
  OBVIOUS
<1> HIDE DEF X
<1> SUFFICES ASSUME NEW t, t = SubSeq(s, i, j) PROVE Distinct(t, m, Stretch(s, i, j))
  OBVIOUS
<1>2. t \in Seq(X) /\ Len(t) = j - i + 1 /\ \A k \in 1..(j - i + 1) : t[k] = s[k + i - 1]
  BY <1>1, Part
<1>3. ASSUME NEW k \in 1..Len(t)
      PROVE  k + i - 1 \in i..j /\ k + i - 1 \in DOMAIN s /\ t[k] = s[k + i - 1] /\ k \in Int
  BY <1>1, <1>2
<1>4. \A k \in 1..Len(t) : t[k] \in Stretch(s, i, j)
  BY <1>3 DEF Stretch
<1>5. IsInjective(t)
  <2> SUFFICES ASSUME NEW k \in 1..Len(t), NEW l \in 1..Len(t), t[k] = t[l] PROVE k = l
    <3>1. DOMAIN t = 1..Len(t)
      BY <1>2
    <3> QED
      BY <3>1 DEF IsInjective
  <2> DEFINE v == k + i - 1
             w == l + i - 1
  <2>1. v \in DOMAIN s /\ w \in DOMAIN s /\ s[v] = s[w]
    BY <1>3
  <2> HIDE DEF v, w
  <2>2. v = w
    BY ONLY <2>1, IsInjective(s) DEF IsInjective
  <2> QED
    BY <1>3, <2>2 DEF v, w
<1> QED
  BY <1>2, <1>4, <1>5 DEF Distinct, X

(***************************************************************************)
(* The takes, and what the plan asks for.                                  *)
(***************************************************************************)
(* The take of an item that is to come, "requeue" aside. *)
LEMMA SkippingTakeCuts ==
    ASSUME PlayoutAssumption, NEW m \in Nat, NEW g, GroupShape(g), NEW n, NEW it \in Range(g.items),
           Cut(g, n, m, it), CursorAt(g) = n, NEW u, g.ooo # "requeue"
    PROVE  \E k : Cut(ConfirmTake(g, u, it), k, m, NoItem)
<1> SUFFICES ASSUME NEW f, f = ConfirmTake(g, u, it), NEW at, at = Place(g.items, it),
                    NEW b, b = SubSeq(g.items, n + 1, at - 1)
             PROVE  Cut(f, at, m, NoItem)
  OBVIOUS
<1>1. /\ g.items \in Seq(1..m) /\ IsInjective(g.items) /\ Len(g.items) \in Nat
      /\ n \in 0..Len(g.items) /\ g.played \subseteq 1..m
      /\ \A k \in 1..n : g.items[k] \in (g.played \cup g.skipped) \ {it}
      /\ \A k \in (n + 1)..Len(g.items) : g.items[k] \notin g.played
  BY DEF Cut
<1>2. /\ at \in 1..Len(g.items) /\ g.items[at] = it /\ it \in 1..m /\ at > n
      /\ \A k \in 1..Len(g.items) : g.items[k] = it => k = at
  BY PlaceInCut, TakenAhead
<1>3. at \in (n + 1)..Len(g.items)
  BY <1>1, <1>2
<1> DEFINE passed == Among(b, Range(b) \ g.skipped)
<1>4. /\ f.items = g.items /\ f.skipped = (g.skipped \cup Range(passed)) \ {it}
      /\ f.played = g.played \cup {it} /\ f.cursor = it
  BY DEF ConfirmTake, GroupShape
<1>5. \A j \in (n + 1)..(at - 1) :
        /\ g.items[j] \in Range(b)
        /\ g.items[j] \in Range(b) \ g.skipped => g.items[j] \in Range(passed)
  <2>1. \A j \in (n + 1)..(at - 1) : g.items[j] \in Range(b)
    BY <1>3, Between
  <2>2. Chosen(passed, m, g.items, n + 1, at - 1, Range(b) \ g.skipped)
    BY <1>3, Between
  <2> HIDE DEF passed
  <2> QED
    BY <2>1, <2>2 DEF Chosen
<1> HIDE DEF passed
<1>6. ASSUME NEW k \in 1..at PROVE f.items[k] \in (f.played \cup f.skipped) \ {NoItem}
  <2>1. k \in 1..Len(g.items) /\ g.items[k] # NoItem
    <3>1. k \in 1..Len(g.items)
      BY ONLY <1>1, <1>2, k \in 1..at
    <3>2. g.items[k] \in 1..m /\ NoItem = 0
      BY <1>1, <3>1 DEF PlayoutAssumption
    <3> QED
      BY ONLY <3>1, <3>2
  <2>2. CASE k \in 1..n
    BY <1>1, <1>4, <2>1, <2>2
  <2>3. CASE k \in (n + 1)..(at - 1)
    <3>1. k # at
      BY ONLY <1>1, <1>2, <2>3
    <3>2. g.items[k] # it
      BY <1>2, <2>1, <3>1
    <3> QED
      BY <1>4, <1>5, <2>1, <2>3, <3>2
  <2>4. CASE k = at
    BY <1>2, <1>4, <2>1, <2>4
  <2>5. k \in 1..n \/ k \in (n + 1)..(at - 1) \/ k = at
    BY ONLY <1>1, <1>2, k \in 1..at
  <2> QED
    BY <2>2, <2>3, <2>4, <2>5
<1>7. ASSUME NEW k \in (at + 1)..Len(f.items) PROVE f.items[k] \notin f.played
  <2>1. k \in (n + 1)..Len(g.items) /\ k \in 1..Len(g.items) /\ k # at
    <3>1. k \in (at + 1)..Len(g.items)
      BY <1>4
    <3> QED
      BY ONLY <1>1, <1>2, <3>1
  <2>2. g.items[k] \notin g.played /\ g.items[k] # it
    BY ONLY <1>1, <1>2, <2>1
  <2> QED
    BY <1>4, <2>2
<1>8. /\ f.cursor = (IF at = 0 THEN NoItem ELSE f.items[at])
      /\ at \in 0..Len(f.items) /\ NoItem \in 0..m /\ f.played \subseteq 1..m
  <2>1. NoItem \in 0..m
    BY DEF PlayoutAssumption
  <2>2. at \in 0..Len(g.items) /\ at # 0 /\ g.played \cup {it} \subseteq 1..m
    BY ONLY <1>1, <1>2
  <2> QED
    BY <1>2, <1>4, <2>1, <2>2
<1> QED
  BY <1>1, <1>4, <1>6, <1>7, <1>8 DEF Cut

(* With "requeue" the items passed over come after it. *)
LEMMA RequeuingTakeCuts ==
    ASSUME PlayoutAssumption, NEW m \in Nat, NEW g, GroupShape(g), NEW n, NEW it \in Range(g.items),
           Cut(g, n, m, it), CursorAt(g) = n, NEW u, g.ooo = "requeue"
    PROVE  \E k : Cut(ConfirmTake(g, u, it), k, m, NoItem)
<1> SUFFICES ASSUME NEW f, f = ConfirmTake(g, u, it), NEW at, at = Place(g.items, it),
                    NEW b, b = SubSeq(g.items, n + 1, at - 1)
             PROVE  \E c : Cut(f, c, m, NoItem)
  OBVIOUS
<1> DEFINE s == g.items
           first == SubSeq(s, 1, n)
           kept == Among(b, g.skipped)
           passed == Among(b, Range(b) \ g.skipped)
           last == SubSeq(s, at + 1, Len(s))
<1>1. /\ s \in Seq(1..m) /\ IsInjective(s) /\ Len(s) \in Nat
      /\ n \in 0..Len(s) /\ g.played \subseteq 1..m
      /\ \A k \in 1..n : s[k] \in (g.played \cup g.skipped) \ {it}
      /\ \A k \in (n + 1)..Len(s) : s[k] \notin g.played
  BY DEF Cut
<1>2. /\ at \in 1..Len(s) /\ s[at] = it /\ it \in 1..m /\ at > n
      /\ \A k \in 1..Len(s) : s[k] = it => k = at
  BY PlaceInCut, TakenAhead
<1>3. at \in (n + 1)..Len(s)
  BY <1>1, <1>2
<1>4. /\ f.items = first \o kept \o <<it>> \o passed \o last
      /\ f.skipped = g.skipped \ {it} /\ f.played = g.played \cup {it} /\ f.cursor = it
  BY DEF ConfirmTake, GroupShape
<1> HIDE DEF s
<1> DEFINE Past == Stretch(s, 1, n)
           Mid == Stretch(s, n + 1, at - 1)
           Rest == Stretch(s, at + 1, Len(s))
           Kept == Mid \cap g.skipped
           Passed == Mid \ g.skipped
<1>5. Distinct(first, m, Past)
  <2>1. 1 \in 1..(Len(s) + 1) /\ 1 <= n + 1
    BY <1>1
  <2> QED
    BY <1>1, <2>1, StretchDistinct
<1>6. Distinct(last, m, Rest)
  <2>1. at + 1 \in 1..(Len(s) + 1) /\ Len(s) \in 0..Len(s) /\ at + 1 <= Len(s) + 1
    BY <1>1, <1>2
  <2> QED
    BY <1>1, <2>1, StretchDistinct
<1>7. ASSUME NEW S
      PROVE  /\ Among(b, S) \in Seq(1..m) /\ IsInjective(Among(b, S))
             /\ \A k \in 1..Len(Among(b, S)) : Among(b, S)[k] \in S /\ Among(b, S)[k] \in Mid
  <2>1. Chosen(Among(b, S), m, s, n + 1, at - 1, S)
    BY <1>3, Between DEF s
  <2> QED
    BY ONLY <2>1 DEF Chosen, Stretch
<1>8. Distinct(kept, m, Kept)
  BY <1>7 DEF Distinct
<1>9. Distinct(passed, m, Passed)
  BY <1>7 DEF Distinct
<1>10. Distinct(<<it>>, m, {it})
  BY <1>2 DEF Distinct, IsInjective
<1>11. /\ \A x \in Past : x \notin Mid /\ x \notin Rest /\ x # it
       /\ \A x \in Mid : x \notin Rest /\ x # it
       /\ \A x \in Rest : x # it
  <2>1. /\ 1 \in Nat /\ n \in Nat /\ n + 1 \in Nat /\ at - 1 \in Nat /\ at + 1 \in Nat
        /\ n < n + 1 /\ at - 1 < at + 1 /\ n < at + 1 /\ at - 1 <= Len(s) /\ Len(s) <= Len(s)
        /\ 1 <= 1 /\ 1 <= n + 1
    BY ONLY <1>1, <1>2
  <2>2. \A x \in Past : x \notin Mid
    BY <1>1, <2>1, StretchesApart
  <2>3. \A x \in Past : x \notin Rest
    BY <1>1, <2>1, StretchesApart
  <2>4. \A x \in Mid : x \notin Rest
    BY <1>1, <2>1, StretchesApart
  <2>5. \A k \in 1..Len(s) : k # at => s[k] # it
    BY <1>2
  <2>6. /\ \A k \in 1..n : k \in 1..Len(s) /\ k # at
        /\ \A k \in (n + 1)..(at - 1) : k \in 1..Len(s) /\ k # at
        /\ \A k \in (at + 1)..Len(s) : k \in 1..Len(s) /\ k # at
    BY ONLY <1>1, <1>2
  <2>7. it \notin Past /\ it \notin Mid /\ it \notin Rest
    BY <2>5, <2>6 DEF Stretch
  <2> QED
    BY <2>2, <2>3, <2>4, <2>7
<1>12. /\ \A x \in Past : x \in (g.played \cup g.skipped) \ {it}
       /\ \A x \in Mid : x \notin g.played
       /\ \A x \in Rest : x \notin g.played
  <2>1. /\ \A k \in (n + 1)..(at - 1) : k \in (n + 1)..Len(s)
        /\ \A k \in (at + 1)..Len(s) : k \in (n + 1)..Len(s)
    BY ONLY <1>1, <1>2
  <2> QED
    BY <1>1, <2>1 DEF Stretch
<1> HIDE DEF first, kept, passed, last, Past, Mid, Rest
<1> DEFINE A == first \o kept
           B == A \o <<it>>
           C == B \o passed
<1>13. Distinct(A, m, Past \cup Kept) /\ IsJoined(A, first, kept)
  <2>1. Past \cap Kept = {}
    BY <1>11
  <2> QED
    BY ONLY <1>5, <1>8, <2>1, DistinctJoined
<1> HIDE DEF A
<1>14. Distinct(B, m, Past \cup Kept \cup {it}) /\ IsJoined(B, A, <<it>>)
  <2>1. (Past \cup Kept) \cap {it} = {}
    BY <1>11
  <2> QED
    BY ONLY <1>10, <1>13, <2>1, DistinctJoined
<1> HIDE DEF B
<1>15. Distinct(C, m, Past \cup Kept \cup {it} \cup Passed) /\ IsJoined(C, B, passed)
  <2>1. (Past \cup Kept \cup {it}) \cap Passed = {}
    BY <1>11
  <2> QED
    BY ONLY <1>9, <1>14, <2>1, DistinctJoined
<1> HIDE DEF C
<1>16. Distinct(C \o last, m, Past \cup Kept \cup {it} \cup Passed \cup Rest) /\ IsJoined(C \o last, C, last)
  <2>1. (Past \cup Kept \cup {it} \cup Passed) \cap Rest = {}
    BY <1>11
  <2> QED
    BY ONLY <1>6, <1>15, <2>1, DistinctJoined
<1>17. f.items = C \o last
  BY <1>4 DEF A, B, C
<1>18. Distinct(f.items, m, Past \cup Kept \cup {it} \cup Passed \cup Rest) /\ IsJoined(f.items, C, last)
  BY ONLY <1>16, <1>17
<1> DEFINE c == Len(B)
<1>19. /\ Len(A) \in Nat /\ Len(B) \in Nat /\ Len(C) \in Nat /\ Len(f.items) \in Nat
       /\ Len(passed) \in Nat /\ Len(last) \in Nat
  BY ONLY <1>6, <1>9, <1>13, <1>14, <1>15, <1>18 DEF Distinct
<1>20. Len(B) = Len(A) + 1 /\ Len(C) = Len(B) + Len(passed) /\ Len(f.items) = Len(C) + Len(last)
  BY ONLY <1>14, <1>15, <1>18 DEF IsJoined
<1>21. c \in 1..Len(f.items) /\ c \in 1..Len(C) /\ c \in (Len(A) + 1)..Len(B)
  BY ONLY <1>19, <1>20
<1>22. \A k \in 1..c : f.items[k] = B[k]
  <2> SUFFICES ASSUME NEW k \in 1..c PROVE f.items[k] = B[k]
    OBVIOUS
  <2>1. k \in 1..Len(C) /\ k \in 1..Len(B)
    BY ONLY <1>19, <1>21, k \in 1..c
  <2> QED
    BY ONLY <1>15, <1>18, <2>1 DEF IsJoined
<1>23. f.items[c] = it
  <2>1. \E j \in 1..Len(<<it>>) : B[c] = <<it>>[j]
    BY <1>14, <1>21 DEF IsJoined
  <2>2. B[c] = it
    BY ONLY <2>1
  <2>3. c \in 1..c
    BY ONLY <1>21, <1>19
  <2> QED
    BY ONLY <1>22, <2>2, <2>3
<1>24. ASSUME NEW k \in 1..c PROVE f.items[k] \in (f.played \cup f.skipped) \ {NoItem}
  <2>1. B[k] \in Past \cup Kept \cup {it}
    BY <1>14 DEF Distinct
  <2>2. k \in 1..Len(f.items)
    BY ONLY <1>19, <1>21, k \in 1..c
  <2>3. f.items[k] \in 1..m
    BY ONLY <1>18, <2>2 DEF Distinct
  <2>4. f.items[k] # NoItem
    BY <2>3 DEF PlayoutAssumption
  <2> QED
    BY <1>4, <1>11, <1>12, <1>22, <2>1, <2>4
<1>25. ASSUME NEW k \in (c + 1)..Len(f.items) PROVE f.items[k] \notin f.played
  <2>1. CASE k \in 1..Len(C)
    <3>1. k \in (Len(B) + 1)..Len(C)
      BY ONLY <1>19, <1>25, <2>1
    <3>2. \E j \in 1..Len(passed) : C[k] = passed[j]
      BY ONLY <1>15, <3>1 DEF IsJoined
    <3>3. C[k] \in Passed
      BY <1>9, <3>2 DEF Distinct
    <3>4. f.items[k] = C[k]
      BY ONLY <1>18, <2>1 DEF IsJoined
    <3> QED
      BY <1>4, <1>11, <1>12, <3>3, <3>4
  <2>2. CASE k \in (Len(C) + 1)..Len(f.items)
    <3>1. \E j \in 1..Len(last) : f.items[k] = last[j]
      BY ONLY <1>18, <2>2 DEF IsJoined
    <3>2. f.items[k] \in Rest
      BY <1>6, <3>1 DEF Distinct
    <3> QED
      BY <1>4, <1>11, <1>12, <3>2
  <2>3. k \in 1..Len(C) \/ k \in (Len(C) + 1)..Len(f.items)
    BY ONLY <1>19, <1>20, <1>25
  <2> QED
    BY <2>1, <2>2, <2>3
<1>26. /\ f.cursor = (IF c = 0 THEN NoItem ELSE f.items[c]) /\ c \in 0..Len(f.items)
       /\ NoItem \in 0..m /\ f.played \subseteq 1..m
  <2>1. c # 0 /\ c \in 0..Len(f.items)
    BY ONLY <1>19, <1>21
  <2>2. NoItem = 0 /\ f.cursor = it /\ f.played \subseteq 1..m
    BY <1>1, <1>2, <1>4 DEF PlayoutAssumption
  <2> QED
    BY ONLY <1>23, <2>1, <2>2, m \in Nat
<1>27. f.items \in Seq(1..m) /\ IsInjective(f.items)
  BY <1>18 DEF Distinct
<1> HIDE DEF c
<1>28. Cut(f, c, m, NoItem)
  BY <1>24, <1>25, <1>26, <1>27 DEF Cut
<1> QED
  BY <1>28

(* A playlist that is cut somewhere; what it takes for it to stay so: the  *)
(* plan is the same, and a take that is asked for is one the plan wants.   *)
Planned(st, m) == \E n : Cut(st.group, n, m, st.pending.item)

SamePlan(f, g) ==
    /\ f.items = g.items /\ f.skipped = g.skipped /\ f.played = g.played
    /\ f.cursor = g.cursor

PlanKept(s, t) ==
    /\ SamePlan(t.group, s.group)
    /\ \/ t.pending \in {s.pending, NoTake}
       \/ \E u : t.pending.item = Want(s.group, u)

LEMMA StillPlanned ==
    ASSUME PlayoutAssumption, NEW s, NEW t, PlanKept(s, t), NEW m \in Nat, Planned(s, m)
    PROVE  Planned(t, m)
<1>1. PICK n : Cut(s.group, n, m, s.pending.item)
  BY DEF Planned
<1>2. CursorAt(s.group) = n
  BY <1>1, CutIsAtCursor
<1>3. Cut(s.group, n, m, NoItem) /\ \A u : Cut(s.group, n, m, Want(s.group, u))
  BY <1>1, <1>2, WantCuts
<1>4. NoTake.item = NoItem
  BY DEF NoTake
<1>5. Cut(s.group, n, m, t.pending.item)
  BY <1>1, <1>3, <1>4 DEF PlanKept
<1>6. Cut(t.group, n, m, t.pending.item)
  BY <1>5 DEF Cut, PlanKept, SamePlan
<1> QED
  BY <1>6 DEF Planned

(* The take of a planned item. *)
LEMMA TakePlans ==
    ASSUME PlayoutAssumption, NEW s, GroupShape(s.group), NEW m \in Nat, Planned(s, m),
           s.pending.item \in Range(s.group.items),
           NEW t, t.group = ConfirmTake(s.group, s.pending.output, s.pending.item),
           t.pending = NoTake
    PROVE  Planned(t, m)
<1>1. PICK n : Cut(s.group, n, m, s.pending.item)
  BY DEF Planned
<1>2. CursorAt(s.group) = n
  BY <1>1, CutIsAtCursor
<1>3. \E k : Cut(t.group, k, m, NoItem)
  BY <1>1, <1>2, SkippingTakeCuts, RequeuingTakeCuts
<1> QED
  BY <1>3 DEF Planned, NoTake

(***************************************************************************)
(* The invariant, of any state in the middle of a pass.                    *)
(***************************************************************************)
(* The base is an output of the group, and what is to be released is not   *)
(* on air.                                                                 *)
GroupSound(g) ==
    /\ GroupShape(g) /\ g.outputs \in OutputLists
    /\ g.air \in Range(g.outputs) \cup {NoOutput}
    /\ Air(g) # NoOutput => Air(g) \notin g.release

(* The output of a take that is awaited is neither on air nor to release. *)
TakeIsApart(st) ==
    st.pending # NoTake =>
        /\ st.pending.output \notin st.group.release
        /\ Air(st.group) # NoOutput => st.pending.output # Air(st.group)

(* AirPlaysCursor, of such a state. *)
PlaysCursor(st) ==
    LET air == Air(st.group)
    IN  air # NoOutput /\ st.group.cursor # NoItem
            => st.player[air].file \in {st.group.cursor, NoItem}

Sound(st) ==
    /\ StateShape(st) /\ PlayersShape(st.player)
    /\ GroupSound(st.group) /\ TakeIsApart(st) /\ PlaysCursor(st)

AirInv == Sound(Now)

(* From s to t, no output is given another file or stopped that t has on   *)
(* air or to release, or that the mixer shows.                             *)
Stopped(s, t, u) ==
    \/ t.player[u].file # s.player[u].file
    \/ s.player[u].mode = "playing" /\ t.player[u].mode # "playing"

Undisturbed(s, t) ==
    \A u \in Outputs :
        Stopped(s, t, u) => u \notin Programme /\ u \notin t.group.release /\ u # Air(t.group)

LEMMA OutputsAreListed ==
    ASSUME PlayoutAssumption, NEW g, g.outputs \in OutputLists
    PROVE  /\ \A u \in Range(g.outputs) : u \in Outputs
           /\ NoOutput \notin Outputs
           /\ Air(g) # NoOutput => Air(g) \in Range(g.outputs) /\ Air(g) = g.air /\ g.live
BY DEF PlayoutAssumption, Outputs, Air, Base

(* Steps that leave the group alone. *)
LEMMA SameGroup ==
    ASSUME PlayoutAssumption, NEW s, Sound(s), NEW t, StateShape(t), PlayersShape(t.player),
           t.group = s.group, TakeIsApart(t), Undisturbed(s, t)
    PROVE  Sound(t)
<1>1. PlaysCursor(t)
  <2> SUFFICES ASSUME Air(s.group) # NoOutput, s.group.cursor # NoItem
               PROVE  t.player[Air(s.group)].file \in {s.group.cursor, NoItem}
    BY DEF PlaysCursor
  <2>1. Air(s.group) \in Outputs
    BY OutputsAreListed DEF Sound, GroupSound
  <2>2. t.player[Air(s.group)].file = s.player[Air(s.group)].file
    BY <2>1 DEF Undisturbed, Stopped
  <2> QED
    BY <2>2 DEF Sound, PlaysCursor
<1> QED
  BY <1>1 DEF Sound

(* One after the other. *)
LEMMA StillUndisturbed ==
    ASSUME NEW s, NEW t, NEW r, Undisturbed(s, t), Undisturbed(t, r),
           Air(r.group) = Air(t.group), r.group.release \subseteq t.group.release
    PROVE  Undisturbed(s, r)
<1> SUFFICES ASSUME NEW u \in Outputs, Stopped(s, r, u)
             PROVE  u \notin Programme /\ u \notin r.group.release /\ u # Air(r.group)
  BY DEF Undisturbed
<1>1. Stopped(s, t, u) \/ Stopped(t, r, u)
  BY DEF Stopped
<1> QED
  BY <1>1 DEF Undisturbed

(***************************************************************************)
(* What the engine asks of a player.                                       *)
(***************************************************************************)
LEMMA LoadOne ==
    ASSUME NEW s, StateShape(s), PlayersShape(s.player), NEW u, NEW it, NEW taken,
           NEW t, t = Load(s, u, it, taken)
    PROVE  /\ StateShape(t) /\ PlayersShape(t.player)
           /\ t.group = s.group /\ t.pending = s.pending
           /\ \A v \in Outputs : v # u => t.player[v] = s.player[v]
<1>1. CASE t = [s EXCEPT !.player[u] = [file |-> it, mode |-> "cued"]]
  <2> SUFFICES ASSUME NEW h, h = [s.player EXCEPT ![u] = [file |-> it, mode |-> "cued"]]
               PROVE  /\ StateShape(t) /\ PlayersShape(t.player)
                      /\ t.group = s.group /\ t.pending = s.pending
                      /\ \A v \in Outputs : v # u => t.player[v] = s.player[v]
    OBVIOUS
  <2>1. PlayersShape(h) /\ \A v \in Outputs : v # u => h[v] = s.player[v]
    BY DEF PlayersShape
  <2>2. t = [s EXCEPT !.player = h]
    BY <1>1
  <2>3. StateShape(t) /\ t.group = s.group /\ t.pending = s.pending /\ t.player = h
    BY <2>2 DEF StateShape
  <2> QED
    BY <2>1, <2>3
<1>2. CASE t = s
  BY <1>2
<1> QED
  BY <1>1, <1>2 DEF Load

LEMMA CueOne ==
    ASSUME NEW s, StateShape(s), PlayersShape(s.player), NEW u, NEW taken,
           NEW t, t = CueOutput(s, u, taken)
    PROVE  /\ StateShape(t) /\ PlayersShape(t.player)
           /\ t.group = s.group /\ t.pending = s.pending
           /\ \A v \in Outputs : v # u => t.player[v] = s.player[v]
<1>1. CASE t = [s EXCEPT !.player[u].mode = "cued"]
  <2> SUFFICES ASSUME NEW h, h = [s.player EXCEPT ![u].mode = "cued"]
               PROVE  /\ StateShape(t) /\ PlayersShape(t.player)
                      /\ t.group = s.group /\ t.pending = s.pending
                      /\ \A v \in Outputs : v # u => t.player[v] = s.player[v]
    OBVIOUS
  <2> DEFINE one == [file |-> s.player[u].file, mode |-> "cued"]
  <2>1. u \in Outputs => [s.player[u] EXCEPT !.mode = "cued"] = one
    BY DEF PlayersShape
  <2>2. u \in Outputs => h = [s.player EXCEPT ![u] = one]
    BY <2>1
  <2>3. PlayersShape(h) /\ \A v \in Outputs : v # u => h[v] = s.player[v]
    BY <2>2 DEF PlayersShape
  <2>4. t = [s EXCEPT !.player = h]
    BY <1>1
  <2>5. StateShape(t) /\ t.group = s.group /\ t.pending = s.pending /\ t.player = h
    BY <2>4 DEF StateShape
  <2> QED
    BY <2>3, <2>5
<1>2. CASE t = s
  BY <1>2
<1>3. CASE t = Load(s, u, Want(s.group, u), taken)
  BY <1>3, LoadOne
<1> QED
  BY <1>1, <1>2, <1>3 DEF CueOutput

(* PLAY is for an output that waits its turn: no file moves, none stops. *)
LEMMA PlayKeeps ==
    ASSUME PlayoutAssumption, NEW s, Sound(s), NEW u, PlayOk(s, u), NEW t, t = Play(s, u)
    PROVE  Sound(t) /\ t.group = s.group /\ Undisturbed(s, t) /\ PlanKept(s, t)
<1> DEFINE take == [output |-> u, item |-> Want(s.group, u)]
           mode == IF s.player[u].mode = "playing" THEN s.player[u].mode ELSE "going"
<1> SUFFICES ASSUME NEW mid, mid = [s EXCEPT !.pending = take],
                    NEW h, h = [s.player EXCEPT ![u].mode = mode]
             PROVE  Sound(t) /\ t.group = s.group /\ Undisturbed(s, t) /\ PlanKept(s, t)
  OBVIOUS
<1>1. StateShape(s) /\ PlayersShape(s.player)
  BY DEF Sound
<1>2. StateShape(mid) /\ mid.group = s.group /\ mid.pending = take /\ mid.player = s.player
  BY <1>1 DEF StateShape
<1>3. t = [mid EXCEPT !.player = h]
  BY <1>1, <1>2 DEF Play, StateShape
<1> DEFINE one == [file |-> s.player[u].file, mode |-> mode]
<1>4. u \in Outputs => h = [s.player EXCEPT ![u] = one]
  <2>1. u \in Outputs => [s.player[u] EXCEPT !.mode = mode] = one
    BY <1>1 DEF PlayersShape
  <2> QED
    BY <2>1
<1>5. /\ PlayersShape(h) /\ \A v \in Outputs : v # u => h[v] = s.player[v]
      /\ u \in Outputs => h[u] = one
  <2>1. CASE u \in Outputs
    BY ONLY <1>1, <1>4, <2>1 DEF PlayersShape
  <2>2. CASE u \notin Outputs
    BY ONLY <1>1, <2>2, h = [s.player EXCEPT ![u].mode = mode] DEF PlayersShape
  <2> QED
    BY <2>1, <2>2
<1>6. \A v \in Outputs : /\ h[v].file = s.player[v].file
                         /\ s.player[v].mode = "playing" => h[v].mode = "playing"
  BY <1>5
<1>7. StateShape(t) /\ t.group = s.group /\ t.pending = take /\ t.player = h
  BY <1>2, <1>3 DEF StateShape
<1>8. u # Air(s.group) /\ u \notin s.group.release
  BY DEF PlayOk, Role
<1>9. TakeIsApart(t)
  BY <1>7, <1>8 DEF TakeIsApart
<1>10. Undisturbed(s, t)
  BY <1>6, <1>7 DEF Undisturbed, Stopped
<1>11. PlanKept(s, t)
  BY <1>7 DEF PlanKept, SamePlan
<1> QED
  BY <1>5, <1>7, <1>9, <1>10, <1>11, SameGroup

(***************************************************************************)
(* The pass, part by part.                                                 *)
(***************************************************************************)
LEMMA EndOfClipKeeps ==
    ASSUME PlayoutAssumption, NEW s, Sound(s), NEW ended, NEW t, t = EndOfClip(s, ended)
    PROVE  Sound(t) /\ t.group = s.group /\ Undisturbed(s, t) /\ PlanKept(s, t)
<1> DEFINE air == Air(s.group)
           u == NextOutput(s.group)
<1> SUFFICES ASSUME NEW seen, seen = [s EXCEPT !.obs[air] = Seen(s, air)],
                    NEW looked,
                    looked = [s EXCEPT !.obs[air] = Seen(s, air),
                                       !.fired = IF @ = s.group.cursor THEN @ ELSE NoItem],
                    NEW once, once = [looked EXCEPT !.fired = s.group.cursor]
             PROVE  Sound(t) /\ t.group = s.group /\ Undisturbed(s, t) /\ PlanKept(s, t)
  OBVIOUS
<1>1. ASSUME NEW r, StateShape(r), r.group = s.group, r.pending = s.pending, r.player = s.player
      PROVE  Sound(r) /\ Undisturbed(s, r) /\ PlanKept(s, r)
  <2>1. Undisturbed(s, r)
    BY <1>1 DEF Undisturbed, Stopped, PlanKept, SamePlan
  <2>2. TakeIsApart(r)
    BY <1>1 DEF Sound, TakeIsApart
  <2>3. PlanKept(s, r)
    BY <1>1 DEF PlanKept, SamePlan
  <2> QED
    BY <1>1, <2>1, <2>2, <2>3, SameGroup DEF Sound
<1>2. StateShape(s)
  BY DEF Sound
<1>3. StateShape(seen) /\ seen.group = s.group /\ seen.pending = s.pending /\ seen.player = s.player
  BY <1>2 DEF StateShape
<1>4. looked = [seen EXCEPT !.fired = IF s.fired = s.group.cursor THEN s.fired ELSE NoItem]
  BY <1>2 DEF StateShape
<1>5. StateShape(looked) /\ looked.group = s.group /\ looked.pending = s.pending
      /\ looked.player = s.player
  BY <1>3, <1>4 DEF StateShape
<1>6. StateShape(once) /\ once.group = s.group /\ once.pending = s.pending
      /\ once.player = s.player
  BY <1>5 DEF StateShape
<1>7. t = s \/ t = looked \/ t = once \/ (PlayOk(once, u) /\ t = Play(once, u))
  BY DEF EndOfClip
<1> HIDE DEF u
<1>8. CASE PlayOk(once, u) /\ t = Play(once, u)
  <2>1. Sound(once)
    BY <1>1, <1>6
  <2>2. Sound(t) /\ t.group = once.group /\ Undisturbed(once, t) /\ PlanKept(once, t)
    BY ONLY <2>1, <1>8, PlayKeeps, PlayoutAssumption
  <2>3. Undisturbed(s, t)
    BY <1>6, <2>2 DEF Undisturbed, Stopped
  <2>4. PlanKept(s, t)
    BY <1>6, <2>2 DEF PlanKept, SamePlan
  <2> QED
    BY <1>6, <2>2, <2>3, <2>4
<1> QED
  BY <1>1, <1>2, <1>5, <1>6, <1>7, <1>8

LEMMA FollowMixerKeeps ==
    ASSUME PlayoutAssumption, NEW s, Sound(s), NEW t, t = FollowMixer(s)
    PROVE  Sound(t) /\ t.group = s.group /\ Undisturbed(s, t) /\ PlanKept(s, t)
<1>1. CASE t = s
  BY <1>1 DEF Undisturbed, Stopped, PlanKept, SamePlan
<1>2. CASE PlayOk(s, NextOutput(s.group)) /\ t = Play(s, NextOutput(s.group))
  BY <1>2, PlayKeeps
<1> QED
  BY <1>1, <1>2 DEF FollowMixer

LEMMA ReleaseKeeps ==
    ASSUME PlayoutAssumption, NEW s, Sound(s), NEW closed, NEW taken,
           NEW t, t = Release(s, closed, taken)
    PROVE  /\ Sound(t) /\ Undisturbed(s, t) /\ PlanKept(s, t)
           /\ Air(t.group) = Air(s.group) /\ t.group.release \subseteq s.group.release
<1> DEFINE free == Releases(s, closed)
           NewGroup == [s.group EXCEPT !.release = s.group.release \ free]
<1> SUFFICES ASSUME NEW g, g = NewGroup, NEW freed, freed = [s EXCEPT !.group = g]
             PROVE  /\ Sound(t) /\ Undisturbed(s, t) /\ PlanKept(s, t)
                    /\ Air(t.group) = Air(s.group) /\ t.group.release \subseteq s.group.release
  OBVIOUS
<1> DEFINE h == [u \in Outputs |-> IF u \in free THEN CueOutput(freed, u, taken).player[u]
                                   ELSE s.player[u]]
<1>1. StateShape(s) /\ PlayersShape(s.player) /\ GroupSound(s.group)
  BY DEF Sound
<1>2. free \subseteq s.group.release /\ \A u \in free : u \notin Programme
  BY DEF Releases
<1> HIDE DEF free
<1>3. /\ GroupShape(g) /\ g.outputs = s.group.outputs
      /\ g.air = s.group.air /\ g.live = s.group.live
      /\ SamePlan(g, s.group) /\ g.release = s.group.release \ free
  BY <1>1 DEF GroupSound, GroupShape, SamePlan
<1>4. Air(g) = Air(s.group)
  BY <1>3 DEF Air, Base
<1>5. StateShape(freed) /\ freed.group = g /\ freed.pending = s.pending /\ freed.player = s.player
  BY <1>1 DEF StateShape
<1>6. t = [freed EXCEPT !.player = h]
  <2>1. freed = [s EXCEPT !.group.release = @ \ free]
    BY <1>1 DEF StateShape
  <2>2. t = [freed EXCEPT !.player = [u \in Outputs |->
                IF u \in free THEN CueOutput(freed, u, taken).player[u] ELSE freed.player[u]]]
    BY <2>1 DEF Release, free
  <2> QED
    BY <1>5, <2>2
<1>7. PlayersShape(h)
  <2>1. ASSUME NEW u \in Outputs PROVE h[u] = [file |-> h[u].file, mode |-> h[u].mode]
    <3> DEFINE c == CueOutput(freed, u, taken)
    <3>1. PlayersShape(c.player)
      BY <1>1, <1>5, CueOne
    <3>2. h[u] = c.player[u] \/ h[u] = s.player[u]
      BY <2>1
    <3> HIDE DEF c, h
    <3> QED
      BY <1>1, <3>1, <3>2 DEF PlayersShape
  <2> QED
    BY <2>1 DEF PlayersShape
<1>8. \A u \in Outputs : u \notin free => h[u] = s.player[u]
  OBVIOUS
<1> HIDE DEF h
<1>9. StateShape(t) /\ t.group = g /\ t.pending = s.pending /\ t.player = h
  BY <1>5, <1>6 DEF StateShape
<1>10. Undisturbed(s, t)
  <2> SUFFICES ASSUME NEW u \in Outputs, Stopped(s, t, u)
               PROVE  u \notin Programme /\ u \notin g.release /\ u # Air(g)
    BY <1>9 DEF Undisturbed
  <2>1. u \in free
    BY <1>8, <1>9 DEF Stopped
  <2>2. u # NoOutput
    BY <1>1, OutputsAreListed DEF GroupSound
  <2> QED
    BY <1>1, <1>2, <1>3, <1>4, <2>1, <2>2 DEF GroupSound
<1>11. GroupSound(g)
  BY <1>1, <1>3, <1>4 DEF GroupSound
<1>12. TakeIsApart(t)
  BY <1>3, <1>4, <1>9 DEF Sound, TakeIsApart
<1>13. PlaysCursor(t)
  <2> SUFFICES ASSUME Air(g) # NoOutput, g.cursor # NoItem
               PROVE  t.player[Air(g)].file \in {g.cursor, NoItem}
    BY <1>9 DEF PlaysCursor
  <2>1. Air(g) \in Outputs
    BY <1>11, OutputsAreListed DEF GroupSound
  <2>2. t.player[Air(g)].file = s.player[Air(s.group)].file
    BY <1>4, <1>9, <1>10, <2>1 DEF Undisturbed, Stopped
  <2> QED
    BY <1>3, <1>4, <2>2 DEF Sound, PlaysCursor, SamePlan
<1>14. PlanKept(s, t)
  BY <1>3, <1>9 DEF PlanKept
<1> QED
  BY <1>14, <1>3, <1>4, <1>7, <1>9, <1>10, <1>11, <1>12, <1>13 DEF Sound

LEMMA LoadAllKeeps ==
    ASSUME PlayoutAssumption, NEW s, Sound(s), NEW taken, NEW t, t = LoadAll(s, taken)
    PROVE  Sound(t) /\ t.group = s.group /\ Undisturbed(s, t) /\ PlanKept(s, t)
<1> DEFINE due == ToLoad(s)
           h == [u \in Outputs |-> IF u \in due THEN Load(s, u, Want(s.group, u), taken).player[u]
                                   ELSE s.player[u]]
<1>1. StateShape(s) /\ PlayersShape(s.player)
  BY DEF Sound
<1>2. \A u \in due : u \notin Programme /\ u # Air(s.group) /\ u \notin s.group.release
  BY DEF ToLoad, Role
<1>3. t = [s EXCEPT !.player = h]
  BY DEF LoadAll
<1> HIDE DEF due
<1>4. PlayersShape(h)
  <2>1. ASSUME NEW u \in Outputs PROVE h[u] = [file |-> h[u].file, mode |-> h[u].mode]
    <3> DEFINE c == Load(s, u, Want(s.group, u), taken)
    <3>1. PlayersShape(c.player)
      BY <1>1, LoadOne
    <3>2. h[u] = c.player[u] \/ h[u] = s.player[u]
      BY <2>1
    <3> HIDE DEF c, h
    <3> QED
      BY <1>1, <3>1, <3>2 DEF PlayersShape
  <2> QED
    BY <2>1 DEF PlayersShape
<1>5. \A u \in Outputs : u \notin due => h[u] = s.player[u]
  OBVIOUS
<1> HIDE DEF h
<1>6. StateShape(t) /\ t.group = s.group /\ t.pending = s.pending /\ t.player = h
  BY <1>1, <1>3 DEF StateShape
<1>7. Undisturbed(s, t)
  BY <1>2, <1>5, <1>6 DEF Undisturbed, Stopped
<1>8. TakeIsApart(t)
  BY <1>6 DEF Sound, TakeIsApart
<1>9. PlanKept(s, t)
  BY <1>6 DEF PlanKept, SamePlan
<1> QED
  BY <1>4, <1>6, <1>7, <1>8, <1>9, SameGroup


(* The item of a take that is seen becomes the cursor, its output the one  *)
(* on air.                                                                 *)
LEMMA Taken ==
    ASSUME NEW g, GroupShape(g), NEW u, NEW it, NEW t, t = ConfirmTake(g, u, it)
    PROVE  /\ GroupShape(t)
           /\ t.outputs = g.outputs /\ t.cursor = it /\ t.air = u /\ t.live
           /\ t.release = (g.release \cup ({Air(g)} \ {NoOutput})) \ {u}
BY DEF GroupShape, ConfirmTake

LEMMA TakeKeeps ==
    ASSUME PlayoutAssumption, NEW s, Sound(s), s.pending # NoTake, TakeSeen(s),
           s.pending.output \in Range(s.group.outputs),
           NEW t, StateShape(t), t.pending = NoTake, t.player = s.player,
           t.group = ConfirmTake(s.group, s.pending.output, s.pending.item)
    PROVE  Sound(t) /\ Undisturbed(s, t)
<1> DEFINE u == s.pending.output
<1>1. GroupSound(s.group) /\ PlayersShape(s.player)
  BY DEF Sound
<1>2. /\ GroupShape(t.group)
      /\ t.group.outputs = s.group.outputs /\ t.group.cursor = s.pending.item
      /\ t.group.air = u /\ t.group.live
      /\ t.group.release = (s.group.release \cup ({Air(s.group)} \ {NoOutput})) \ {u}
  <2>1. GroupShape(s.group)
    BY <1>1 DEF GroupSound
  <2>2. t.group = ConfirmTake(s.group, u, s.pending.item)
    OBVIOUS
  <2> QED
    BY ONLY <2>1, <2>2, Taken
<1>3. u # NoOutput
  BY <1>1, OutputsAreListed DEF GroupSound
<1>4. Air(t.group) = u
  BY <1>2 DEF Air, Base
<1>5. GroupSound(t.group)
  BY <1>1, <1>2, <1>4 DEF GroupSound
<1>6. t.player[u].file = t.group.cursor
  BY <1>2 DEF TakeSeen
<1>7. PlaysCursor(t)
  BY <1>4, <1>6 DEF PlaysCursor
<1>8. TakeIsApart(t) /\ Undisturbed(s, t)
  BY DEF TakeIsApart, Undisturbed, Stopped
<1> QED
  BY <1>1, <1>5, <1>7, <1>8 DEF Sound

(* A take that comes too late: its output, which is not on air nor to be   *)
(* released, is cued again unless the mixer shows it.                      *)
LEMMA LateKeeps ==
    ASSUME PlayoutAssumption, NEW s, Sound(s), s.pending # NoTake,
           s.pending.output \notin Programme, s.pending.output \in Range(s.group.outputs),
           NEW over, StateShape(over), over.group = s.group, over.pending = NoTake,
           over.player = s.player, NEW taken, NEW t, t = CueOutput(over, s.pending.output, taken)
    PROVE  Sound(t) /\ Undisturbed(s, t) /\ PlanKept(s, t)
<1> DEFINE u == s.pending.output
<1>1. PlayersShape(over.player)
  BY DEF Sound
<1>2. /\ StateShape(t) /\ PlayersShape(t.player) /\ t.group = s.group /\ t.pending = NoTake
      /\ \A v \in Outputs : v # u => t.player[v] = s.player[v]
  BY <1>1, CueOne
<1>3. u \notin s.group.release /\ u # Air(s.group)
  <2>1. u # NoOutput
    BY OutputsAreListed DEF Sound, GroupSound
  <2> QED
    BY <2>1 DEF Sound, TakeIsApart
<1>4. Undisturbed(s, t)
  BY <1>2, <1>3 DEF Undisturbed, Stopped
<1>5. TakeIsApart(t)
  BY <1>2 DEF TakeIsApart
<1>6. PlanKept(s, t)
  BY <1>2 DEF PlanKept, SamePlan
<1> QED
  BY <1>2, <1>4, <1>5, <1>6, SameGroup

LEMMA CheckTakeKeeps ==
    ASSUME PlayoutAssumption, NEW s, Sound(s), NEW late, NEW taken,
           (/\ s.pending # NoTake /\ s.pending.item \in Range(s.group.items)
            /\ TakeSeen(s) \/ late) => s.pending.output \in Range(s.group.outputs),
           NEW t, t = CheckTake(s, late, taken)
    PROVE  /\ Sound(t) /\ Undisturbed(s, t)
           /\ \A m \in Nat : Planned(s, m) => Planned(t, m)
<1> DEFINE p == s.pending
           taker == ConfirmTake(s.group, p.output, p.item)
<1> SUFFICES ASSUME NEW looked, looked = [s EXCEPT !.obs[p.output] = Seen(s, p.output)],
                    NEW over, over = [looked EXCEPT !.pending = NoTake],
                    NEW gone, gone = [s EXCEPT !.pending = NoTake],
                    NEW seen, seen = [over EXCEPT !.group = taker]
             PROVE  /\ Sound(t) /\ Undisturbed(s, t)
                    /\ \A m \in Nat : Planned(s, m) => Planned(t, m)
  OBVIOUS
<1>1. StateShape(s)
  BY DEF Sound
<1>2. StateShape(looked) /\ looked.group = s.group /\ looked.pending = p /\ looked.player = s.player
  BY <1>1 DEF StateShape
<1>3. StateShape(over) /\ over.group = s.group /\ over.pending = NoTake /\ over.player = s.player
  BY <1>2 DEF StateShape
<1>4. StateShape(gone) /\ gone.group = s.group /\ gone.pending = NoTake /\ gone.player = s.player
  BY <1>1 DEF StateShape
<1>5. StateShape(seen) /\ seen.group = taker /\ seen.pending = NoTake /\ seen.player = s.player
  BY <1>3 DEF StateShape
<1>6. over.group = s.group /\ [over EXCEPT !.group = ConfirmTake(@, p.output, p.item)] = seen
  BY <1>3
<1>7. ASSUME NEW r, StateShape(r), r.group = s.group, r.player = s.player,
             r.pending = p \/ r.pending = NoTake
      PROVE  /\ Sound(r) /\ Undisturbed(s, r)
             /\ \A m \in Nat : Planned(s, m) => Planned(r, m)
  <2>1. Undisturbed(s, r)
    BY ONLY <1>7 DEF Undisturbed, Stopped
  <2>2. TakeIsApart(r)
    BY ONLY <1>7, Sound(s) DEF Sound, TakeIsApart
  <2>3. PlayersShape(r.player)
    BY ONLY <1>7, Sound(s) DEF Sound
  <2>4. PlanKept(s, r)
    BY ONLY <1>7 DEF PlanKept, SamePlan
  <2>5. \A m \in Nat : Planned(s, m) => Planned(r, m)
    BY ONLY <2>4, StillPlanned, PlayoutAssumption
  <2> QED
    BY ONLY <1>7, <2>1, <2>2, <2>3, <2>5, Sound(s), SameGroup, PlayoutAssumption
<1>8. \/ p = NoTake /\ t = s
      \/ p # NoTake /\ t = gone
      \/ p # NoTake /\ p.item \in Range(s.group.items) /\ TakeSeen(s) /\ t = seen
      \/ t = looked
      \/ t = over
      \/ /\ p # NoTake /\ p.item \in Range(s.group.items) /\ late
         /\ p.output \notin Programme /\ t = CueOutput(over, p.output, taken)
  BY <1>6 DEF CheckTake
<1>9. CASE p # NoTake /\ p.item \in Range(s.group.items) /\ TakeSeen(s) /\ t = seen
  <2>1. Sound(t) /\ Undisturbed(s, t)
    BY ONLY <1>5, <1>9, Sound(s), TakeKeeps, PlayoutAssumption,
            (/\ s.pending # NoTake /\ s.pending.item \in Range(s.group.items)
             /\ TakeSeen(s) \/ late) => s.pending.output \in Range(s.group.outputs)
  <2>2. GroupShape(s.group)
    BY DEF Sound, GroupSound
  <2>3. t.group = ConfirmTake(s.group, s.pending.output, s.pending.item) /\ t.pending = NoTake
    BY ONLY <1>5, <1>9
  <2>4. \A m \in Nat : Planned(s, m) => Planned(t, m)
    BY ONLY <1>9, <2>2, <2>3, TakePlans, PlayoutAssumption
  <2> QED
    BY <2>1, <2>4
<1>10. CASE /\ p # NoTake /\ p.item \in Range(s.group.items) /\ late
            /\ p.output \notin Programme /\ t = CueOutput(over, p.output, taken)
  <2>1. Sound(t) /\ Undisturbed(s, t) /\ PlanKept(s, t)
    BY ONLY <1>3, <1>10, Sound(s), LateKeeps, PlayoutAssumption,
            (/\ s.pending # NoTake /\ s.pending.item \in Range(s.group.items)
             /\ TakeSeen(s) \/ late) => s.pending.output \in Range(s.group.outputs)
  <2>2. \A m \in Nat : Planned(s, m) => Planned(t, m)
    BY ONLY <2>1, StillPlanned, PlayoutAssumption
  <2> QED
    BY <2>1, <2>2
<1>11. CASE t \in {s, gone, looked, over}
  BY ONLY <1>1, <1>2, <1>3, <1>4, <1>7, <1>11
<1> QED
  BY ONLY <1>8, <1>9, <1>10, <1>11

(* The whole pass. *)
LEMMA PassKeeps ==
    ASSUME PlayoutAssumption, AirInv, Pass
    PROVE  /\ AirInv' /\ Undisturbed(Now, Now')
           /\ \A m \in Nat : Planned(Now, m) => Planned(Now', m)
<1>1. PICK late \in {l \in BOOLEAN : ~ Astray(l)}, taken \in Effects, over \in BOOLEAN,
           closed \in Effects, again \in Effects, reloaded \in Effects :
        Becomes(LoadAll(Release(FollowMixer(EndOfClip(CheckTake(Now, late, taken), over)),
                                closed, again), reloaded))
  BY DEF Pass
<1> SUFFICES ASSUME NEW took, took = CheckTake(Now, late, taken),
                    NEW ended, ended = EndOfClip(took, over),
                    NEW led, led = FollowMixer(ended),
                    NEW freed, freed = Release(led, closed, again),
                    NEW done, done = LoadAll(freed, reloaded)
             PROVE  /\ AirInv' /\ Undisturbed(Now, Now')
                    /\ \A m \in Nat : Planned(Now, m) => Planned(Now', m)
  OBVIOUS
<1>2. Becomes(done)
  BY <1>1
<1>3. /\ Sound(took) /\ Undisturbed(Now, took)
      /\ \A m \in Nat : Planned(Now, m) => Planned(took, m)
  <2>1. (/\ pending # NoTake /\ pending.item \in Range(group.items)
         /\ TakeSeen(Now) \/ late) => pending.output \in Range(group.outputs)
    BY <1>1 DEF Astray
  <2> QED
    BY ONLY <2>1, AirInv, took = CheckTake(Now, late, taken), NowShape, CheckTakeKeeps,
            PlayoutAssumption DEF AirInv
<1>4. Sound(ended) /\ ended.group = took.group /\ Undisturbed(took, ended) /\ PlanKept(took, ended)
  BY ONLY <1>3, ended = EndOfClip(took, over), EndOfClipKeeps, PlayoutAssumption
<1>5. Sound(led) /\ led.group = ended.group /\ Undisturbed(ended, led) /\ PlanKept(ended, led)
  BY ONLY <1>4, led = FollowMixer(ended), FollowMixerKeeps, PlayoutAssumption
<1>6. /\ Sound(freed) /\ Undisturbed(led, freed) /\ PlanKept(led, freed)
      /\ Air(freed.group) = Air(led.group) /\ freed.group.release \subseteq led.group.release
  BY ONLY <1>5, freed = Release(led, closed, again), ReleaseKeeps, PlayoutAssumption
<1>7. Sound(done) /\ done.group = freed.group /\ Undisturbed(freed, done) /\ PlanKept(freed, done)
  BY ONLY <1>6, done = LoadAll(freed, reloaded), LoadAllKeeps, PlayoutAssumption
<1>8. Undisturbed(Now, ended)
  BY ONLY <1>3, <1>4, StillUndisturbed
<1>9. Undisturbed(Now, led)
  BY ONLY <1>5, <1>8, StillUndisturbed
<1>10. Undisturbed(Now, freed)
  BY ONLY <1>6, <1>9, StillUndisturbed
<1>11. Undisturbed(Now, done)
  BY ONLY <1>7, <1>10, StillUndisturbed
<1>12. Now' = done
  BY ONLY <1>2, <1>7, NextNow DEF Sound
<1>13. Sound(Now)'
  <2>1. Sound(Now') <=> Sound(done)
    BY <1>12
  <2> QED
    BY <1>7, <1>12, <2>1 DEF Sound
<1>14. \A m \in Nat : Planned(Now, m) => Planned(done, m)
  BY ONLY <1>3, <1>4, <1>5, <1>6, <1>7, StillPlanned, PlayoutAssumption
<1> QED
  BY ONLY <1>11, <1>12, <1>13, <1>14 DEF AirInv

(***************************************************************************)
(* The other steps: they put nothing on air and take nothing off for the   *)
(* cursor.                                                                 *)
(***************************************************************************)
LEMMA LessOnAir ==
    ASSUME PlayoutAssumption, AirInv, PlayersShape(player'), GroupShape(group'),
           group'.outputs \in OutputLists, group'.air \in Range(group'.outputs) \cup {NoOutput},
           Air(group') \in {Air(group), NoOutput}, group'.release \subseteq group.release,
           group'.cursor \in {group.cursor, NoItem}, pending' \in {pending, NoTake},
           Air(group') # NoOutput =>
               player'[Air(group)].file \in {player[Air(group)].file, NoItem}
    PROVE  AirInv'
<1>1. /\ StateShape(Now') /\ Now'.group = group' /\ Now'.pending = pending'
      /\ Now'.player = player'
  BY DEF StateShape, Now
<1>2. GroupSound(group) /\ TakeIsApart(Now) /\ PlaysCursor(Now)
  BY NowShape DEF AirInv, Sound
<1>3. GroupSound(group')
  BY <1>2 DEF GroupSound
<1>4. TakeIsApart(Now')
  BY <1>1, <1>2, NowShape DEF TakeIsApart
<1>5. PlaysCursor(Now')
  BY <1>1, <1>2, NowShape DEF PlaysCursor
<1> QED
  BY <1>1, <1>3, <1>4, <1>5 DEF AirInv, Sound

(* What the plan is rewritten to. *)
LEMMA RewritesKeeps ==
    ASSUME PlayoutAssumption, AirInv, NEW g, Rewrites(g), GroupShape(g),
           g.outputs \in OutputLists, g.air \in Range(g.outputs) \cup {NoOutput},
           Air(g) \in {Air(group), NoOutput}, g.release \subseteq group.release,
           g.cursor \in {group.cursor, NoItem}
    PROVE  AirInv'
<1>1. group' = g /\ pending' = pending /\ player' = player
  BY DEF Rewrites, engine
<1>2. PlayersShape(player)
  BY NowShape DEF AirInv, Sound
<1> QED
  BY ONLY <1>1, <1>2, LessOnAir, PlayoutAssumption, AirInv, GroupShape(g),
          g.outputs \in OutputLists, g.air \in Range(g.outputs) \cup {NoOutput},
          Air(g) \in {Air(group), NoOutput}, g.release \subseteq group.release,
          g.cursor \in {group.cursor, NoItem}

(* An operation on the items leaves all the rest. *)
SameAir(g, f) ==
    /\ GroupShape(f) /\ f.outputs = g.outputs /\ f.air = g.air /\ f.live = g.live
    /\ f.release = g.release /\ f.cursor \in {g.cursor, NoItem}

LEMMA ItemsOnly ==
    ASSUME NEW g, GroupShape(g)
    PROVE  /\ \A it : SameAir(g, Drop(g, it))
           /\ \A it, on : SameAir(g, SkipItem(g, it, on))
           /\ \A it, to : SameAir(g, Move(g, it, to))
           /\ \A it : SameAir(g, GoTo(g, it))
           /\ \A it : \A mode \in {"replace", "next", "append"} : SameAir(g, Add(g, it, mode))
           /\ SameAir(g, Reset(g))
<1>1. ASSUME NEW it PROVE SameAir(g, Drop(g, it))
  <2> SUFFICES ASSUME NEW f, f = Drop(g, it) PROVE SameAir(g, f)
    OBVIOUS
  <2> QED
    BY DEF GroupShape, SameAir, Drop
<1>2. ASSUME NEW it, NEW on PROVE SameAir(g, SkipItem(g, it, on))
  BY DEF GroupShape, SameAir, SkipItem
<1>3. ASSUME NEW it, NEW to PROVE SameAir(g, Move(g, it, to))
  BY DEF GroupShape, SameAir, Move
<1>4. ASSUME NEW it PROVE SameAir(g, GoTo(g, it))
  BY DEF GroupShape, SameAir, GoTo
<1>5. ASSUME NEW it, NEW mode \in {"replace", "next", "append"}
      PROVE  SameAir(g, Add(g, it, mode))
  <2>1. CASE mode = "replace"
    BY <2>1 DEF GroupShape, SameAir, Add
  <2>2. CASE mode = "next"
    BY <2>2 DEF GroupShape, SameAir, Add
  <2>3. CASE mode = "append"
    BY <2>3 DEF GroupShape, SameAir, Add
  <2> QED
    BY <1>5, <2>1, <2>2, <2>3
<1>6. SameAir(g, Reset(g))
  <2> SUFFICES ASSUME NEW f, f = Reset(g) PROVE SameAir(g, f)
    OBVIOUS
  <2> QED
    BY DEF GroupShape, SameAir, Reset
<1> QED
  BY <1>1, <1>2, <1>3, <1>4, <1>5, <1>6

LEMMA SameAirKeeps ==
    ASSUME PlayoutAssumption, AirInv, NEW g, Rewrites(g), SameAir(group, g)
    PROVE  AirInv'
<1>1. GroupSound(group)
  BY NowShape DEF AirInv, Sound
<1>2. /\ GroupShape(g) /\ g.outputs \in OutputLists
      /\ g.air \in Range(g.outputs) \cup {NoOutput} /\ Air(g) = Air(group)
      /\ g.release = group.release /\ g.cursor \in {group.cursor, NoItem}
  BY <1>1 DEF SameAir, GroupSound, Air, Base
<1> QED
  BY ONLY <1>2, Rewrites(g), RewritesKeeps, AirInv, PlayoutAssumption

LEMMA UpdateKeeps ==
    ASSUME PlayoutAssumption, AirInv, NEW l, NEW s, Update(l, s)
    PROVE  AirInv'
<1> DEFINE kept == group.air \in Range(l)
<1>1. GroupSound(group)
  BY NowShape DEF AirInv, Sound
<1>2. PICK g : /\ Rewrites(g) /\ l \in OutputLists
               /\ g = [group EXCEPT !.outputs = l, !.ooo = s.ooo,
                        !.air = IF kept THEN @ ELSE NoOutput, !.live = @ /\ kept,
                        !.release = @ \cap Range(l)]
  BY DEF Update
<1>3. /\ GroupShape(g) /\ g.outputs = l /\ g.cursor = group.cursor
      /\ g.air = (IF kept THEN group.air ELSE NoOutput) /\ g.live = (group.live /\ kept)
      /\ g.release = group.release \cap Range(l)
  BY <1>1, <1>2 DEF GroupSound, GroupShape
<1>4. g.air \in Range(g.outputs) \cup {NoOutput}
  BY <1>3
<1>5. Air(g) \in {Air(group), NoOutput}
  BY <1>1, <1>3 DEF GroupSound, Air, Base
<1> QED
  BY ONLY <1>2, <1>3, <1>4, <1>5, RewritesKeeps, AirInv, PlayoutAssumption

(* CUE of an output takes it off the air before it is cued. *)
LEMMA OpCueKeeps ==
    ASSUME PlayoutAssumption, AirInv, NEW u, NEW taken, OpCue(u, taken)
    PROVE  AirInv'
<1> SUFFICES ASSUME NEW g, g = StopAir(group, u),
                    NEW s, s = [Now EXCEPT !.group = g],
                    NEW t, t = CueOutput(s, u, taken)
             PROVE  AirInv'
  OBVIOUS
<1>1. GroupSound(group) /\ PlayersShape(player)
  BY NowShape DEF AirInv, Sound
<1>2. /\ StateShape(s) /\ s.group = g /\ s.pending = pending /\ s.player = player
  BY DEF StateShape, Now
<1>3. /\ StateShape(t) /\ PlayersShape(t.player) /\ t.group = g /\ t.pending = pending
      /\ \A v \in Outputs : v # u => t.player[v] = player[v]
  BY ONLY <1>1, <1>2, CueOne, t = CueOutput(s, u, taken)
<1>4. group' = g /\ pending' = pending /\ player' = t.player
  BY <1>3 DEF OpCue, Becomes
<1>5. /\ GroupShape(g) /\ g.outputs = group.outputs /\ g.air = group.air
      /\ g.live = (group.live /\ Air(group) # u)
      /\ g.release = group.release \ {u} /\ g.cursor = group.cursor
  BY <1>1 DEF GroupSound, GroupShape, StopAir
<1>6. Air(g) = IF Air(group) # u THEN Air(group) ELSE NoOutput
  BY <1>1, <1>5 DEF Air, Base
<1>7. Air(g) # NoOutput => player'[Air(group)].file = player[Air(group)].file
  BY <1>1, <1>3, <1>4, <1>6, OutputsAreListed DEF GroupSound
<1> QED
  BY <1>1, <1>3, <1>4, <1>5, <1>6, <1>7, LessOnAir DEF GroupSound

LEMMA ItemsKeep ==
    ASSUME PlayoutAssumption, AirInv,
           \/ \E it \in Items : OpItem(it)
           \/ \E mode \in {"replace", "next", "append"} : OpAdd(mode)
           \/ OpReset
    PROVE  AirInv' /\ Event
<1>1. GroupShape(group)
  BY NowShape DEF AirInv, Sound, GroupSound
<1>2. \E g : Rewrites(g) /\ SameAir(group, g)
  <2>1. CASE \E it \in Items : OpItem(it)
    BY <1>1, <2>1, ItemsOnly DEF OpItem
  <2>2. CASE \E mode \in {"replace", "next", "append"} : OpAdd(mode)
    BY <1>1, <2>2, ItemsOnly DEF OpAdd
  <2>3. CASE OpReset
    BY <1>1, <2>3, ItemsOnly DEF OpReset
  <2> QED
    BY <2>1, <2>2, <2>3
<1> QED
  BY <1>2, SameAirKeeps DEF Rewrites

(* A player that starts, comes back or goes on: no file moves. *)
LEMMA ModeKeeps ==
    ASSUME PlayoutAssumption, AirInv, PlayersShape(player'),
           \A u \in Outputs : player'[u].file \in {player[u].file, NoItem},
           group' = group, pending' \in {pending, NoTake}
    PROVE  AirInv'
<1>1. GroupSound(group)
  BY NowShape DEF AirInv, Sound
<1>2. Air(group) # NoOutput => Air(group) \in Outputs
  BY <1>1, OutputsAreListed DEF GroupSound
<1> QED
  BY <1>1, <1>2, LessOnAir DEF GroupSound

(* Nothing that is to be left alone is halted. *)
LeavesAlone ==
    \A u \in Range(group.outputs) :
        u = Air(group') \/ u \in group'.release \/ u \in Programme => ~ Halted(u)

LEMMA PlayersKeep ==
    ASSUME PlayoutAssumption, AirInv, NEW u \in Outputs, NEW mode,
           player' = [player EXCEPT ![u].mode = mode], group' = group,
           pending' \in {pending, NoTake}
    PROVE  AirInv' /\ (player[u].mode # "playing" \/ mode = "playing" => LeavesAlone)
<1> DEFINE one == [file |-> player[u].file, mode |-> mode]
<1>1. PlayersShape(player) /\ GroupSound(group)
  BY NowShape DEF AirInv, Sound
<1>2. [player[u] EXCEPT !.mode = mode] = one
  BY <1>1 DEF PlayersShape
<1>3. player' = [player EXCEPT ![u] = one]
  BY <1>2
<1>4. PlayersShape(player') /\ \A v \in Outputs : player'[v] = IF v = u THEN one ELSE player[v]
  BY <1>1, <1>3 DEF PlayersShape
<1>5. AirInv'
  BY <1>4, ModeKeeps
<1>6. \A v \in Range(group.outputs) : v \in Outputs
  BY <1>1, OutputsAreListed DEF GroupSound
<1>7. player[u].mode # "playing" \/ mode = "playing" => LeavesAlone
  BY <1>4, <1>6 DEF LeavesAlone, Halted
<1> QED
  BY <1>5, <1>7

Counted == events \in Nat

(* One case per action. *)
LEMMA StepKeeps ==
    ASSUME PlayoutAssumption, AirInv, Counted, [Next]_vars
    PROVE  AirInv' /\ Counted' /\ (events' = events => LeavesAlone)
<1> DEFINE Kept == AirInv' /\ Counted' /\ (events' = events => LeavesAlone)
<1>1. PlayersShape(player) /\ GroupSound(group) /\ Sound(Now)
  BY NowShape DEF AirInv, Sound
<1>2. \A u \in Range(group.outputs) : u \in Outputs
  BY <1>1, OutputsAreListed DEF GroupSound
<1>3. Event => Counted' /\ events' # events
  BY DEF Event, Counted
<1>4. ASSUME group' = group, player' = player, pending' \in {pending, NoTake}
      PROVE  AirInv' /\ LeavesAlone
  <2>1. AirInv'
    BY <1>1, <1>4, ModeKeeps
  <2> QED
    BY <1>4, <2>1 DEF LeavesAlone, Halted
<1>5. ASSUME Pass PROVE Kept
  <2>1. AirInv' /\ Undisturbed(Now, Now')
    BY <1>5, PassKeeps
  <2>2. /\ Now'.group = group' /\ Now'.player = player'
    BY DEF Now
  <2>3. LeavesAlone
    BY <1>2, <2>1, <2>2, NowShape DEF LeavesAlone, Undisturbed, Stopped, Halted
  <2>4. Counted'
    BY <1>5 DEF Pass, counters, Counted
  <2> QED
    BY <2>1, <2>3, <2>4
<1>6. ASSUME NEW late \in BOOLEAN, PassStops(late) PROVE Kept
  BY <1>4, <1>6 DEF PassStops, counters, Counted
<1>7. ASSUME NEW u \in Outputs, OpPlay(u) PROVE Kept
  <2>1. PICK t : t = Play(Now, u) /\ PlayOk(Now, u) /\ Becomes(t)
    BY <1>7 DEF OpPlay
  <2>2. Sound(t)
    BY ONLY <1>1, <2>1, PlayKeeps, PlayoutAssumption
  <2>3. Now' = t
    BY ONLY <2>1, <2>2, NextNow DEF Sound
  <2>4. AirInv'
    BY <2>2, <2>3 DEF AirInv, Sound
  <2> QED
    BY <1>3, <1>7, <2>4 DEF OpPlay
<1>8. ASSUME NEW u \in Outputs, NEW taken \in Effects, OpCue(u, taken) PROVE Kept
  BY <1>3, <1>8, OpCueKeeps DEF OpCue
<1>9. ASSUME Poll PROVE Kept
  BY <1>4, <1>9 DEF Poll, counters, Counted
<1>10. ASSUME MixerSeen PROVE Kept
  BY <1>4, <1>10 DEF MixerSeen, engine, counters, Counted
<1>11. ASSUME Restart PROVE Kept
  BY <1>3, <1>4, <1>11 DEF Restart
<1>12. ASSUME OpResume PROVE Kept
  <2>1. Air(group) \in Outputs
    BY <1>1, <1>12, OutputsAreListed DEF OpResume, GroupSound
  <2>2. AirInv'
    BY <1>12, <2>1, PlayersKeep DEF OpResume, engine
  <2> QED
    BY <1>3, <1>12, <2>2 DEF OpResume
<1>13. ASSUME \/ \E it \in Items : OpItem(it)
              \/ \E mode \in {"replace", "next", "append"} : OpAdd(mode)
              \/ OpReset
       PROVE  Kept
  BY <1>3, <1>13, ItemsKeep
<1>14. ASSUME NEW l, NEW s, Update(l, s) PROVE Kept
  BY <1>3, <1>14, UpdateKeeps DEF Update, Rewrites
<1>15. ASSUME NEW u \in Outputs, Starts(u) PROVE Kept
  BY <1>15, PlayersKeep DEF Starts, engine, counters, Counted
<1>16. ASSUME NEW u \in Outputs, PlayerDown(u) PROVE Kept
  <2>1. /\ PlayersShape(player')
        /\ \A v \in Outputs : player'[v].file \in {player[v].file, NoItem}
    BY <1>1, <1>16 DEF PlayerDown, PlayersShape
  <2>2. AirInv'
    BY <1>16, <2>1, ModeKeeps DEF PlayerDown, engine
  <2> QED
    BY <1>3, <1>16, <2>2 DEF PlayerDown
<1>17. ASSUME NEW u \in Outputs, PlayerUp(u) PROVE Kept
  BY <1>17, PlayersKeep DEF PlayerUp, engine, counters, Counted
<1>18. CASE UNCHANGED vars
  BY <1>4, <1>18 DEF vars, engine, counters, Counted
<1>19. CASE Next
  BY <1>5, <1>6, <1>7, <1>8, <1>9, <1>10, <1>11, <1>12, <1>13, <1>14, <1>15, <1>16, <1>17, <1>19
     DEF Next
<1> QED
  BY <1>18, <1>19

LEMMA StartsSound ==
    ASSUME PlayoutAssumption, Init
    PROVE  AirInv /\ Counted
<1>1. GroupShape(group)
  BY DEF Init, GroupShape
<1>2. GroupSound(group) /\ Air(group) = NoOutput
  BY <1>1 DEF Init, GroupSound, Air, Base, PlayoutAssumption
<1>3. PlayersShape(player)
  BY DEF Init, PlayersShape
<1>4. TakeIsApart(Now) /\ PlaysCursor(Now)
  BY <1>2, NowShape DEF Init, TakeIsApart, PlaysCursor
<1> QED
  BY <1>2, <1>3, <1>4, NowShape DEF Init, AirInv, Sound, Counted

(* What is on air is the item at the cursor, whatever the operator asked,  *)
(* the mixer showed and the players did since its take was seen            *)
(* (confirm_take, _check_take, stop_air, update_group).                    *)
THEOREM AirPlaysCursorHolds ==
    ASSUME PlayoutAssumption
    PROVE  Spec => []AirPlaysCursor
<1>1. Init => AirInv /\ Counted
  BY StartsSound
<1>2. AirInv /\ Counted /\ [Next]_vars => AirInv' /\ Counted'
  BY StepKeeps
<1>3. AirInv => AirPlaysCursor
  BY NowShape DEF AirInv, Sound, PlaysCursor, AirPlaysCursor
<1> QED
  BY <1>1, <1>2, <1>3, PTL DEF Spec

(* Unasked, the engine and its pass reload, cue or pause no output that is *)
(* on air, that is to be released or that the mixer shows (_load, cue,     *)
(* auto_release_check).                                                    *)
THEOREM AirIsLeftAloneHolds ==
    ASSUME PlayoutAssumption
    PROVE  Spec => AirIsLeftAlone
<1>1. Init => AirInv /\ Counted
  BY StartsSound
<1>2. AirInv /\ Counted /\ [Next]_vars => AirInv' /\ Counted'
  BY StepKeeps
<1>3. AirInv /\ Counted /\ [Next]_vars =>
        [events' = events =>
            \A u \in Range(group.outputs) :
                u = Air(group') \/ u \in group'.release \/ u \in Programme => ~ Halted(u)]_vars
  BY StepKeeps DEF LeavesAlone
<1> QED
  BY <1>1, <1>2, <1>3, PTL DEF Spec, AirIsLeftAlone

(***************************************************************************)
(* The playlist, through every step.                                       *)
(***************************************************************************)
SplitInv == made \in Nat /\ Planned(Now, made)

(* The plan stays, and no take is asked for. *)
LEMMA SamePlanSplits ==
    ASSUME PlayoutAssumption, SplitInv, SamePlan(group', group), pending' \in {pending, NoTake},
           made' = made
    PROVE  SplitInv'
<1>1. /\ Now'.group = group' /\ Now'.pending = pending'
  BY DEF Now
<1>2. PlanKept(Now, Now')
  BY <1>1, NowShape DEF PlanKept
<1>3. Planned(Now', made)
  BY <1>2, StillPlanned DEF SplitInv
<1>4. Planned(Now, made)' <=> Planned(Now', made)
  BY DEF Planned
<1> QED
  BY <1>3, <1>4 DEF SplitInv

(* The operator changes the playlist, the engine awaits the same take. *)
LEMMA RewritesSplits ==
    ASSUME PlayoutAssumption, SplitInv, NEW g, Rewrites(g), made' \in Nat,
           \E k : Cut(g, k, made', pending.item)
    PROVE  SplitInv'
<1>1. group' = g /\ pending' = pending
  BY DEF Rewrites, engine
<1>2. Now'.group = g /\ Now'.pending = pending
  BY <1>1 DEF Now
<1> QED
  BY <1>2 DEF SplitInv, Planned

(* The operations on the items keep the playlist split. *)
LEMMA ItemsSplit ==
    ASSUME PlayoutAssumption, AirInv, SplitInv,
           \/ \E it \in Items : OpItem(it)
           \/ \E mode \in {"replace", "next", "append"} : OpAdd(mode)
           \/ OpReset
    PROVE  SplitInv'
<1>1. GroupShape(group) /\ made \in Nat
  BY NowShape DEF AirInv, Sound, GroupSound, SplitInv
<1>2. PICK n : Cut(group, n, made, pending.item)
  BY NowShape DEF SplitInv, Planned
<1>3. CursorAt(group) = n
  BY <1>1, <1>2, CutIsAtCursor
<1>4. ASSUME NEW it \in Items, OpItem(it) PROVE SplitInv'
  <2>1. it \in Range(group.items) /\ made' = made
    BY <1>4 DEF OpItem
  <2>2. CASE it # group.cursor /\ Rewrites(Drop(group, it))
    <3>1. \E k : Cut(Drop(group, it), k, made, pending.item)
      BY <1>1, <1>2, <2>1, <2>2, DropCuts
    <3> QED
      BY <1>1, <2>1, <2>2, <3>1, RewritesSplits
  <2>3. CASE Place(group.items, it) > CursorAt(group)
             /\ \E on \in BOOLEAN : Rewrites(SkipItem(group, it, on))
    <3>1. \A on \in BOOLEAN : \E k : Cut(SkipItem(group, it, on), k, made, pending.item)
      BY <1>1, <1>2, <1>3, <2>1, <2>3, SkipCuts
    <3> QED
      BY <1>1, <2>1, <2>3, <3>1, RewritesSplits
  <2>4. CASE Place(group.items, it) > CursorAt(group)
             /\ \E to \in 1..Len(group.items) : Rewrites(Move(group, it, to))
    <3>1. \A to \in 1..Len(group.items) : \E k : Cut(Move(group, it, to), k, made, pending.item)
      BY <1>1, <1>2, <1>3, <2>1, <2>4, MoveCuts
    <3> QED
      BY <1>1, <2>1, <2>4, <3>1, RewritesSplits
  <2>5. CASE Place(group.items, it) > CursorAt(group) /\ Rewrites(GoTo(group, it))
    <3>1. \E k : Cut(GoTo(group, it), k, made, pending.item)
      BY <1>1, <1>2, <1>3, <2>1, <2>5, SkipCuts
    <3> QED
      BY <1>1, <2>1, <2>5, <3>1, RewritesSplits
  <2> QED
    BY <1>4, <2>2, <2>3, <2>4, <2>5 DEF OpItem
<1>5. ASSUME NEW mode \in {"replace", "next", "append"}, OpAdd(mode) PROVE SplitInv'
  <2>1. Rewrites(Add(group, made + 1, mode)) /\ made' = made + 1
    BY <1>5 DEF OpAdd
  <2>2. \E k : Cut(Add(group, made + 1, mode), k, made + 1, pending.item)
    BY <1>1, <1>2, <1>3, <1>5, AddCuts
  <2> QED
    BY <1>1, <2>1, <2>2, RewritesSplits
<1>6. CASE OpReset
  <2>1. Rewrites(Reset(group)) /\ made' = made
    BY <1>6 DEF OpReset
  <2>2. \E k : Cut(Reset(group), k, made, pending.item)
    BY <1>1, <1>2, ResetCuts
  <2> QED
    BY <1>1, <2>1, <2>2, RewritesSplits
<1> QED
  BY <1>4, <1>5, <1>6

(* One case per action. *)
LEMMA StepSplits ==
    ASSUME PlayoutAssumption, AirInv, SplitInv, [Next]_vars
    PROVE  SplitInv'
<1>1. GroupShape(group) /\ Sound(Now) /\ made \in Nat
  BY NowShape DEF AirInv, Sound, GroupSound, SplitInv
<1>2. ASSUME group' = group, pending' \in {pending, NoTake}, made' = made PROVE SplitInv'
  BY <1>2, SamePlanSplits DEF SamePlan
<1>3. ASSUME \A m \in Nat : Planned(Now, m) => Planned(Now', m), made' = made PROVE SplitInv'
  <2>1. Planned(Now', made)
    BY <1>3 DEF SplitInv
  <2> QED
    BY <1>1, <1>3, <2>1 DEF SplitInv, Planned
<1>4. CASE Pass
  BY <1>3, <1>4, PassKeeps DEF Pass, counters
<1>5. ASSUME NEW late \in BOOLEAN, PassStops(late) PROVE SplitInv'
  BY <1>2, <1>5 DEF PassStops, counters
<1>6. ASSUME NEW u \in Outputs, OpPlay(u) PROVE SplitInv'
  <2>1. PICK t : t = Play(Now, u) /\ PlayOk(Now, u) /\ Becomes(t)
    BY <1>6 DEF OpPlay
  <2>2. Sound(t) /\ PlanKept(Now, t)
    BY ONLY <1>1, <2>1, PlayKeeps, PlayoutAssumption
  <2>3. Now' = t
    BY ONLY <2>1, <2>2, NextNow DEF Sound
  <2>4. \A m \in Nat : Planned(Now, m) => Planned(t, m)
    BY ONLY <2>2, StillPlanned, PlayoutAssumption
  <2> QED
    BY <1>3, <1>6, <2>3, <2>4 DEF OpPlay
<1>7. ASSUME NEW u \in Outputs, NEW taken \in Effects, OpCue(u, taken) PROVE SplitInv'
  <2> SUFFICES ASSUME NEW g, g = StopAir(group, u), NEW s, s = [Now EXCEPT !.group = g],
                      NEW t, t = CueOutput(s, u, taken)
               PROVE  SplitInv'
    OBVIOUS
  <2>1. StateShape(s) /\ s.group = g /\ s.pending = pending /\ s.player = player
    BY DEF StateShape, Now
  <2>2. PlayersShape(player)
    BY <1>1, NowShape DEF Sound
  <2>3. t.group = g /\ t.pending = pending
    BY ONLY <2>1, <2>2, CueOne, t = CueOutput(s, u, taken)
  <2>4. group' = g /\ pending' = pending /\ made' = made
    BY <1>7, <2>3 DEF OpCue, Becomes
  <2>5. SamePlan(g, group)
    BY <1>1 DEF SamePlan, StopAir, GroupShape
  <2> QED
    BY <2>4, <2>5, SamePlanSplits
<1>8. CASE Poll
  BY <1>2, <1>8 DEF Poll, counters
<1>9. CASE MixerSeen
  BY <1>2, <1>9 DEF MixerSeen, engine, counters
<1>10. CASE Restart
  BY <1>2, <1>10 DEF Restart
<1>11. CASE OpResume
  BY <1>2, <1>11 DEF OpResume, engine
<1>12. CASE \/ \E it \in Items : OpItem(it)
            \/ \E mode \in {"replace", "next", "append"} : OpAdd(mode)
            \/ OpReset
  BY <1>12, ItemsSplit
<1>13. ASSUME NEW l, NEW s, Update(l, s) PROVE SplitInv'
  <2>1. PICK g : /\ Rewrites(g) /\ made' = made
                 /\ g = [group EXCEPT !.outputs = l, !.ooo = s.ooo,
                          !.air = IF group.air \in Range(l) THEN @ ELSE NoOutput,
                          !.live = @ /\ group.air \in Range(l), !.release = @ \cap Range(l)]
    BY <1>13 DEF Update
  <2>2. SamePlan(g, group)
    BY <1>1, <2>1 DEF SamePlan, GroupShape
  <2> QED
    BY <2>1, <2>2, SamePlanSplits DEF Rewrites, engine
<1>14. ASSUME NEW u \in Outputs, Starts(u) \/ PlayerDown(u) \/ PlayerUp(u) PROVE SplitInv'
  BY <1>2, <1>14 DEF Starts, PlayerDown, PlayerUp, engine, counters
<1>15. CASE UNCHANGED vars
  BY <1>2, <1>15 DEF vars, engine, counters
<1>16. CASE Next
  BY <1>4, <1>5, <1>6, <1>7, <1>8, <1>9, <1>10, <1>11, <1>12, <1>13, <1>14, <1>16 DEF Next
<1> QED
  BY <1>15, <1>16

(* Up to the cursor every item was played or is marked skipped, after it   *)
(* none was played: whichever item a take that is seen turns out to be,    *)
(* and whatever was moved, dropped or added since it was asked for         *)
(* (confirm_take, item_op, add_items, reset).                              *)
THEOREM PlaylistIsSplitHolds ==
    ASSUME PlayoutAssumption
    PROVE  Spec => []PlaylistIsSplit
<1>1. Init => AirInv /\ Counted /\ SplitInv
  <2> SUFFICES ASSUME Init PROVE AirInv /\ Counted /\ SplitInv
    OBVIOUS
  <2>1. AirInv /\ Counted
    BY StartsSound
  <2>2. /\ group.items = <<1, 2>> /\ group.played = {} /\ group.cursor = NoItem
        /\ pending.item = 0 /\ made = 2
    BY DEF Init, NoTake, PlayoutAssumption
  <2>3. <<1, 2>> \in Seq(1..2) /\ IsInjective(<<1, 2>>)
    BY DEF IsInjective
  <2>4. Cut(group, 0, made, pending.item)
    BY <2>2, <2>3 DEF Cut
  <2> QED
    BY <2>1, <2>2, <2>4, NowShape DEF SplitInv, Planned
<1>2. AirInv /\ Counted /\ SplitInv /\ [Next]_vars => AirInv' /\ Counted' /\ SplitInv'
  BY StepKeeps, StepSplits
<1>3. SplitInv => PlaylistIsSplit
  <2> SUFFICES ASSUME SplitInv, NEW k \in 1..Len(group.items)
               PROVE  IF k <= CursorAt(group) THEN group.items[k] \in group.played \cup group.skipped
                      ELSE group.items[k] \notin group.played
    BY DEF PlaylistIsSplit
  <2>1. PICK n : Cut(group, n, made, pending.item)
    BY NowShape DEF SplitInv, Planned
  <2>2. CursorAt(group) = n
    BY <2>1, CutIsAtCursor DEF SplitInv
  <2>3. /\ n \in 0..Len(group.items) /\ Len(group.items) \in Nat
        /\ \A j \in 1..n : group.items[j] \in group.played \cup group.skipped
        /\ \A j \in (n + 1)..Len(group.items) : group.items[j] \notin group.played
    BY <2>1 DEF Cut
  <2>4. k \in 1..n \/ (k \in (n + 1)..Len(group.items) /\ ~ (k <= n))
    BY <2>3
  <2> QED
    BY <2>2, <2>3, <2>4
<1> QED
  BY <1>1, <1>2, <1>3, PTL DEF Spec
=============================================================================
