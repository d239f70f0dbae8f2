-------------------------- MODULE PagedListsProofs --------------------------
(***************************************************************************)
(* Theorems about PagedLists for every set of rows, every way to stamp     *)
(* them, every page size and every number of changes: its invariants.      *)
(*                                                                         *)
(* The place of a row is the number of rows created after it.  A row that  *)
(* shares its stamp with no other is among the first n of a list exactly   *)
(* if its place is below n, whatever the statement does with the others;   *)
(* so a walk that has come to an offset missed the unseen rows whose place *)
(* is below it, and may repeat the seen ones whose place is not.  A row    *)
(* that leaves moves one row at most below the offset, and a row that      *)
(* enters moves one at most out of it.                                     *)
(***************************************************************************)
EXTENDS PagedLists, FiniteSetTheorems, TLAPS

-----------------------------------------------------------------------------
(* The places of rows *)

Before(st, S, r) == {x \in S : st[x] > st[r]}
Place(st, S, r) == Cardinality(Before(st, S, r))
Alone(st) == {r \in Row : \A other \in Row \ {r} : st[other] # st[r]}

LEMMA RowsCount ==
  ASSUME NEW S \in SUBSET Row PROVE IsFiniteSet(S) /\ Cardinality(S) \in Nat
<1>1. IsFiniteSet(S)
  BY PagedAssumption, FS_Subset
<1>2. QED
  BY <1>1, FS_CardinalityType

LEMMA Fewer ==
  ASSUME NEW B \in SUBSET Row, NEW A \in SUBSET B PROVE Cardinality(A) <= Cardinality(B)
BY RowsCount, FS_Subset

LEMMA OneMore ==
  ASSUME NEW A \in SUBSET Row, NEW B \in SUBSET Row, \A x, y \in B \ A : x = y
  PROVE  Cardinality(B) <= Cardinality(A) + 1
<1>1. CASE B \subseteq A
  <2>1. Cardinality(B) <= Cardinality(A) /\ Cardinality(A) \in Nat /\ Cardinality(B) \in Nat
    BY <1>1, Fewer, RowsCount
  <2>2. QED
    BY <2>1
<1>2. CASE ~(B \subseteq A)
  <2>1. PICK x \in B : x \notin A
    BY <1>2
  <2>2. B \in SUBSET (A \cup {x}) /\ A \cup {x} \in SUBSET Row
    BY <2>1
  <2>3. Cardinality(B) <= Cardinality(A \cup {x})
    BY <2>2, Fewer
  <2>4. Cardinality(A \cup {x}) = Cardinality(A) + 1
    BY <2>1, RowsCount, FS_AddElement
  <2>5. QED
    BY <2>3, <2>4
<1>3. QED
  BY <1>1, <1>2

LEMMA PlaceType ==
  ASSUME NEW st, NEW S \in SUBSET Row, NEW r
  PROVE  Before(st, S, r) \in SUBSET Row /\ Place(st, S, r) \in Nat
<1>1. Before(st, S, r) \in SUBSET Row
  BY DEF Before
<1>2. QED
  BY <1>1, RowsCount DEF Place

LEMMA PlaceGrows ==
  ASSUME NEW st, NEW S \in SUBSET Row, NEW T \in SUBSET S, NEW r
  PROVE  Place(st, T, r) <= Place(st, S, r)
<1>1. Before(st, T, r) \in SUBSET Before(st, S, r) /\ Before(st, S, r) \in SUBSET Row
  BY DEF Before
<1>2. QED
  BY <1>1, Fewer DEF Place

\* One more row is before r or not.
LEMMA PlaceStep ==
  ASSUME NEW st, NEW S \in SUBSET Row, NEW x \in Row, NEW r
  PROVE  /\ Place(st, S \cup {x}, r) <= Place(st, S, r) + 1
         /\ ~(st[x] > st[r]) => Place(st, S \cup {x}, r) = Place(st, S, r)
<1>1. \A y, z \in Before(st, S \cup {x}, r) \ Before(st, S, r) : y = z
  BY DEF Before
<1>2. Before(st, S, r) \in SUBSET Row /\ Before(st, S \cup {x}, r) \in SUBSET Row
  BY DEF Before
<1>3. Place(st, S \cup {x}, r) <= Place(st, S, r) + 1
  BY <1>1, <1>2, OneMore DEF Place
<1>4. ASSUME ~(st[x] > st[r]) PROVE Place(st, S \cup {x}, r) = Place(st, S, r)
  <2>1. Before(st, S \cup {x}, r) = Before(st, S, r)
    BY <1>4 DEF Before
  <2>2. QED
    BY <2>1 DEF Place
<1>5. QED
  BY <1>3, <1>4

\* Of two rows the later one stands before the other, and so does all that
\* stands before it.
LEMMA LaterIsBefore ==
  ASSUME NEW st \in [Row -> Nat], NEW S \in SUBSET Row, NEW r \in S, NEW s \in S,
         st[r] > st[s]
  PROVE  Place(st, S, r) < Place(st, S, s)
<1>1. r \in Before(st, S, s) /\ r \notin Before(st, S, r)
  BY DEF Before
<1>2. Before(st, S, r) \subseteq Before(st, S, s)
  <2>1. st[r] \in Nat /\ st[s] \in Nat /\ \A x \in S : st[x] \in Nat
    OBVIOUS
  <2>2. QED
    BY <2>1 DEF Before
<1>3. IsFiniteSet(Before(st, S, s))
  BY PlaceType, RowsCount
<1>4. /\ Place(st, S, r) <= Place(st, S, s) /\ Place(st, S, r) # Place(st, S, s)
      /\ Place(st, S, r) \in Nat /\ Place(st, S, s) \in Nat
  BY <1>1, <1>2, <1>3, FS_Subset, PlaceType DEF Place
<1>5. QED
  BY <1>4

LEMMA OnePlaceEach ==
  ASSUME NEW st \in [Row -> Nat], NEW S \in SUBSET Row, NEW r \in S, NEW s \in S,
         r \in Alone(st), Place(st, S, r) = Place(st, S, s)
  PROVE  r = s
<1> SUFFICES ASSUME r # s PROVE FALSE
  OBVIOUS
<1>1. st[r] \in Nat /\ st[s] \in Nat /\ st[r] # st[s]
  BY DEF Alone
<1>2. /\ st[r] > st[s] => Place(st, S, r) < Place(st, S, s)
      /\ st[s] > st[r] => Place(st, S, s) < Place(st, S, r)
  BY LaterIsBefore
<1>3. Place(st, S, r) \in Nat /\ Place(st, S, s) \in Nat
  BY PlaceType
<1>4. QED
  BY <1>1, <1>2, <1>3

\* Every row of a list has a place in it.
LEMMA PlaceInside ==
  ASSUME NEW st \in [Row -> Nat], NEW S \in SUBSET Row, NEW r \in S
  PROVE  Place(st, S, r) < Cardinality(S)
<1>1. r \notin Before(st, S, r) /\ Before(st, S, r) \in SUBSET S
  BY DEF Before
<1>2. /\ Place(st, S, r) <= Cardinality(S) /\ Place(st, S, r) # Cardinality(S)
      /\ Place(st, S, r) \in Nat /\ Cardinality(S) \in Nat
  BY <1>1, RowsCount, FS_Subset, PlaceType DEF Place
<1>3. QED
  BY <1>2

LEMMA LeastFacts ==
  ASSUME NEW a \in Int, NEW b \in Int
  PROVE  Least(a, b) \in {a, b} /\ Least(a, b) <= a /\ Least(a, b) <= b
BY DEF Least

\* A row that is alone is among the first n exactly if its place is below n.
LEMMA LeadingByPlace ==
  ASSUME stamp \in [Row -> Nat], NEW S \in SUBSET Row, NEW n \in Nat, NEW B \in Leading(S, n),
         NEW r \in S, r \in Alone(stamp)
  PROVE  r \in B <=> Place(stamp, S, r) < n
<1>1. /\ B \in SUBSET S /\ Cardinality(B) = Least(n, Cardinality(S))
      /\ \A x \in B, other \in S \ B : stamp[x] >= stamp[other]
  BY DEF Leading
<1>2. /\ Cardinality(S) \in Nat /\ Cardinality(B) \in Nat /\ Place(stamp, S, r) \in Nat
      /\ IsFiniteSet(S) /\ IsFiniteSet(B)
  BY <1>1, RowsCount, PlaceType
<1>3. Cardinality(B) \in {n, Cardinality(S)} /\ Cardinality(B) <= n
  BY <1>1, <1>2, LeastFacts
<1>4. \A x \in S : stamp[x] \in Nat
  OBVIOUS
<1>5. ASSUME r \in B PROVE Place(stamp, S, r) < n
  <2>1. Before(stamp, S, r) \in SUBSET B /\ r \in B /\ r \notin Before(stamp, S, r)
    BY <1>1, <1>4, <1>5 DEF Before
  <2>2. Place(stamp, S, r) <= Cardinality(B) /\ Place(stamp, S, r) # Cardinality(B)
    BY <1>2, <2>1, FS_Subset DEF Place
  <2>3. QED
    BY <1>2, <1>3, <2>2
<1>6. ASSUME r \notin B PROVE ~(Place(stamp, S, r) < n)
  <2>1. B \in SUBSET Before(stamp, S, r)
    <3> SUFFICES ASSUME NEW x \in B PROVE x \in Before(stamp, S, r)
      OBVIOUS
    <3>1. x \in S /\ stamp[x] >= stamp[r] /\ x # r
      BY <1>1, <1>6
    <3>2. stamp[x] # stamp[r] /\ stamp[x] \in Nat /\ stamp[r] \in Nat
      BY <1>4, <3>1 DEF Alone
    <3>3. QED
      BY <3>1, <3>2 DEF Before
  <2>2. Cardinality(B) <= Place(stamp, S, r)
    BY <2>1, PlaceType, Fewer DEF Place
  <2>3. Cardinality(B) # Cardinality(S)
    BY <1>1, <1>2, <1>6, FS_Subset
  <2>4. QED
    BY <1>2, <1>3, <2>2, <2>3
<1>7. QED
  BY <1>5, <1>6

-----------------------------------------------------------------------------
(* What a walk that came to offset o, and saw the rows of seen, missed and   *)
(* may repeat                                                                *)

Missed(st, S, E, seen, o) == {r \in (E \cap Alone(st)) \ seen : Place(st, S, r) < o}

Doubled(st, S, seen, rep, o) ==
  (rep \cap Alone(st)) \cup {r \in Alone(st) \cap seen \cap S : Place(st, S, r) >= o}

LEMMA SetsOfRows ==
  ASSUME NEW st, NEW S, NEW E \in SUBSET Row, NEW seen, NEW rep, NEW o
  PROVE  Missed(st, S, E, seen, o) \in SUBSET Row /\ Doubled(st, S, seen, rep, o) \in SUBSET Row
BY DEF Missed, Doubled, Alone

\* A row that enters pushes one row at most out of the first o, or stands there
\* itself.
LEMMA EnterMoves ==
  ASSUME NEW st \in [Row -> Nat], NEW S \in SUBSET Row, NEW E \in SUBSET S, NEW seen, NEW rep,
         NEW o \in Nat, NEW x \in Row, x \notin S
  PROVE  /\ Cardinality(Missed(st, S \cup {x}, E, seen, o))
              <= Cardinality(Missed(st, S, E, seen, o))
         /\ Cardinality(Doubled(st, S \cup {x}, seen, rep, o))
              <= Cardinality(Doubled(st, S, seen, rep, o)) + 1
<1> DEFINE T == S \cup {x}
<1>1. T \in SUBSET Row /\ S \in SUBSET T
  OBVIOUS
<1>2. \A r : /\ Place(st, S, r) \in Nat /\ Place(st, T, r) \in Nat
             /\ Place(st, S, r) <= Place(st, T, r) /\ Place(st, T, r) <= Place(st, S, r) + 1
             /\ ~(st[x] > st[r]) => Place(st, T, r) = Place(st, S, r)
  BY <1>1, PlaceType, PlaceGrows, PlaceStep
<1> HIDE DEF T
<1>3. Missed(st, T, E, seen, o) \in SUBSET Missed(st, S, E, seen, o)
  BY <1>2 DEF Missed
<1>4. ASSUME NEW y \in Doubled(st, T, seen, rep, o) \ Doubled(st, S, seen, rep, o)
      PROVE  /\ y \in T /\ y \in Alone(st) /\ Place(st, T, y) >= o
             /\ y \in S => Place(st, S, y) + 1 = o /\ Place(st, S, y) < o /\ st[x] > st[y]
  <2>1. /\ y \in T /\ y \in Alone(st) /\ Place(st, T, y) >= o
        /\ y \in S => ~(Place(st, S, y) >= o)
    BY <1>4 DEF Doubled
  <2>2. QED
    BY <1>2, <2>1
<1>5. ASSUME NEW y \in S, st[x] > st[y] PROVE Place(st, T, x) <= Place(st, S, y)
  <2>1. Before(st, T, x) \in SUBSET Before(st, S, y)
    <3>1. st[x] \in Nat /\ st[y] \in Nat /\ \A z \in T : st[z] \in Nat
      BY <1>1
    <3>2. QED
      BY <1>5, <3>1 DEF Before, T
  <2>2. QED
    BY <2>1, PlaceType, Fewer DEF Place
<1>6. ASSUME NEW y \in Doubled(st, T, seen, rep, o) \ Doubled(st, S, seen, rep, o),
             NEW z \in Doubled(st, T, seen, rep, o) \ Doubled(st, S, seen, rep, o)
      PROVE  y = z
  <2>1. CASE y \in S /\ z \in S
    <3>1. Place(st, S, y) = Place(st, S, z)
      BY <1>2, <1>4, <2>1
    <3>2. QED
      BY <1>4, <2>1, <3>1, OnePlaceEach
  <2>2. ASSUME y = x, z \in S PROVE FALSE
    BY <1>2, <1>4, <1>5, <2>2
  <2>3. ASSUME z = x, y \in S PROVE FALSE
    BY <1>2, <1>4, <1>5, <2>3
  <2>4. (y \in S \/ y = x) /\ (z \in S \/ z = x)
    BY <1>4 DEF T
  <2>5. QED
    BY <2>1, <2>2, <2>3, <2>4
<1>7. E \in SUBSET Row
  OBVIOUS
<1>8. QED
  BY <1>3, <1>6, <1>7, SetsOfRows, Fewer, OneMore DEF T

\* A row that leaves lets one row at most slip among the first o.
LEMMA ExitMoves ==
  ASSUME NEW st \in [Row -> Nat], NEW S \in SUBSET Row, NEW E \in SUBSET S, NEW seen, NEW rep,
         NEW o \in Nat, NEW x \in S
  PROVE  /\ Cardinality(Missed(st, S \ {x}, E \ {x}, seen, o))
              <= Cardinality(Missed(st, S, E, seen, o)) + 1
         /\ Cardinality(Doubled(st, S \ {x}, seen, rep, o))
              <= Cardinality(Doubled(st, S, seen, rep, o))
<1> DEFINE T == S \ {x}
           F == E \ {x}
<1>1. T \in SUBSET Row /\ T \in SUBSET S /\ S = T \cup {x} /\ x \in Row /\ F \in SUBSET E
  OBVIOUS
<1>2. \A r : /\ Place(st, S, r) \in Nat /\ Place(st, T, r) \in Nat
             /\ Place(st, T, r) <= Place(st, S, r) /\ Place(st, S, r) <= Place(st, T, r) + 1
  BY <1>1, PlaceType, PlaceGrows, PlaceStep
<1> HIDE DEF T, F
<1>3. Doubled(st, T, seen, rep, o) \in SUBSET Doubled(st, S, seen, rep, o)
  BY <1>1, <1>2 DEF Doubled
<1>4. ASSUME NEW y \in Missed(st, T, F, seen, o) \ Missed(st, S, E, seen, o)
      PROVE  y \in S /\ y \in Alone(st) /\ Place(st, S, y) = o
  <2>1. y \in E /\ y \in Alone(st) /\ Place(st, T, y) < o /\ ~(Place(st, S, y) < o)
    BY <1>1, <1>4 DEF Missed
  <2>2. QED
    BY <1>2, <2>1
<1>5. ASSUME NEW y \in Missed(st, T, F, seen, o) \ Missed(st, S, E, seen, o),
             NEW z \in Missed(st, T, F, seen, o) \ Missed(st, S, E, seen, o)
      PROVE  y = z
  BY <1>4, OnePlaceEach
<1>6. E \in SUBSET Row /\ F \in SUBSET Row
  BY <1>1
<1>7. QED
  BY <1>3, <1>5, <1>6, SetsOfRows, Fewer, OneMore DEF T, F

\* A page brings the walk from o to o + n: of the rows up to there it gets those
\* that stand behind the first o, and only those.
LEMMA PageMoves ==
  ASSUME stamp \in [Row -> Nat], NEW S \in SUBSET Row, NEW E \in SUBSET S, NEW seen, NEW rep,
         NEW o \in Nat, NEW n \in Nat, NEW skipped \in Leading(S, o),
         NEW taken \in Leading(S, o + n)
  PROVE  /\ Cardinality(Missed(stamp, S, E, seen \cup (taken \ skipped), o + n))
              <= Cardinality(Missed(stamp, S, E, seen, o))
         /\ Cardinality(Doubled(stamp, S, seen \cup (taken \ skipped),
                                rep \cup (seen \cap (taken \ skipped)), o + n))
              <= Cardinality(Doubled(stamp, S, seen, rep, o))
<1> DEFINE page == taken \ skipped
<1>1. ASSUME NEW r \in S, r \in Alone(stamp)
      PROVE  /\ r \in page <=> Place(stamp, S, r) < o + n /\ ~(Place(stamp, S, r) < o)
             /\ Place(stamp, S, r) \in Nat
  <2>1. /\ r \in skipped <=> Place(stamp, S, r) < o
        /\ r \in taken <=> Place(stamp, S, r) < o + n
    BY <1>1, LeadingByPlace
  <2>2. QED
    BY <2>1, PlaceType
<1>2. page \subseteq S
  BY DEF Leading
<1> HIDE DEF page
<1>3. Missed(stamp, S, E, seen \cup page, o + n) \in SUBSET Missed(stamp, S, E, seen, o)
  BY <1>1 DEF Missed
<1>4. Doubled(stamp, S, seen \cup page, rep \cup (seen \cap page), o + n)
        \in SUBSET Doubled(stamp, S, seen, rep, o)
  <2> SUFFICES ASSUME NEW r \in Doubled(stamp, S, seen \cup page, rep \cup (seen \cap page), o + n)
               PROVE  r \in Doubled(stamp, S, seen, rep, o)
    OBVIOUS
  <2>1. CASE r \in rep
    BY <2>1 DEF Doubled
  <2>2. CASE r \notin rep
    <3>1. /\ r \in Alone(stamp) /\ r \in S
          /\ \/ r \in seen /\ r \in page
             \/ (r \in seen \/ r \in page) /\ Place(stamp, S, r) >= o + n
      BY <1>2, <2>2 DEF Doubled
    <3>2. r \in seen /\ Place(stamp, S, r) >= o
      BY <1>1, <3>1
    <3>3. QED
      BY <3>1, <3>2 DEF Doubled
  <2>3. QED
    BY <2>1, <2>2
<1>5. E \in SUBSET Row
  OBVIOUS
<1>6. QED
  BY <1>3, <1>4, <1>5, SetsOfRows, Fewer DEF page

-----------------------------------------------------------------------------
(* The rows of a page *)

\* What AnswerAddsUp calls due, of a list of t rows.
DueRows(o, n, t) == IF t <= o THEN 0 ELSE Least(t - o, n)

Near(a, b, k) == a - b <= k /\ b - a <= k

LEMMA PageSize ==
  ASSUME NEW S \in SUBSET Row, NEW o \in Nat, NEW n \in Nat, NEW skipped \in Leading(S, o),
         NEW taken \in Leading(S, o + n), skipped \subseteq taken
  PROVE  /\ Cardinality(taken \ skipped) = DueRows(o, n, Cardinality(S))
         /\ Cardinality(taken \ skipped) <= n
<1>1. /\ taken \in SUBSET Row /\ skipped \in SUBSET Row /\ taken \cap skipped = skipped
      /\ Cardinality(taken) = Least(o + n, Cardinality(S))
      /\ Cardinality(skipped) = Least(o, Cardinality(S))
  BY DEF Leading
<1>2. Cardinality(taken \ skipped) = Cardinality(taken) - Cardinality(skipped)
  BY <1>1, RowsCount, FS_Difference
<1>3. Cardinality(S) \in Nat
  BY RowsCount
<1>4. QED
  BY <1>1, <1>2, <1>3 DEF Least, DueRows

\* One row more or less in the list makes one row more or less due.
LEMMA DueStep ==
  ASSUME NEW o \in Nat, NEW n \in Nat, NEW t \in Nat, NEW u \in Nat, Near(t, u, 1),
         NEW m \in Nat, NEW k \in Nat, Near(m, DueRows(o, n, t), k)
  PROVE  Near(m, DueRows(o, n, u), k + 1)
BY DEF Near, DueRows, Least

-----------------------------------------------------------------------------
(* The inductive invariant *)

Shapes ==
  /\ stamp \in Stampings /\ query \in Queries /\ matching \subseteq Row
  /\ walk \in Walk /\ past \in Past

\* Before the first page nothing has happened.
Untouched ==
  walk.pc \in {"idle", "validate", "rejected"} =>
    /\ walk.offset = 0 /\ past.seen = {} /\ past.repeated = {}
    /\ past.entered = 0 /\ past.left = 0

Asked ==
  /\ Open => walk.limit >= 0 /\ past.enduring \subseteq matching
  /\ walk.pc \notin {"count", "answer"} => walk.items = {}

Listed ==
  /\ Open => Cardinality(walk.items) <= walk.limit
  /\ At("count") => Near(Cardinality(walk.items),
                         DueRows(walk.offset, walk.limit, Cardinality(matching)), past.skew)
  /\ At("answer") => Near(Cardinality(walk.items),
                          DueRows(walk.offset, walk.limit, walk.total), past.skew)

\* A walk that came to offset o missed, and may repeat, no more than moved.
Kept(o, seen, rep) ==
  /\ Cardinality(Missed(stamp, matching, past.enduring, seen, o)) <= past.left
  /\ Cardinality(Doubled(stamp, matching, seen, rep, o)) <= past.entered

\* With the page in the client's hands, and without it as long as it may fail.
Reached ==
  /\ walk.pc \in {"list", "count"} => Kept(walk.offset, past.seen, past.repeated)
  /\ walk.pc \in {"count", "answer"} =>
       Kept(walk.offset + walk.limit, past.seen \cup walk.items,
            past.repeated \cup (past.seen \cap walk.items))

Ends ==
  /\ At("answer") /\ walk.offset + walk.limit >= walk.total =>
       Cardinality((past.enduring \cap Alone(stamp)) \ (past.seen \cup walk.items)) <= past.left
  /\ At("finished") =>
       /\ Cardinality((past.enduring \cap Alone(stamp)) \ past.seen) <= past.left
       /\ Cardinality(past.repeated \cap Alone(stamp)) <= past.entered

PageInv == Shapes /\ Untouched /\ Asked /\ Listed /\ Reached /\ Ends

-----------------------------------------------------------------------------
(* Every step keeps it *)

LEMMA Known ==
  ASSUME PageInv
  PROVE  /\ stamp \in [Row -> Nat] /\ matching \in SUBSET Row
         /\ walk.pc \in Pc /\ walk.limit \in Int /\ walk.offset \in Nat
         /\ walk.items \in SUBSET Row /\ walk.total \in Nat
         /\ past.seen \in SUBSET Row /\ past.repeated \in SUBSET Row
         /\ past.enduring \in SUBSET Row /\ past.entered \in Nat /\ past.left \in Nat
         /\ past.skew \in Nat
<1>1. stamp \in [Row -> Nat] /\ matching \in SUBSET Row
  BY PagedAssumption DEF PageInv, Shapes
<1>2. walk \in Walk /\ past \in Past
  BY DEF PageInv, Shapes
<1>3. Limits \cup {0} \subseteq Int
  BY PagedAssumption
<1>4. walk.limit \in Int
  BY <1>2, <1>3 DEF Walk
<1>5. QED
  BY <1>1, <1>2, <1>4 DEF Walk, Past

LEMMA InitEstablishes == Init => PageInv
<1> SUFFICES ASSUME Init PROVE PageInv
  OBVIOUS
<1>1. Shapes /\ Untouched /\ Asked
  BY DEF Init, Shapes, Walk, Past, Pc, Untouched, Asked, Open
<1>2. Listed /\ Reached /\ Ends
  BY DEF Init, Listed, Reached, Ends, Open, At
<1>3. QED
  BY <1>1, <1>2 DEF PageInv

LEMMA StartWalkKeeps ==
  ASSUME PageInv, NEW limit \in Limits, StartWalk(limit) PROVE PageInv'
<1> DEFINE w == [walk EXCEPT !.pc = "validate", !.limit = limit]
<1>1. walk' = w /\ UNCHANGED <<stamp, query, matching, past>> /\ walk \in Walk /\ At("idle")
  BY DEF StartWalk, PageInv, Shapes
<1>2. /\ w \in Walk /\ w.pc = "validate" /\ w.items = walk.items /\ w.offset = walk.offset
  BY <1>1 DEF Walk, Pc
<1> HIDE DEF w
<1>3. Shapes' /\ Untouched' /\ Asked'
  BY <1>1, <1>2 DEF PageInv, Shapes, Untouched, Asked, At, Open
<1>4. Listed' /\ Reached' /\ Ends'
  BY <1>1, <1>2 DEF Listed, Reached, Ends, Open, At
<1>5. QED
  BY <1>3, <1>4 DEF PageInv

LEMMA ValidateKeeps ==
  ASSUME PageInv, Validate PROVE PageInv'
<1>1. /\ walk.pc = "validate" /\ walk \in Walk /\ past \in Past /\ matching \in SUBSET Row
      /\ UNCHANGED <<stamp, query, matching>> /\ walk.offset = 0 /\ walk.items = {}
      /\ past.seen = {} /\ past.repeated = {} /\ past.entered = 0 /\ past.left = 0
  BY DEF Validate, PageInv, Shapes, At, Untouched, Asked
<1>2. CASE ValidPagination /\ GoesTo("list") /\ past' = [past EXCEPT !.enduring = matching]
  <2> DEFINE w == [walk EXCEPT !.pc = "list"]
             h == [past EXCEPT !.enduring = matching]
  <2>1. walk' = w /\ past' = h /\ walk.limit >= 0 /\ walk.limit \in Int
    BY <1>2, Known DEF GoesTo, ValidPagination
  <2>2. /\ w \in Walk /\ w.pc = "list" /\ w.items = walk.items /\ w.offset = walk.offset
        /\ w.limit = walk.limit
        /\ h \in Past /\ h.enduring = matching /\ h.seen = past.seen
        /\ h.repeated = past.repeated /\ h.entered = past.entered /\ h.left = past.left
    BY <1>1 DEF Walk, Past, Pc
  <2> HIDE DEF w, h
  <2>3. Shapes' /\ Untouched' /\ Asked'
    BY <1>1, <2>1, <2>2 DEF PageInv, Shapes, Untouched, Asked, Open
  <2>4. Listed'
    BY <1>1, <2>1, <2>2, FS_EmptySet DEF Listed, Open, At
  <2>5. Kept(walk.offset, past.seen, past.repeated)'
    <3>1. \A r : Place(stamp', matching', r) \in Nat
      BY <1>1, PlaceType
    <3>2. /\ Missed(stamp', matching', past'.enduring, past'.seen, walk'.offset) = {}
          /\ Doubled(stamp', matching', past'.seen, past'.repeated, walk'.offset) = {}
      BY <1>1, <2>1, <2>2, <3>1 DEF Missed, Doubled
    <3>3. Cardinality({}) = 0
      BY FS_EmptySet
    <3>4. past'.left = 0 /\ past'.entered = 0
      BY <1>1, <2>1, <2>2
    <3>5. /\ Cardinality(Missed(stamp', matching', past'.enduring, past'.seen, walk'.offset)) <= past'.left
          /\ Cardinality(Doubled(stamp', matching', past'.seen, past'.repeated, walk'.offset))
               <= past'.entered
      BY <3>2, <3>3, <3>4
    <3>6. QED
      BY <3>5 DEF Kept
  <2>6. Reached' /\ Ends'
    BY <2>1, <2>2, <2>5 DEF Reached, Ends, At
  <2>7. QED
    BY <2>3, <2>4, <2>6 DEF PageInv
<1>3. CASE GoesTo("rejected") /\ UNCHANGED past
  <2> DEFINE w == [walk EXCEPT !.pc = "rejected"]
  <2>1. walk' = w /\ past' = past
    BY <1>3 DEF GoesTo
  <2>2. /\ w \in Walk /\ w.pc = "rejected" /\ w.items = walk.items /\ w.offset = walk.offset
    BY <1>1 DEF Walk, Pc
  <2> HIDE DEF w
  <2>3. Shapes' /\ Untouched' /\ Asked'
    BY <1>1, <2>1, <2>2 DEF PageInv, Shapes, Untouched, Asked, Open
  <2>4. Listed' /\ Reached' /\ Ends'
    BY <2>1, <2>2 DEF Listed, Reached, Ends, Open, At
  <2>5. QED
    BY <2>3, <2>4 DEF PageInv
<1>4. QED
  BY <1>2, <1>3 DEF Validate

LEMMA ListPageKeeps ==
  ASSUME PageInv, ListPage PROVE PageInv'
<1>1. PICK skipped \in Leading(matching, walk.offset),
           taken \in Leading(matching, walk.offset + walk.limit) :
        /\ skipped \subseteq taken
        /\ walk' = [walk EXCEPT !.pc = "count", !.items = taken \ skipped]
  BY DEF ListPage
<1> DEFINE w == [walk EXCEPT !.pc = "count", !.items = taken \ skipped]
           h == [past EXCEPT !.skew = 0]
<1>2. /\ walk' = w /\ past' = h /\ UNCHANGED <<stamp, query, matching>>
      /\ walk.pc = "list" /\ walk \in Walk /\ past \in Past /\ matching \in SUBSET Row
  BY <1>1 DEF ListPage, At, PageInv, Shapes
<1>3. taken \ skipped \in SUBSET Row /\ taken \in SUBSET Row
  BY <1>2 DEF Leading
<1>4. /\ w \in Walk /\ w.pc = "count" /\ w.items = taken \ skipped
      /\ w.offset = walk.offset /\ w.limit = walk.limit
      /\ h \in Past /\ h.enduring = past.enduring /\ h.seen = past.seen
      /\ h.repeated = past.repeated /\ h.entered = past.entered /\ h.left = past.left
      /\ h.skew = 0
  BY <1>2, <1>3 DEF Walk, Past, Pc
<1> HIDE DEF w, h
<1>5. /\ walk.limit \in Nat /\ walk.offset \in Nat /\ past.enduring \in SUBSET matching
      /\ stamp \in [Row -> Nat]
  BY <1>2, Known DEF PageInv, Asked, Open
<1>6. Shapes' /\ Untouched' /\ Asked'
  BY <1>2, <1>4, <1>5 DEF PageInv, Shapes, Untouched, Asked, Open
<1>7. Listed'
  <2>1. /\ Cardinality(taken \ skipped) =
             DueRows(walk.offset, walk.limit, Cardinality(matching))
        /\ Cardinality(taken \ skipped) <= walk.limit
        /\ Cardinality(taken \ skipped) \in Nat
    BY <1>1, <1>2, <1>3, <1>5, PageSize, RowsCount
  <2>2. Near(Cardinality(taken \ skipped), Cardinality(taken \ skipped), 0)
    BY <2>1 DEF Near
  <2>3. QED
    BY <1>2, <1>4, <2>1, <2>2 DEF Listed, Open, At
<1>8. Reached'
  <2>1. /\ Cardinality(Missed(stamp, matching, past.enduring, past.seen, walk.offset)) <= past.left
        /\ Cardinality(Doubled(stamp, matching, past.seen, past.repeated, walk.offset))
             <= past.entered
    BY <1>2 DEF PageInv, Reached, Kept
  <2> DEFINE missed == Missed(stamp, matching, past.enduring,
                              past.seen \cup (taken \ skipped), walk.offset + walk.limit)
             doubled == Doubled(stamp, matching, past.seen \cup (taken \ skipped),
                                past.repeated \cup (past.seen \cap (taken \ skipped)),
                                walk.offset + walk.limit)
  <2>2. /\ Cardinality(missed)
             <= Cardinality(Missed(stamp, matching, past.enduring, past.seen, walk.offset))
        /\ Cardinality(doubled)
             <= Cardinality(Doubled(stamp, matching, past.seen, past.repeated, walk.offset))
    BY <1>2, <1>5, PageMoves
  <2>3. /\ Cardinality(missed) \in Nat /\ Cardinality(doubled) \in Nat
        /\ Cardinality(Missed(stamp, matching, past.enduring, past.seen, walk.offset)) \in Nat
        /\ Cardinality(Doubled(stamp, matching, past.seen, past.repeated, walk.offset)) \in Nat
    BY Known, SetsOfRows, RowsCount
  <2>4. Cardinality(missed) <= past.left /\ Cardinality(doubled) <= past.entered
    <3> HIDE DEF missed, doubled
    <3>1. QED
      BY <2>1, <2>2, <2>3, Known
  <2>5. Kept(walk.offset, past.seen, past.repeated)'
    BY <1>2, <1>4, <2>1 DEF Kept
  <2>6. Kept(walk.offset + walk.limit, past.seen \cup walk.items,
             past.repeated \cup (past.seen \cap walk.items))'
    BY <1>2, <1>4, <2>4 DEF Kept
  <2>7. QED
    BY <2>5, <2>6 DEF Reached
<1>9. Ends'
  BY <1>2, <1>4 DEF Ends, At
<1>10. QED
  BY <1>6, <1>7, <1>8, <1>9 DEF PageInv

LEMMA CountRowsKeeps ==
  ASSUME PageInv, CountRows PROVE PageInv'
<1> DEFINE w == [walk EXCEPT !.pc = "answer", !.total = Cardinality(matching)]
<1>1. /\ walk' = w /\ UNCHANGED <<stamp, query, matching, past>>
      /\ walk.pc = "count" /\ walk \in Walk /\ past \in Past /\ matching \in SUBSET Row
  BY DEF CountRows, At, PageInv, Shapes
<1>2. /\ w \in Walk /\ w.pc = "answer" /\ w.items = walk.items
      /\ w.offset = walk.offset /\ w.limit = walk.limit /\ w.total = Cardinality(matching)
  BY <1>1, RowsCount DEF Walk, Pc
<1> HIDE DEF w
<1>3. Shapes' /\ Untouched' /\ Asked' /\ Listed'
  BY <1>1, <1>2 DEF PageInv, Shapes, Untouched, Asked, Listed, Open, At
<1>4. Reached'
  BY <1>1, <1>2 DEF PageInv, Reached, Kept
<1>5. Ends'
  <2> DEFINE after == walk.offset + walk.limit
             seen == past.seen \cup walk.items
             unseen == (past.enduring \cap Alone(stamp)) \ seen
  <2>1. Cardinality(Missed(stamp, matching, past.enduring, seen, after)) <= past.left
    BY <1>1 DEF PageInv, Reached, Kept
  <2>2. ASSUME after >= Cardinality(matching) PROVE Cardinality(unseen) <= past.left
    <3>1. /\ past.enduring \subseteq matching /\ stamp \in [Row -> Nat]
          /\ Cardinality(matching) \in Nat /\ after \in Int
      BY <1>1, Known, RowsCount DEF PageInv, Asked, Open
    <3>2. ASSUME NEW r \in unseen PROVE Place(stamp, matching, r) < after
      <4>1. Place(stamp, matching, r) < Cardinality(matching)
        BY <1>1, <3>1, PlaceInside
      <4>2. Place(stamp, matching, r) \in Nat
        BY <1>1, PlaceType
      <4> HIDE DEF after
      <4>3. QED
        BY <2>2, <3>1, <4>1, <4>2
    <3>3. unseen = Missed(stamp, matching, past.enduring, seen, after)
      BY <3>2 DEF Missed
    <3>4. QED
      BY <2>1, <3>3
  <2>3. QED
    BY <1>1, <1>2, <2>2 DEF Ends, At
<1>6. QED
  BY <1>3, <1>4, <1>5 DEF PageInv

LEMMA PageFailsKeeps ==
  ASSUME PageInv, PageFails PROVE PageInv'
<1> DEFINE w == [walk EXCEPT !.pc = "list", !.items = {}]
           h == [past EXCEPT !.skew = 0]
<1>1. /\ walk' = w /\ past' = h /\ UNCHANGED <<stamp, query, matching>>
      /\ walk.pc \in {"list", "count"} /\ walk \in Walk /\ past \in Past
  BY DEF PageFails, At, PageInv, Shapes
<1>2. /\ w \in Walk /\ w.pc = "list" /\ w.items = {}
      /\ w.offset = walk.offset /\ w.limit = walk.limit
      /\ h \in Past /\ h.enduring = past.enduring /\ h.seen = past.seen
      /\ h.repeated = past.repeated /\ h.entered = past.entered /\ h.left = past.left
  BY <1>1 DEF Walk, Past, Pc
<1> HIDE DEF w, h
<1>3. Shapes' /\ Untouched' /\ Asked'
  BY <1>1, <1>2 DEF PageInv, Shapes, Untouched, Asked, Open
<1>4. Listed'
  BY <1>1, <1>2, FS_EmptySet DEF PageInv, Asked, Listed, Open, At
<1>5. Reached' /\ Ends'
  BY <1>1, <1>2 DEF PageInv, Reached, Kept, Ends, At
<1>6. QED
  BY <1>3, <1>4, <1>5 DEF PageInv

LEMMA TakeAnswerKeeps ==
  ASSUME PageInv, TakeAnswer PROVE PageInv'
<1> DEFINE pc == IF NextOffset >= walk.total THEN "finished" ELSE "list"
           w == [walk EXCEPT !.pc = pc, !.offset = NextOffset, !.items = {}, !.total = 0]
           h == [past EXCEPT !.seen = @ \cup walk.items,
                             !.repeated = @ \cup (past.seen \cap walk.items), !.skew = 0]
<1>1. /\ walk' = w /\ past' = h /\ UNCHANGED <<stamp, query, matching>>
      /\ walk.pc = "answer" /\ walk \in Walk /\ past \in Past
      /\ NextOffset = walk.offset + walk.limit
  BY DEF TakeAnswer, NextOffset, At, PageInv, Shapes
<1>2. NextOffset \in Nat /\ walk.limit \in Nat
  BY <1>1, Known DEF PageInv, Asked, Open
<1>3. /\ w \in Walk /\ w.pc = pc /\ w.items = {} /\ w.offset = NextOffset
      /\ w.limit = walk.limit
      /\ h \in Past /\ h.enduring = past.enduring /\ h.seen = past.seen \cup walk.items
      /\ h.repeated = past.repeated \cup (past.seen \cap walk.items)
      /\ h.entered = past.entered /\ h.left = past.left
  <2>1. walk.items \in SUBSET Row
    BY Known
  <2>2. /\ past.seen \cup walk.items \in SUBSET Row
        /\ past.repeated \cup (past.seen \cap walk.items) \in SUBSET Row
    BY <2>1, Known
  <2>3. pc \in Pc
    BY DEF Pc
  <2> HIDE DEF pc
  <2>4. QED
    BY <1>1, <1>2, <2>2, <2>3 DEF Walk, Past
<1>4. pc \in {"list", "finished"} /\ (pc = "finished" => NextOffset >= walk.total)
  OBVIOUS
<1> HIDE DEF w, h, pc
<1>5. Shapes' /\ Untouched' /\ Asked'
  BY <1>1, <1>2, <1>3, <1>4 DEF PageInv, Shapes, Untouched, Asked, Open
<1>6. Listed'
  BY <1>1, <1>2, <1>3, <1>4, FS_EmptySet DEF Listed, Open, At
<1>7. Reached'
  BY <1>1, <1>3, <1>4 DEF PageInv, Reached, Kept
<1>8. Ends'
  <2>1. /\ NextOffset >= walk.total =>
             Cardinality((past'.enduring \cap Alone(stamp')) \ past'.seen) <= past'.left
        /\ Cardinality(Doubled(stamp, matching, past'.seen, past'.repeated, NextOffset))
             <= past'.entered
    BY <1>1, <1>3 DEF PageInv, Ends, Reached, Kept, At
  <2>2. Cardinality(past'.repeated \cap Alone(stamp')) <= past'.entered
    <3> DEFINE doubled == Doubled(stamp, matching, past'.seen, past'.repeated, NextOffset)
               rep == past'.repeated \cap Alone(stamp')
    <3>1. rep \in SUBSET doubled /\ doubled \in SUBSET Row
      BY <1>1 DEF Doubled, Alone
    <3>2. Cardinality(rep) <= Cardinality(doubled)
      BY <3>1, Fewer
    <3>3. Cardinality(rep) \in Nat /\ Cardinality(doubled) \in Nat /\ past'.entered \in Nat
      BY <1>1, <1>3, <3>1, RowsCount, Known
    <3>4. Cardinality(rep) <= past'.entered
      <4>1. Cardinality(doubled) <= past'.entered
        BY <2>1
      <4> HIDE DEF rep, doubled
      <4>2. QED
        BY <3>2, <3>3, <4>1
    <3>5. QED
      BY <3>4
  <2>3. QED
    BY <1>1, <1>3, <1>4, <2>1, <2>2 DEF Ends, At
<1>9. QED
  BY <1>5, <1>6, <1>7, <1>8 DEF PageInv

\* What a change of the list does to what is due of it, where the page is out
\* and the count is not.
LEMMA ChangeIsSkew ==
  ASSUME PageInv, Open, NEW M \in SUBSET Row, UNCHANGED walk, matching' = M,
         Near(Cardinality(matching), Cardinality(M), 1), past'.skew = SkewAfter
  PROVE  Listed'
<1>1. CASE At("count")
  <2>1. /\ walk.offset \in Nat /\ walk.limit \in Nat /\ past.skew \in Nat
        /\ Cardinality(walk.items) \in Nat
        /\ Cardinality(matching) \in Nat /\ Cardinality(M) \in Nat
    BY Known, RowsCount DEF PageInv, Asked
  <2>2. Near(Cardinality(walk.items),
             DueRows(walk.offset, walk.limit, Cardinality(matching)), past.skew)
    BY <1>1 DEF PageInv, Listed
  <2>3. Near(Cardinality(walk.items),
             DueRows(walk.offset, walk.limit, Cardinality(M)), past.skew + 1)
    BY <2>1, <2>2, DueStep
  <2>4. past'.skew = past.skew + 1
    BY <1>1 DEF SkewAfter
  <2>5. QED
    BY <1>1, <2>3, <2>4 DEF PageInv, Listed, Open, At
<1>2. CASE ~At("count")
  BY <1>2 DEF PageInv, Listed, SkewAfter, Open, At
<1>3. QED
  BY <1>1, <1>2

LEMMA EnterKeeps ==
  ASSUME PageInv, NEW x \in Row, Enter(x) PROVE PageInv'
<1> DEFINE h == [past EXCEPT !.entered = @ + 1, !.skew = SkewAfter]
           M == matching \cup {x}
<1>1. /\ past' = h /\ matching' = M /\ UNCHANGED <<stamp, query, walk>> /\ Open
      /\ past \in Past /\ matching \in SUBSET Row /\ M \in SUBSET Row /\ x \notin matching
  BY DEF Enter, Changeable, PageInv, Shapes
<1>2. /\ SkewAfter \in Nat /\ past.entered \in Nat /\ past.left \in Nat
      /\ past.entered + 1 \in Nat /\ past.left + 1 \in Nat
  BY Known DEF SkewAfter
<1>3. /\ h \in Past /\ h.enduring = past.enduring /\ h.seen = past.seen
      /\ h.repeated = past.repeated /\ h.entered = past.entered + 1 /\ h.left = past.left
      /\ h.skew = SkewAfter
  BY <1>1, <1>2 DEF Past
<1> HIDE DEF h
<1>4. Shapes' /\ Untouched' /\ Asked'
  BY <1>1, <1>3 DEF PageInv, Shapes, Untouched, Asked, Open
<1>5. Listed'
  <2>1. Cardinality(M) = Cardinality(matching) + 1 /\ Cardinality(matching) \in Nat
    BY <1>1, RowsCount, FS_AddElement
  <2>2. Near(Cardinality(matching), Cardinality(M), 1)
    BY <2>1 DEF Near
  <2>3. QED
    BY <1>1, <1>3, <2>2, ChangeIsSkew
<1>6. ASSUME NEW o \in Nat, NEW seen, NEW rep,
             Cardinality(Missed(stamp, matching, past.enduring, seen, o)) <= past.left,
             Cardinality(Doubled(stamp, matching, seen, rep, o)) <= past.entered
      PROVE  /\ Cardinality(Missed(stamp, M, past.enduring, seen, o)) <= past.left
             /\ Cardinality(Doubled(stamp, M, seen, rep, o)) <= past.entered + 1
  <2>1. stamp \in [Row -> Nat] /\ past.enduring \in SUBSET matching
    BY <1>1, Known DEF PageInv, Asked
  <2>2. /\ Cardinality(Missed(stamp, M, past.enduring, seen, o))
             <= Cardinality(Missed(stamp, matching, past.enduring, seen, o))
        /\ Cardinality(Doubled(stamp, M, seen, rep, o))
             <= Cardinality(Doubled(stamp, matching, seen, rep, o)) + 1
    BY <1>1, <2>1, EnterMoves
  <2>3. /\ Cardinality(Missed(stamp, M, past.enduring, seen, o)) \in Nat
        /\ Cardinality(Missed(stamp, matching, past.enduring, seen, o)) \in Nat
        /\ Cardinality(Doubled(stamp, M, seen, rep, o)) \in Nat
        /\ Cardinality(Doubled(stamp, matching, seen, rep, o)) \in Nat
    BY Known, SetsOfRows, RowsCount
  <2> HIDE DEF M
  <2>4. QED
    BY <1>2, <1>6, <2>2, <2>3
<1> HIDE DEF M
<1>7. walk.offset \in Nat /\ walk.offset + walk.limit \in Nat
  BY <1>1, Known DEF PageInv, Asked
<1>8. Reached'
  <2>1. walk.pc \in {"list", "count"} => Kept(walk.offset, past.seen, past.repeated)'
    BY <1>1, <1>3, <1>6, <1>7 DEF PageInv, Reached, Kept
  <2>2. walk.pc \in {"count", "answer"} =>
          Kept(walk.offset + walk.limit, past.seen \cup walk.items,
               past.repeated \cup (past.seen \cap walk.items))'
    BY <1>1, <1>3, <1>6, <1>7 DEF PageInv, Reached, Kept
  <2>3. QED
    BY <1>1, <2>1, <2>2 DEF Reached
<1>9. Ends'
  BY <1>1, <1>3 DEF PageInv, Ends, At, Open
<1>10. QED
  BY <1>4, <1>5, <1>8, <1>9 DEF PageInv

LEMMA ExitKeeps ==
  ASSUME PageInv, NEW x \in Row, Exit(x) PROVE PageInv'
<1> DEFINE h == [past EXCEPT !.left = @ + 1, !.skew = SkewAfter, !.enduring = @ \ {x}]
           M == matching \ {x}
<1>1. /\ past' = h /\ matching' = M /\ UNCHANGED <<stamp, query, walk>> /\ Open
      /\ past \in Past /\ matching \in SUBSET Row /\ M \in SUBSET Row /\ x \in matching
  BY DEF Exit, Changeable, PageInv, Shapes
<1>2. /\ SkewAfter \in Nat /\ past.entered \in Nat /\ past.left \in Nat
      /\ past.entered + 1 \in Nat /\ past.left + 1 \in Nat
  BY Known DEF SkewAfter
<1>3. /\ h \in Past /\ h.enduring = past.enduring \ {x} /\ h.seen = past.seen
      /\ h.repeated = past.repeated /\ h.entered = past.entered /\ h.left = past.left + 1
      /\ h.skew = SkewAfter
  BY <1>1, <1>2 DEF Past
<1> HIDE DEF h
<1>4. Shapes' /\ Untouched' /\ Asked'
  BY <1>1, <1>3 DEF PageInv, Shapes, Untouched, Asked, Open
<1>5. Listed'
  <2>1. Cardinality(M) = Cardinality(matching) - 1 /\ Cardinality(matching) \in Nat
    BY <1>1, RowsCount, FS_RemoveElement
  <2>2. Near(Cardinality(matching), Cardinality(M), 1)
    BY <2>1 DEF Near
  <2>3. QED
    BY <1>1, <1>3, <2>2, ChangeIsSkew
<1>6. ASSUME NEW o \in Nat, NEW seen, NEW rep,
             Cardinality(Missed(stamp, matching, past.enduring, seen, o)) <= past.left,
             Cardinality(Doubled(stamp, matching, seen, rep, o)) <= past.entered
      PROVE  /\ Cardinality(Missed(stamp, M, past.enduring \ {x}, seen, o)) <= past.left + 1
             /\ Cardinality(Doubled(stamp, M, seen, rep, o)) <= past.entered
  <2>1. /\ stamp \in [Row -> Nat] /\ past.enduring \in SUBSET matching
        /\ past.enduring \ {x} \in SUBSET Row
    BY <1>1, Known DEF PageInv, Asked
  <2>2. /\ Cardinality(Missed(stamp, M, past.enduring \ {x}, seen, o))
             <= Cardinality(Missed(stamp, matching, past.enduring, seen, o)) + 1
        /\ Cardinality(Doubled(stamp, M, seen, rep, o))
             <= Cardinality(Doubled(stamp, matching, seen, rep, o))
    BY <1>1, <2>1, ExitMoves
  <2>3. /\ Cardinality(Missed(stamp, M, past.enduring \ {x}, seen, o)) \in Nat
        /\ Cardinality(Missed(stamp, matching, past.enduring, seen, o)) \in Nat
        /\ Cardinality(Doubled(stamp, M, seen, rep, o)) \in Nat
        /\ Cardinality(Doubled(stamp, matching, seen, rep, o)) \in Nat
    BY <2>1, Known, SetsOfRows, RowsCount
  <2> HIDE DEF M
  <2>4. QED
    BY <1>2, <1>6, <2>2, <2>3
<1> HIDE DEF M
<1>7. walk.offset \in Nat /\ walk.offset + walk.limit \in Nat
  BY <1>1, Known DEF PageInv, Asked
<1>8. Reached'
  <2>1. walk.pc \in {"list", "count"} => Kept(walk.offset, past.seen, past.repeated)'
    BY <1>1, <1>3, <1>6, <1>7 DEF PageInv, Reached, Kept
  <2>2. walk.pc \in {"count", "answer"} =>
          Kept(walk.offset + walk.limit, past.seen \cup walk.items,
               past.repeated \cup (past.seen \cap walk.items))'
    BY <1>1, <1>3, <1>6, <1>7 DEF PageInv, Reached, Kept
  <2>3. QED
    BY <1>1, <2>1, <2>2 DEF Reached
<1>9. Ends'
  <2> DEFINE seen == past.seen \cup walk.items
             unseen == (past.enduring \cap Alone(stamp)) \ seen
             later == ((past.enduring \ {x}) \cap Alone(stamp)) \ seen
  <2>1. ASSUME Cardinality(unseen) <= past.left PROVE Cardinality(later) <= past.left + 1
    <3>1. later \in SUBSET unseen /\ unseen \in SUBSET Row /\ later \in SUBSET Row
      BY DEF Alone
    <3>2. /\ Cardinality(later) <= Cardinality(unseen)
          /\ Cardinality(later) \in Nat /\ Cardinality(unseen) \in Nat
      BY <3>1, Fewer, RowsCount
    <3> HIDE DEF later, unseen
    <3>3. QED
      BY <1>2, <2>1, <3>2
  <2>2. QED
    BY <1>1, <1>3, <2>1 DEF PageInv, Ends, At, Open
<1>10. QED
  BY <1>4, <1>5, <1>8, <1>9 DEF PageInv

LEMMA NextPreserves == PageInv /\ [Next]_vars => PageInv'
<1> SUFFICES ASSUME PageInv, [Next]_vars PROVE PageInv'
  OBVIOUS
<1>1. CASE UNCHANGED vars
  BY <1>1 DEF vars, PageInv, Shapes, Untouched, Asked, Listed, Reached, Kept, Ends, Open, At
<1>2. CASE Next
  BY <1>2, StartWalkKeeps, ValidateKeeps, ListPageKeeps, CountRowsKeeps, PageFailsKeeps,
     TakeAnswerKeeps, EnterKeeps, ExitKeeps DEF Next
<1>3. QED
  BY <1>1, <1>2

LEMMA Invariance == Spec => []PageInv
BY InitEstablishes, NextPreserves, PTL DEF Spec

-----------------------------------------------------------------------------
(* The theorems *)

\* Walks and histories have the shape the code gives them, and a request that
\* passed _validate_pagination never holds more rows than its limit.
THEOREM TypeCorrect == Spec => []TypeOK
<1>1. PageInv => TypeOK
  BY DEF PageInv, Shapes, Listed, TypeOK
<1>2. QED
  BY <1>1, Invariance, PTL

\* The page and the total of an answer, read by two statements, contradict each
\* other by no more rows than changed between the two.
THEOREM AnswersAddUp == Spec => []AnswerAddsUp
<1>1. PageInv => AnswerAddsUp
  <2> SUFFICES ASSUME PageInv, At("answer") PROVE AnswerAddsUp
    BY DEF AnswerAddsUp
  <2>1. Near(Cardinality(walk.items),
             DueRows(walk.offset, walk.limit, walk.total), past.skew)
    BY DEF PageInv, Listed
  <2>2. QED
    BY <2>1 DEF AnswerAddsUp, Near, DueRows
<1>2. QED
  BY <1>1, Invariance, PTL

LEMMA DistinctIsAlone == Distinct = Alone(stamp)
BY DEF Distinct, Alone

\* A walk to the end misses no more of the rows that matched all the time than
\* rows left the list meanwhile, rows created at the same instant excepted.
THEOREM NoMoreMissed == Spec => []MissedWereShifted
<1>1. PageInv => MissedWereShifted
  BY DistinctIsAlone DEF PageInv, Ends, MissedWereShifted
<1>2. QED
  BY <1>1, Invariance, PTL

\* Likewise no more rows are handed out twice than rows came in meanwhile.
THEOREM NoMoreRepeated == Spec => []RepeatedWerePushed
<1>1. PageInv => RepeatedWerePushed
  <2> SUFFICES ASSUME PageInv PROVE Cardinality(past.repeated \cap Alone(stamp)) <= past.entered
    BY DistinctIsAlone DEF RepeatedWerePushed
  <2>1. CASE At("finished")
    BY <2>1 DEF PageInv, Ends
  <2>2. CASE walk.pc \in {"idle", "validate", "rejected"}
    <3>1. past.repeated \cap Alone(stamp) = {} /\ past.entered = 0
      BY <2>2 DEF PageInv, Untouched
    <3>2. QED
      BY <3>1, FS_EmptySet
  <2>3. ASSUME NEW o, NEW seen, NEW rep, past.repeated \subseteq rep,
               Cardinality(Doubled(stamp, matching, seen, rep, o)) <= past.entered
        PROVE  Cardinality(past.repeated \cap Alone(stamp)) <= past.entered
    <3> DEFINE doubled == Doubled(stamp, matching, seen, rep, o)
               twice == past.repeated \cap Alone(stamp)
    <3>1. twice \in SUBSET doubled /\ doubled \in SUBSET Row /\ twice \in SUBSET Row
      BY <2>3 DEF Doubled, Alone
    <3>2. /\ Cardinality(twice) <= Cardinality(doubled) /\ past.entered \in Nat
          /\ Cardinality(twice) \in Nat /\ Cardinality(doubled) \in Nat
      BY <3>1, Fewer, RowsCount, Known
    <3>3. Cardinality(doubled) <= past.entered
      BY <2>3
    <3>4. Cardinality(twice) <= past.entered
      <4> HIDE DEF doubled, twice
      <4>1. QED
        BY <3>2, <3>3
    <3>5. QED
      BY <3>4
  <2>4. CASE walk.pc \in {"list", "count"}
    <3>1. Cardinality(Doubled(stamp, matching, past.seen, past.repeated, walk.offset))
            <= past.entered
      BY <2>4 DEF PageInv, Reached, Kept
    <3>2. QED
      BY <2>3, <3>1
  <2>5. CASE At("answer")
    <3>1. Cardinality(Doubled(stamp, matching, past.seen \cup walk.items,
                              past.repeated \cup (past.seen \cap walk.items),
                              walk.offset + walk.limit)) <= past.entered
      BY <2>5 DEF PageInv, Reached, Kept, At
    <3>2. QED
      BY <2>3, <3>1
  <2>6. QED
    BY <2>1, <2>2, <2>4, <2>5, Known DEF Pc, At
<1>2. QED
  BY <1>1, Invariance, PTL
=============================================================================
