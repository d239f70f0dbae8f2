----------------------------- MODULE PagedLists -----------------------------
(***************************************************************************)
(* The lists the API pages through: list_profiles, get_segment_members and *)
(* list_export_jobs.  Each answer takes two statements, the page and the   *)
(* count, and at READ COMMITTED each sees the rows of its own moment.  A   *)
(* client walks through a list by asking for one page after the other.     *)
(*                                                                         *)
(* Rows are ordered by the time they were created at, the latest first.    *)
(* That time never changes, but two rows may share it, and then every      *)
(* statement may order them in its own way.                                *)
(*                                                                         *)
(* An operator whose name starts with Faulty is the one below it with a    *)
(* mistake: a property is shown to notice the mistake when it is put in.   *)
(***************************************************************************)
EXTENDS Integers, FiniteSets

CONSTANTS
  Row,         \* profiles or jobs
  Queries,     \* the lists a client may walk through
  Stampings,   \* ways the rows may be stamped: created_at or requested_at
  Limits,      \* page sizes a client asks for, negative ones included
  MaxChanges   \* bound: rows that come and go during a walk

\* What is listed and which filter selects it.
Query ==
  [of: {"profiles"}, by: {"nothing", "identifier", "segment"}]
    \cup [of: {"members"}, by: {"segment"}]
    \cup [of: {"jobs"}, by: {"nothing", "segment", "status"}]

\* Rows may stop to pass the filter.  The segment of a job never changes and
\* links are never removed, but members come and go, and so do statuses.
Fleeting(q) == q.by = "status" \/ (q.by = "segment" /\ q.of # "jobs")

ASSUME PagedAssumption ==
  /\ Queries \subseteq Query
  /\ IsFiniteSet(Row)
  /\ Stampings \subseteq [Row -> Nat]
  /\ Limits \subseteq Int \ {0}
  /\ MaxChanges \in Nat

VARIABLES
  stamp,      \* created_at of each row
  query,      \* the list the client walks through
  matching,   \* the rows of the table that pass the filter
  walk,       \* the client's walk and its present request
  past        \* history of the walk, see Past

vars == <<stamp, query, matching, walk, past>>

Pc == {"idle", "validate", "list", "count", "answer", "finished", "rejected"}
Walk == [pc: Pc, limit: Limits \cup {0}, offset: Nat, items: SUBSET Row, total: Nat]

\* seen, repeated: rows that were on one page, and on several.  enduring: rows
\* that matched all the time.  skew: changes since the page was listed.
Past ==
  [seen: SUBSET Row, repeated: SUBSET Row, enduring: SUBSET Row,
   entered: Nat, left: Nat, skew: Nat]

At(pc) == walk.pc = pc
Open == walk.pc \in {"list", "count", "answer"}
GoesTo(pc) == walk' = [walk EXCEPT !.pc = pc]

Least(a, b) == IF a < b THEN a ELSE b

-----------------------------------------------------------------------------
(* The requests *)

StartWalk(limit) ==
  /\ At("idle")
  /\ walk' = [walk EXCEPT !.pc = "validate", !.limit = limit]
  /\ UNCHANGED <<stamp, query, matching, past>>

\* Nothing is validated.
FaultyValidate ==
  /\ At("validate")
  /\ GoesTo("list")
  /\ past' = [past EXCEPT !.enduring = matching]
  /\ UNCHANGED <<stamp, query, matching>>

ValidPagination == walk.limit >= 0 /\ walk.offset >= 0

\* The pagination is validated; a segment or a status may be unknown.
Validate ==
  /\ At("validate")
  /\ \/ /\ ValidPagination
        /\ GoesTo("list") /\ past' = [past EXCEPT !.enduring = matching]
     \/ /\ ~ValidPagination \/ query.by \in {"segment", "status"}
        /\ GoesTo("rejected") /\ UNCHANGED past
  /\ UNCHANGED <<stamp, query, matching>>

\* The table is read in any order.
FaultyLeading(S, n) == {B \in SUBSET S : Cardinality(B) = Least(n, Cardinality(S))}

\* What the first n rows of S may be: rows no row left out is later than.
Leading(S, n) ==
  {B \in SUBSET S :
     /\ Cardinality(B) = Least(n, Cardinality(S))
     /\ \A r \in B, other \in S \ B : stamp[r] >= stamp[other]}

\* The first row is taken to have offset one.
FaultyListPage ==
  /\ At("list")
  /\ \E skipped \in Leading(matching, IF walk.offset = 0 THEN 0 ELSE walk.offset - 1),
        taken \in Leading(matching, walk.offset + walk.limit) :
       /\ skipped \subseteq taken
       /\ walk' = [walk EXCEPT !.pc = "count", !.items = taken \ skipped]
  /\ past' = [past EXCEPT !.skew = 0]
  /\ UNCHANGED <<stamp, query, matching>>

\* ORDER BY created_at DESC LIMIT limit OFFSET offset.
ListPage ==
  /\ At("list")
  /\ \E skipped \in Leading(matching, walk.offset),
        taken \in Leading(matching, walk.offset + walk.limit) :
       /\ skipped \subseteq taken
       /\ walk' = [walk EXCEPT !.pc = "count", !.items = taken \ skipped]
  /\ past' = [past EXCEPT !.skew = 0]
  /\ UNCHANGED <<stamp, query, matching>>

\* The count goes without the filter.
FaultyCountRows ==
  /\ At("count")
  /\ walk' = [walk EXCEPT !.pc = "answer", !.total = Cardinality(Row)]
  /\ UNCHANGED <<stamp, query, matching, past>>

\* The count, with the same filter, in a statement of its own.
CountRows ==
  /\ At("count")
  /\ walk' = [walk EXCEPT !.pc = "answer", !.total = Cardinality(matching)]
  /\ UNCHANGED <<stamp, query, matching, past>>

\* A statement raises; the client asks for the same page again.
PageFails ==
  /\ At("list") \/ At("count")
  /\ walk' = [walk EXCEPT !.pc = "list", !.items = {}]
  /\ past' = [past EXCEPT !.skew = 0]
  /\ UNCHANGED <<stamp, query, matching>>

NextOffset == walk.offset + walk.limit

\* The client takes the page and goes on until total rows are behind it.
TakeAnswer ==
  /\ At("answer")
  /\ walk' = [walk EXCEPT !.pc = IF NextOffset >= walk.total THEN "finished" ELSE "list",
                          !.offset = NextOffset, !.items = {}, !.total = 0]
  /\ past' = [past EXCEPT !.seen = @ \cup walk.items,
                          !.repeated = @ \cup (past.seen \cap walk.items),
                          !.skew = 0]
  /\ UNCHANGED <<stamp, query, matching>>

-----------------------------------------------------------------------------
(* Meanwhile events are processed and exports saved *)

Changeable == Open /\ past.entered + past.left < MaxChanges

SkewAfter == IF At("count") THEN past.skew + 1 ELSE past.skew

\* A row is inserted, or begins to match; its stamp may be older than others'.
Enter(r) ==
  /\ Changeable /\ r \notin matching
  /\ matching' = matching \cup {r}
  /\ past' = [past EXCEPT !.entered = @ + 1, !.skew = SkewAfter]
  /\ UNCHANGED <<stamp, query, walk>>

\* replace_profile_memberships or save_job makes a row fail the filter; no row
\* is ever deleted from a list without such a filter.
Exit(r) ==
  /\ Changeable /\ Fleeting(query) /\ r \in matching
  /\ matching' = matching \ {r}
  /\ past' = [past EXCEPT !.left = @ + 1, !.skew = SkewAfter, !.enduring = @ \ {r}]
  /\ UNCHANGED <<stamp, query, walk>>

-----------------------------------------------------------------------------
Init ==
  /\ stamp \in Stampings
  /\ query \in Queries
  /\ matching \in SUBSET Row
  /\ walk = [pc |-> "idle", limit |-> 0, offset |-> 0, items |-> {}, total |-> 0]
  /\ past = [seen |-> {}, repeated |-> {}, enduring |-> {}, entered |-> 0, left |-> 0,
             skew |-> 0]

Next ==
  \/ \E limit \in Limits : StartWalk(limit)
  \/ Validate
  \/ ListPage
  \/ CountRows
  \/ PageFails
  \/ TakeAnswer
  \/ \E r \in Row : Enter(r) \/ Exit(r)

Spec == Init /\ [][Next]_vars

-----------------------------------------------------------------------------
\* Rows whose place among the others no statement is free to choose.
Distinct == {r \in Row : \A other \in Row \ {r} : stamp[other] # stamp[r]}

\* Walks and histories have the shape the code gives them, and a request that
\* passed the validation never holds more rows than it asked for.
TypeOK ==
  /\ stamp \in Stampings /\ query \in Queries /\ matching \subseteq Row
  /\ walk \in Walk /\ past \in Past
  /\ Open => Cardinality(walk.items) <= walk.limit

\* The page and the total of an answer may contradict each other only by as
\* many rows as changed between the two statements: without a change the page
\* is full, or it ends where the total says.
AnswerAddsUp ==
  At("answer") =>
    LET n == Cardinality(walk.items)
        due == IF walk.total <= walk.offset THEN 0
               ELSE Least(walk.total - walk.offset, walk.limit)
    IN n - due <= past.skew /\ due - n <= past.skew

\* A walk to the end misses no more of the rows that matched all the time than
\* rows left the list meanwhile, one for one: a list that loses no rows is read
\* completely.  Rows created at the same instant are excepted, since the order
\* has no second key.
MissedWereShifted ==
  At("finished") =>
    Cardinality((past.enduring \cap Distinct) \ past.seen) <= past.left

\* Likewise a row is handed out twice only for a row that came in meanwhile.
RepeatedWerePushed == Cardinality(past.repeated \cap Distinct) <= past.entered
=============================================================================
