-------------------------- MODULE CursorPagination --------------------------
(***************************************************************************)
(* cursorPagination: one page of a table in the order of created_at, then  *)
(* id, and the cursor for the next.  created_at has microseconds in the     *)
(* database; the cursor carries the JavaScript Date of the page's last row, *)
(* which has milliseconds.                                                  *)
(***************************************************************************)
EXTENDS Integers, FiniteSets

CONSTANTS Limit,      \* rows per page
          TicksPerMs  \* ticks of the database's clock in a millisecond

ASSUME PaginationAssumption == Limit \in Nat \ {0} /\ TicksPerMs \in Nat \ {0}

Directions == {"ASC", "DESC"}

(* No cursor: the first page; also what decodeCursor makes of a bad one.     *)
NoCursor == [at |-> -1, id |-> 0]

SeededMillisecond(t) == t - (t % TicksPerMs) + TicksPerMs

Millisecond(t) == t - (t % TicksPerMs)

(* ORDER BY created_at, id: created gives each row's tick. *)
Before(r, s, dir, created) ==
    LET earlier == created[r] < created[s] \/ (created[r] = created[s] /\ r < s)
    IN  IF dir = "ASC" THEN earlier ELSE r # s /\ ~earlier

(* The WHERE the cursor adds. *)
SeededPast(r, cursor, dir, created) ==
    \/ cursor = NoCursor
    \/ IF dir = "ASC" THEN created[r] > cursor.at ELSE created[r] < cursor.at

Past(r, cursor, dir, created) ==
    \/ cursor = NoCursor
    \/ IF dir = "ASC" THEN created[r] > cursor.at ELSE created[r] < cursor.at
    \/ created[r] = cursor.at /\ (IF dir = "ASC" THEN r > cursor.id ELSE r < cursor.id)

(* take(limit + 1): the rows past the cursor, the first Limit of them given, *)
(* and whether there was one more.                                           *)
Matching(S, cursor, dir, created) == {r \in S : Past(r, cursor, dir, created)}

FirstOf(M, n, dir, created) ==
    {r \in M : Cardinality({s \in M : Before(s, r, dir, created)}) < n}

Results(S, cursor, dir, created) ==
    FirstOf(Matching(S, cursor, dir, created), Limit, dir, created)

HasMore(S, cursor, dir, created) ==
    Cardinality(FirstOf(Matching(S, cursor, dir, created), Limit + 1, dir, created)) > Limit

LastOf(R, dir, created) ==
    CHOOSE r \in R : \A s \in R \ {r} : Before(s, r, dir, created)

NextCursor(R, dir, created) ==
    LET last == LastOf(R, dir, created)
    IN  [at |-> Millisecond(created[last]), id |-> last]
=============================================================================
