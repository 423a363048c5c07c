----------------------------- MODULE LineIndex ------------------------------
(***************************************************************************)
(* The numbering of credit lines and the two paged readings of it, walked  *)
(* page by page by a client while lines are opened and reopened.           *)
(***************************************************************************)
EXTENDS Host, SequencesExt

CONSTANTS
  Owners,     \* borrowers whose lines are numbered
  PageSizes,  \* page sizes a client may ask for, larger than the maximum included
  MaxPage,    \* MAX_ENUMERATION_LIMIT
  NoCursor    \* None as a cursor: no page before, or no page after

ASSUME IndexAssumption ==
  /\ PageSizes \subseteq Nat \ {0} /\ MaxPage \in Nat \ {0}
  /\ NoCursor \notin Nat

VARIABLES
  index,  \* CreditLineBorrowerById, in the order of the ids; its length is CreditLineCount
  walk    \* a client's walk: the view it pages, its page size, cursor, the ids read so far,
          \* whether the view said it was over, and the count of lines at its latest page

indexVars == <<index, walk>>

IndexInit ==
  /\ index = << >>
  /\ walk \in [view : {"enumerate", "paginated"}, size : PageSizes, cursor : {NoCursor},
               read : {<< >>}, over : {FALSE}, count : {0}]

\* ensure_credit_line_id, on every opening: the first one numbers the borrower for good.
EnsureCreditLineId(b) ==
  /\ index' = IF Contains(index, b) THEN index ELSE Append(index, b)
  /\ UNCHANGED walk

Ids(from, n) == [i \in 1..n |-> from + i - 1]
Smaller(p, q) == IF p < q THEN p ELSE q
Left(from) == IF from < Len(index) THEN Len(index) - from ELSE 0

\* enumerate_credit_lines: the ids after the cursor.
EnumeratePage(start_after, limit) ==
  LET from == IF start_after = NoCursor THEN 0 ELSE start_after + 1
  IN  Ids(from, Smaller(Smaller(limit, MaxPage), Left(from)))

\* Mutant: the next page starts one id too late.
PaginatedPageSkips(cursor, limit) ==
  LET from == IF cursor = NoCursor THEN 0 ELSE cursor
      n    == Smaller(limit, Left(from))
  IN  [lines |-> Ids(from, n),
       next  |-> IF n < limit \/ from + n >= Len(index) THEN NoCursor ELSE from + n + 1]

\* get_credit_lines_paginated.  The cursor moves with each line but the last one of all, so a
\* page of several lines that ends with it points back at it.
PaginatedPage(cursor, limit) ==
  LET from == IF cursor = NoCursor THEN 0 ELSE cursor
      n    == Smaller(limit, Left(from))
  IN  [lines |-> Ids(from, n),
       next  |-> CASE n = limit /\ from + n < Len(index)            -> from + n
                   [] n = limit /\ from + n >= Len(index) /\ n > 1 -> Len(index) - 1
                   [] OTHER                                        -> NoCursor]

\* A client of enumerate_credit_lines goes on after the last id until a page is empty.
EnumerateNext ==
  LET page == EnumeratePage(walk.cursor, walk.size)
  IN  /\ walk.view = "enumerate" /\ ~walk.over
      /\ walk' = [walk EXCEPT !.read = walk.read \o page,
                              !.cursor = IF page = << >> THEN walk.cursor ELSE page[Len(page)],
                              !.over = page = << >>, !.count = Len(index)]
      /\ UNCHANGED index

\* A client of get_credit_lines_paginated follows next_cursor until there is none; a page size
\* above the maximum is refused.
PaginatedNext ==
  LET page == PaginatedPage(walk.cursor, walk.size)
  IN  /\ walk.view = "paginated" /\ ~walk.over
      /\ walk.size <= MaxPage
      /\ walk' = [walk EXCEPT !.read = walk.read \o page.lines, !.cursor = page.next,
                              !.over = page.next = NoCursor, !.count = Len(index)]
      /\ UNCHANGED index

IndexNext == \/ \E b \in Owners : EnsureCreditLineId(b)
             \/ EnumerateNext
             \/ PaginatedNext
-----------------------------------------------------------------------------
\* A finished walk has read every line there was at its latest page, in the order of the ids and
\* without a gap, whichever lines were opened between the pages.
WalkComplete ==
  /\ \A i \in 2..Len(walk.read) : walk.read[i] \in {walk.read[i - 1], walk.read[i - 1] + 1}
  /\ walk.over => Range(walk.read) = 0..(walk.count - 1)

\* A walk of enumerate_credit_lines meets each borrower once, also one whose line was opened
\* again while the walk was under way.
BorrowersOnce == walk.view = "enumerate" => IsInjective([i \in DOMAIN walk.read |-> index[walk.read[i] + 1]])

\* The index lists every borrower once and a walk through its pages misses none.
IndexSound == WalkComplete /\ BorrowersOnce
=============================================================================
