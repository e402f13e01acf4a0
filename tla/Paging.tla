-------------------------------- MODULE Paging --------------------------------
(***************************************************************************)
(* From the page and the limit of a request to the bounds of a slice       *)
(* (pkg/aiserver/query/types.go). Numbers are Go's int: they are in Ints   *)
(* and what does not fit is wrapped around.                                *)
(***************************************************************************)
EXTENDS Integers

CONSTANTS
    Width,      \* 2^63, small for TLC
    Undefined   \* a parameter that is missing or no number

ASSUME WidthAssumption == Width \in Nat /\ Width > 1

Ints == -Width .. Width - 1

Wrap(n) == ((n + Width) % (2 * Width)) - Width

NoLimit == -1

\* Mutant of the next: pages are counted from 0.
ParsePagesFromZero(limit, page) ==
    LET l == IF limit \in Ints THEN limit ELSE NoLimit
        p == IF page \in Ints THEN page ELSE 1
    IN  [limit |-> l, offset |-> Wrap(p * l)]

ParsePagination(limit, page) ==
    LET l == IF limit \in Ints THEN limit ELSE NoLimit
        p == IF page \in Ints THEN page ELSE 1
    IN  [limit |-> l, offset |-> Wrap(Wrap(p - 1) * l)]

\* Mutant of the next: the end is not cut to the length of the list.
ValidPaginationUncut(p, total) ==
    IF p.limit = NoLimit THEN [start |-> 0, end |-> total]
    ELSE IF p.limit < 0 \/ p.offset < 0 \/ p.offset > total
    THEN [start |-> 0, end |-> 0]
    ELSE [start |-> p.offset, end |-> Wrap(p.offset + p.limit)]

\* Mutant of the next: the end is taken to be on the page.
ValidPaginationInclusive(p, total) ==
    IF p.limit = NoLimit THEN [start |-> 0, end |-> total]
    ELSE IF p.limit < 0 \/ p.offset < 0 \/ p.offset > total
    THEN [start |-> 0, end |-> 0]
    ELSE LET end == Wrap(p.offset + p.limit + 1)
         IN  [start |-> p.offset, end |-> IF end > total THEN total ELSE end]

\* The slice [start, end) of a list of that many elements.
GetValidPagination(p, total) ==
    IF p.limit = NoLimit THEN [start |-> 0, end |-> total]
    ELSE IF p.limit < 0 \/ p.offset < 0 \/ p.offset > total
    THEN [start |-> 0, end |-> 0]
    ELSE LET end == Wrap(p.offset + p.limit)
         IN  [start |-> p.offset, end |-> IF end > total THEN total ELSE end]

\* Whether Go slices a list of that length with these bounds, or panics.
IsSlice(w, total) == 0 <= w.start /\ w.start <= w.end /\ w.end <= total

=============================================================================
