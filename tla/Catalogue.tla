------------------------------- MODULE Catalogue -------------------------------
(* The token picker's pages: token_list_module's catalogue with the chain's      *)
(* native row merged in front (`catalogue.rs`, `list_available_tokens`), and a    *)
(* view that loads the list page by page as it scrolls.                          *)
(*                                                                              *)
(* A row is its place: 1, 2, ... in token_list's catalogue, and 0 the native one.*)
EXTENDS Integers, Sequences

CONSTANTS
    Sizes,          \* how many rows of the catalogue a query may match
    Limits          \* the page sizes a view asks for

ASSUME SizesAreNat == Sizes \subseteq Nat
ASSUME LimitsAreInt == Limits \subseteq Int

Native == 0

VARIABLES
    size,           \* the catalogue's rows that match the query
    matches,        \* native_matches: the native row does too
    limit,
    offset,         \* the next page's
    got,            \* the rows loaded so far
    more            \* the last page's hasMore

vars == <<size, matches, limit, offset, got, more>>

--------------------------------------------------------------------------------
Bigger(a, b) == IF a > b THEN a ELSE b
Fewer(a, b) == IF a < b THEN a ELSE b

\* token_list's own page of n matching rows (external): zero or less is no limit.
ProviderPage(n, o, l) ==
    [i \in 1 .. (IF l > 0 THEN Fewer(l, Bigger(n - o, 0)) ELSE Bigger(n - o, 0))
        |-> o + i]

\* Mutant: the catalogue does not shift behind the native row.
UnshiftedOffset(m, o) == Bigger(o, 0)

\* The native row takes slot 0 of page 0, so the catalogue is one slot behind it.
ProviderOffset(m, o) ==
    IF m THEN Bigger(Bigger(o, 0) - 1, 0) ELSE Bigger(o, 0)

WithNative(m, rows, o, l) ==
    IF m /\ o <= 0 /\ l # 0
    THEN [i \in 1 .. Len(rows) + 1 |-> IF i = 1 THEN Native ELSE rows[i - 1]]
    ELSE rows

Truncated(rows, l) ==
    IF l > 0 THEN [i \in 1 .. Fewer(l, Len(rows)) |-> rows[i]] ELSE rows

\* list_available_tokens' rows.
Page(n, m, o, l) ==
    Truncated(WithNative(m, ProviderPage(n, ProviderOffset(m, o), l), o, l), l)

Total(n, m) == n + IF m THEN 1 ELSE 0

\* Mutant: hasMore is token_list's own, which does not count the native row.
HasMoreOfList(n, m, o, shown) == Bigger(o, 0) + shown < n

HasMore(n, m, o, shown) == Bigger(o, 0) + shown < Total(n, m)

--------------------------------------------------------------------------------
Query ==
    /\ size' \in Sizes /\ matches' \in BOOLEAN /\ limit' \in Limits
    /\ offset' \in {-1, 0}
    /\ got' = <<>>
    /\ more' = TRUE

Init ==
    /\ size \in Sizes /\ matches \in BOOLEAN /\ limit \in Limits
    /\ offset \in {-1, 0}
    /\ got = <<>>
    /\ more = TRUE

\* The view scrolls: `offset` skips what it has.
NextPage ==
    /\ more
    /\ LET rows == Page(size, matches, offset, limit) IN
         /\ got' = got \o rows
         /\ offset' = Bigger(offset, 0) + Len(rows)
         /\ more' = HasMore(size, matches, offset, Len(rows))
    /\ UNCHANGED <<size, matches, limit>>

Next == NextPage \/ Query

Spec == Init /\ [][Next]_vars

--------------------------------------------------------------------------------
\* The list as a whole: the native row, if it matches, and then the catalogue.
WholeList(n, m) == [i \in 1 .. Total(n, m) |-> IF m THEN i - 1 ELSE i]

(* glue.rs:85: the answer comes in pages. What a view has scrolled through is    *)
(* the head of the whole list: no row is lost, repeated or moved at a seam.        *)
SeamlessPages ==
    /\ Len(got) <= Total(size, matches)
    /\ \A i \in DOMAIN got : got[i] = WholeList(size, matches)[i]

(* glue.rs:87: hasMore says whether another page follows: it is false exactly    *)
(* when the whole list is loaded, and every page that is asked for because of it  *)
(* brings a row, so scrolling ends.                                               *)
MoreIsMore ==
    [][NextPage => /\ more' = (Len(got') < Total(size, matches))
                   /\ Total(size, matches) > 0 => Len(got') > Len(got)]_vars
================================================================================
