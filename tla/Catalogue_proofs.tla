---------------------------- MODULE Catalogue_proofs ----------------------------
(* A page is a slice of the whole list, for every size, offset and limit but     *)
(* zero, and so scrolling neither loses nor repeats a row.                       *)
EXTENDS Catalogue, SequenceTheorems, TLAPS

\* The rows of the slice that starts after the first o rows.
SliceLen(n, m, o, l) ==
    IF l > 0 THEN Fewer(l, Bigger(Total(n, m) - o, 0)) ELSE Bigger(Total(n, m) - o, 0)

\* A function on the first k places is a sequence of k values.
LEMMA PlacesAreASeq ==
    ASSUME NEW k \in Nat, NEW f \in [1 .. k -> Int]
    PROVE  f \in Seq(Int) /\ Len(f) = k
BY SeqDef

\* What token_list's page is: the rows that follow the first o.
LEMMA ProviderPageRows ==
    ASSUME NEW n \in Nat, NEW o \in Nat, NEW l \in Int
    PROVE  /\ ProviderPage(n, o, l) \in Seq(Int)
           /\ Len(ProviderPage(n, o, l)) =
                IF l > 0 THEN Fewer(l, Bigger(n - o, 0)) ELSE Bigger(n - o, 0)
           /\ \A i \in 1 .. Len(ProviderPage(n, o, l)) : ProviderPage(n, o, l)[i] = o + i
<1> DEFINE k == IF l > 0 THEN Fewer(l, Bigger(n - o, 0)) ELSE Bigger(n - o, 0)
<1>1. k \in Nat
    BY DEF Fewer, Bigger
<1>2. ProviderPage(n, o, l) = [i \in 1 .. k |-> o + i]
    BY DEF ProviderPage
<1> HIDE DEF k
<1>3. ProviderPage(n, o, l) \in [1 .. k -> Int]
    BY <1>1, <1>2
<1>4. ProviderPage(n, o, l) \in Seq(Int) /\ Len(ProviderPage(n, o, l)) = k
    BY <1>1, <1>3, PlacesAreASeq
<1>5. \A i \in 1 .. k : ProviderPage(n, o, l)[i] = o + i
    BY <1>2
<1> QED BY <1>4, <1>5 DEF k

(* Each page is the slice of the whole list that starts at its offset: the       *)
(* native row's slot, the shift behind it and the cut agree for any numbers.      *)
THEOREM PageIsSlice ==
    ASSUME NEW n \in Nat, NEW m \in BOOLEAN, NEW o \in Int, NEW l \in Int, l # 0
    PROVE  /\ Page(n, m, o, l) \in Seq(Int)
           /\ Len(Page(n, m, o, l)) = SliceLen(n, m, Bigger(o, 0), l)
           /\ \A i \in 1 .. Len(Page(n, m, o, l)) :
                Page(n, m, o, l)[i] = WholeList(n, m)[Bigger(o, 0) + i]
<1> DEFINE p == ProviderOffset(m, o)
           s == ProviderPage(n, p, l)
           w == WithNative(m, s, o, l)
           k == SliceLen(n, m, Bigger(o, 0), l)
<1>1. p \in Nat
    BY DEF ProviderOffset, Bigger
<1>2. /\ s \in Seq(Int)
      /\ Len(s) = IF l > 0 THEN Fewer(l, Bigger(n - p, 0)) ELSE Bigger(n - p, 0)
      /\ \A i \in 1 .. Len(s) : s[i] = p + i
    BY <1>1, ProviderPageRows
<1>3. k \in Nat
    BY DEF SliceLen, Total, Fewer, Bigger
<1>4. /\ w \in Seq(Int)
      /\ Truncated(w, l) \in Seq(Int)
      /\ Len(Truncated(w, l)) = k
      /\ \A i \in 1 .. k : Truncated(w, l)[i] = IF m THEN Bigger(o, 0) + i - 1 ELSE Bigger(o, 0) + i
    <2>1. CASE m /\ o <= 0
        <3>1. w = [i \in 1 .. Len(s) + 1 |-> IF i = 1 THEN 0 ELSE s[i - 1]]
            BY <2>1 DEF WithNative, Native
        <3>2. p = 0 /\ Bigger(o, 0) = 0
            BY <2>1 DEF ProviderOffset, Bigger
        <3>3. Len(s) \in Nat
            BY <1>2, LenProperties
        <3>4. \A i \in 1 .. Len(s) + 1 : (IF i = 1 THEN 0 ELSE s[i - 1]) = i - 1
            BY <1>2, <3>2, <3>3
        <3>5. w = [i \in 1 .. Len(s) + 1 |-> i - 1]
            BY <3>1, <3>4
        <3>6. w \in Seq(Int) /\ Len(w) = Len(s) + 1 /\ \A i \in 1 .. Len(w) : w[i] = i - 1
            <4>1. Len(s) + 1 \in Nat
                BY <3>3
            <4>2. w \in [1 .. Len(s) + 1 -> Int]
                BY <3>3, <3>5
            <4>3. w \in Seq(Int) /\ Len(w) = Len(s) + 1
                BY <4>1, <4>2, PlacesAreASeq
            <4>4. \A i \in 1 .. Len(s) + 1 : w[i] = i - 1
                BY <3>5
            <4> QED BY <4>3, <4>4
        <3>7. CASE l > 0
            <4>1. Fewer(l, Len(w)) = k /\ k <= Len(w)
                <5>1. Len(s) = Fewer(l, n)
                    BY <1>2, <3>2, <3>7 DEF Bigger
                <5>2. k = Fewer(l, n + 1)
                    BY <2>1, <3>2, <3>7 DEF SliceLen, Total, Bigger
                <5>3. Len(w) = Fewer(l, n) + 1
                    BY <3>6, <5>1
                <5> HIDE DEF w, k, s
                <5> QED BY <3>7, <5>2, <5>3 DEF Fewer
            <4>2. Truncated(w, l) = [i \in 1 .. k |-> w[i]]
                BY <3>7, <4>1 DEF Truncated
            <4>3. \A i \in 1 .. k : w[i] = i - 1 /\ w[i] \in Int
                BY <1>3, <3>3, <3>6, <4>1
            <4>4. Truncated(w, l) \in [1 .. k -> Int]
                BY <4>2, <4>3
            <4>5. Truncated(w, l) \in Seq(Int) /\ Len(Truncated(w, l)) = k
                BY <1>3, <4>4, PlacesAreASeq
            <4>6. \A i \in 1 .. k : Truncated(w, l)[i] = i - 1
                BY <4>2, <4>3
            <4>7. \A i \in 1 .. k : i - 1 = IF m THEN Bigger(o, 0) + i - 1 ELSE Bigger(o, 0) + i
                BY <1>3, <2>1, <3>2
            <4> HIDE DEF k, w
            <4> QED BY <3>6, <4>5, <4>6, <4>7
        <3>8. CASE ~ (l > 0)
            <4>1. Truncated(w, l) = w
                BY <3>8 DEF Truncated
            <4>2. Len(w) = k
                <5>1. Len(s) = n
                    BY <1>2, <3>2, <3>8 DEF Bigger
                <5>2. k = n + 1
                    BY <2>1, <3>2, <3>8 DEF SliceLen, Total, Bigger
                <5> QED BY <3>6, <5>1, <5>2
            <4>3. \A i \in 1 .. k : i - 1 = IF m THEN Bigger(o, 0) + i - 1 ELSE Bigger(o, 0) + i
                BY <1>3, <2>1, <3>2
            <4> HIDE DEF k, w
            <4> QED BY <3>6, <4>1, <4>2, <4>3
        <3> QED BY <3>7, <3>8
    <2>2. CASE ~ (m /\ o <= 0)
        <3>1. w = s
            BY <2>2 DEF WithNative
        <3>2. p = IF m THEN Bigger(o, 0) - 1 ELSE Bigger(o, 0)
            BY <2>2 DEF ProviderOffset, Bigger
        <3>3. Len(s) = k
            BY <1>2, <2>2, <3>2 DEF SliceLen, Total, Fewer, Bigger
        <3>4. \A i \in 1 .. k : s[i] = p + i
            BY <1>2, <3>3
        <3>5. Truncated(s, l) = s
            <4>1. l > 0 => Fewer(l, Len(s)) = Len(s)
                BY <1>2 DEF Fewer, Bigger
            <4>2. s = [i \in 1 .. Len(s) |-> s[i]]
                BY <1>2
            <4> QED BY <4>1, <4>2 DEF Truncated
        <3>6. \A i \in 1 .. k : p + i = IF m THEN Bigger(o, 0) + i - 1 ELSE Bigger(o, 0) + i
            BY <1>3, <3>2 DEF Bigger
        <3> QED BY <1>2, <3>1, <3>3, <3>4, <3>5, <3>6
    <2> QED BY <2>1, <2>2
<1>5. \A i \in 1 .. k : Bigger(o, 0) + i \in 1 .. Total(n, m)
    BY <1>3 DEF SliceLen, Total, Fewer, Bigger
<1>6. \A i \in 1 .. k : WholeList(n, m)[Bigger(o, 0) + i] =
                            IF m THEN Bigger(o, 0) + i - 1 ELSE Bigger(o, 0) + i
    <2>1. \A j \in 1 .. Total(n, m) : WholeList(n, m)[j] = IF m THEN j - 1 ELSE j
        BY DEF WholeList
    <2>2. Bigger(o, 0) \in Int
        BY DEF Bigger
    <2> SUFFICES ASSUME NEW i \in 1 .. k
                 PROVE  WholeList(n, m)[Bigger(o, 0) + i] =
                            IF m THEN Bigger(o, 0) + i - 1 ELSE Bigger(o, 0) + i
        OBVIOUS
    <2>3. Bigger(o, 0) + i \in 1 .. Total(n, m)
        BY <1>5
    <2> HIDE DEF k
    <2> QED BY <2>1, <2>2, <2>3
<1>7. Page(n, m, o, l) = Truncated(w, l)
    BY DEF Page
<1> HIDE DEF w, k
<1>8. /\ Page(n, m, o, l) \in Seq(Int)
      /\ Len(Page(n, m, o, l)) = k
      /\ \A i \in 1 .. k : Page(n, m, o, l)[i] = WholeList(n, m)[Bigger(o, 0) + i]
    BY <1>4, <1>6, <1>7
<1> QED BY <1>8 DEF k

--------------------------------------------------------------------------------
\* What scrolling keeps: `offset` counts the rows loaded, and `more` is not stale.
ScrollInv ==
    /\ size \in Nat
    /\ matches \in BOOLEAN
    /\ limit \in Int \ {0}
    /\ offset \in Int
    /\ got \in Seq(Int)
    /\ Bigger(offset, 0) = Len(got)
    /\ more \in BOOLEAN
    /\ more => Len(got) = 0 \/ Len(got) < Total(size, matches)
    /\ ~more => Len(got) = Total(size, matches)
    /\ SeamlessPages

\* One more page keeps it, and the page is not empty while rows are left.
LEMMA PageKeeps ==
    ASSUME ScrollInv, NextPage
    PROVE  /\ ScrollInv'
           /\ more' <=> Len(got') < Total(size, matches)
           /\ Total(size, matches) > 0 => Len(got') > Len(got)
<1> DEFINE rows == Page(size, matches, offset, limit)
           g == Len(got)
           t == Total(size, matches)
<1>1. /\ size' = size /\ matches' = matches /\ limit' = limit
      /\ got' = got \o rows
      /\ offset' = Bigger(offset, 0) + Len(rows)
      /\ more' = (Bigger(offset, 0) + Len(rows) < t)
      /\ more
    BY DEF NextPage, HasMore
<1>2. /\ rows \in Seq(Int)
      /\ Len(rows) = SliceLen(size, matches, g, limit)
      /\ \A i \in 1 .. Len(rows) : rows[i] = WholeList(size, matches)[g + i]
    <2>1. /\ size \in Nat /\ matches \in BOOLEAN
          /\ offset \in Int /\ limit \in Int /\ limit # 0
          /\ Bigger(offset, 0) = g
        BY DEF ScrollInv
    <2> HIDE DEF g
    <2>2. /\ rows \in Seq(Int)
          /\ Len(rows) = SliceLen(size, matches, Bigger(offset, 0), limit)
          /\ \A i \in 1 .. Len(rows) :
                rows[i] = WholeList(size, matches)[Bigger(offset, 0) + i]
        BY <2>1, PageIsSlice
    <2> QED BY <2>1, <2>2
<1>3. t \in Nat /\ g \in Nat /\ g <= t
    BY LenProperties DEF ScrollInv, SeamlessPages, Total
<1>4. /\ Len(rows) \in Nat
      /\ g + Len(rows) <= t
      /\ g < t => Len(rows) > 0
    BY <1>2, <1>3 DEF SliceLen, Fewer, Bigger, ScrollInv
<1>5. /\ got' \in Seq(Int)
      /\ Len(got') = g + Len(rows)
      /\ \A i \in 1 .. Len(got') : got'[i] = IF i <= g THEN got[i] ELSE rows[i - g]
    <2>1. got \in Seq(Int)
        BY DEF ScrollInv
    <2> HIDE DEF rows
    <2>2. /\ got \o rows \in Seq(Int)
          /\ Len(got \o rows) = Len(got) + Len(rows)
          /\ \A i \in 1 .. Len(got) + Len(rows) :
                (got \o rows)[i] = IF i <= Len(got) THEN got[i] ELSE rows[i - Len(got)]
        BY <1>2, <2>1, ConcatProperties
    <2> QED BY <1>1, <2>2
<1> HIDE DEF rows, g, t
<1>6. /\ offset' \in Int /\ Bigger(offset', 0) = Len(got')
      /\ Bigger(offset, 0) + Len(rows) = Len(got')
    <2>1. Bigger(offset, 0) = g
        BY DEF ScrollInv, g
    <2>2. offset' = g + Len(rows)
        BY <1>1, <2>1
    <2> QED BY <1>3, <1>4, <1>5, <2>1, <2>2 DEF Bigger
<1>7. more' <=> Len(got') < t
    BY <1>1, <1>6
<1>8. t > 0 => Len(got') > g
    <2>1. g = 0 \/ g < t
        BY <1>1 DEF ScrollInv, g, t
    <2> QED BY <1>3, <1>4, <1>5, <2>1
<1>9. SeamlessPages'
    <2>1. Len(got') <= Total(size', matches')
        BY <1>1, <1>4, <1>5 DEF t
    <2>2. \A i \in 1 .. g : got[i] = WholeList(size, matches)[i]
        BY LenProperties DEF ScrollInv, SeamlessPages, g
    <2>3. \A i \in 1 .. Len(got') : got'[i] = WholeList(size, matches)[i]
        <3> SUFFICES ASSUME NEW i \in 1 .. Len(got')
                     PROVE  got'[i] = WholeList(size, matches)[i]
            OBVIOUS
        <3>1. CASE i <= g
            BY <1>3, <1>5, <2>2, <3>1
        <3>2. CASE ~ (i <= g)
            <4>1. i - g \in 1 .. Len(rows) /\ g + (i - g) = i
                BY <1>3, <1>4, <1>5, <3>2
            <4> QED BY <1>2, <1>5, <3>2, <4>1 DEF g, rows
        <3> QED BY <3>1, <3>2
    <2>4. DOMAIN got' = 1 .. Len(got')
        BY <1>5, LenProperties
    <2> QED BY <1>1, <2>1, <2>3, <2>4 DEF SeamlessPages
<1>10. ScrollInv'
    <2>1. more' \in BOOLEAN
        BY <1>1
    <2>2. ~more' => Len(got') = t
        BY <1>3, <1>4, <1>5, <1>7
    <2> QED BY <1>1, <1>5, <1>6, <1>7, <1>9, <2>1, <2>2 DEF ScrollInv, t
<1> QED BY <1>7, <1>8, <1>10 DEF g, t

LEMMA EmptyScroll ==
    ASSUME NEW n \in Nat, NEW m \in BOOLEAN
    PROVE  Total(n, m) \in Nat
BY DEF Total

LEMMA ScrollInit ==
    ASSUME 0 \notin Limits
    PROVE  Init => ScrollInv
BY SizesAreNat, LimitsAreInt, EmptyScroll
   DEF Init, ScrollInv, SeamlessPages, Bigger

LEMMA ScrollStep ==
    ASSUME 0 \notin Limits
    PROVE  ScrollInv /\ [Next]_vars => ScrollInv'
<1> SUFFICES ASSUME ScrollInv, [Next]_vars
             PROVE  ScrollInv'
    OBVIOUS
<1>1. CASE NextPage
    BY <1>1, PageKeeps
<1>2. CASE Query
    <2>1. /\ size' \in Nat /\ matches' \in BOOLEAN
          /\ limit' \in Int \ {0}
          /\ offset' \in Int /\ Bigger(offset', 0) = 0
        BY <1>2, SizesAreNat, LimitsAreInt DEF Query, Bigger
    <2>2. got' = <<>> /\ more' = TRUE
        BY <1>2 DEF Query
    <2>3. got' \in Seq(Int) /\ Len(got') = 0 /\ DOMAIN got' = {}
        BY <2>2
    <2>4. SeamlessPages'
        BY <2>1, <2>3, EmptyScroll DEF SeamlessPages
    <2> QED BY <2>1, <2>2, <2>3, <2>4 DEF ScrollInv
<1>3. CASE UNCHANGED vars
    BY <1>3 DEF vars, ScrollInv, SeamlessPages
<1> QED BY <1>1, <1>2, <1>3 DEF Next

LEMMA ScrollKept ==
    ASSUME 0 \notin Limits
    PROVE  Spec => []ScrollInv
BY ScrollInit, ScrollStep, PTL DEF Spec

(* Whatever the page sizes are, if zero is not one of them: what a view has       *)
(* scrolled through is the head of the whole list.                               *)
THEOREM SeamlessScroll ==
    ASSUME 0 \notin Limits
    PROVE  Spec => []SeamlessPages
<1>1. ScrollInv => SeamlessPages
    BY DEF ScrollInv
<1> QED BY <1>1, ScrollKept, PTL

LEMMA PagesGrow ==
    ScrollInv /\ [Next]_vars =>
        [NextPage => /\ more' = (Len(got') < Total(size, matches))
                     /\ Total(size, matches) > 0 => Len(got') > Len(got)]_vars
<1>1. ASSUME ScrollInv, NextPage
      PROVE  /\ more' = (Len(got') < Total(size, matches))
             /\ Total(size, matches) > 0 => Len(got') > Len(got)
    <2>1. more' \in BOOLEAN
        BY <1>1 DEF NextPage, HasMore
    <2> QED BY <1>1, <2>1, PageKeeps
<1> QED BY <1>1

(* And hasMore is right on every page, so that the scrolling ends.               *)
THEOREM ScrollEnds ==
    ASSUME 0 \notin Limits
    PROVE  Spec => MoreIsMore
BY ScrollKept, PagesGrow, PTL DEF Spec, MoreIsMore

(* So a view that has scrolled until no more is promised holds the whole list, each row  *)
(* of it at its one place: none is lost and none comes twice, for any catalogue, and     *)
(* whatever sizes the pages had.                                                     *)
THEOREM ScrolledIsWhole ==
    ASSUME 0 \notin Limits
    PROVE  Spec => [](~more => /\ got = WholeList(size, matches)
                               /\ \A i, j \in DOMAIN got : got[i] = got[j] => i = j)
<1>1. ASSUME ScrollInv, ~more
      PROVE  /\ got = WholeList(size, matches)
             /\ \A i, j \in DOMAIN got : got[i] = got[j] => i = j
    <2>1. got \in Seq(Int) /\ Len(got) = Total(size, matches)
        BY <1>1 DEF ScrollInv
    <2>2. DOMAIN got = 1 .. Total(size, matches) /\ got = [i \in DOMAIN got |-> got[i]]
        BY <2>1, LenProperties
    <2>3. \A i \in DOMAIN got : got[i] = WholeList(size, matches)[i]
        BY <1>1 DEF ScrollInv, SeamlessPages
    <2>4. WholeList(size, matches) = [i \in 1 .. Total(size, matches) |->
                                         IF matches THEN i - 1 ELSE i]
        BY DEF WholeList
    <2>5. got = WholeList(size, matches)
        BY <2>2, <2>3, <2>4
    <2>6. \A i \in DOMAIN got : i \in Int /\ got[i] = IF matches THEN i - 1 ELSE i
        <3>1. Total(size, matches) \in Nat
            BY <1>1, EmptyScroll DEF ScrollInv
        <3> QED BY <2>2, <2>3, <2>4, <3>1
    <2> QED BY <2>5, <2>6
<1>2. ScrollInv => (~more => /\ got = WholeList(size, matches)
                             /\ \A i, j \in DOMAIN got : got[i] = got[j] => i = j)
    BY <1>1
<1> QED BY <1>2, ScrollKept, PTL

================================================================================
