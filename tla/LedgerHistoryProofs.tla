------------------------ MODULE LedgerHistoryProofs ------------------------
(***************************************************************************)
(* Theorems about LedgerHistory, for every ledger, page size, filter and   *)
(* width of ints: whoever follows "next" to the end misses nothing, is     *)
(* given no more rows again than entries were added, and never comes to an *)
(* empty page; and the parts of an answer agree as far as they can.        *)
(*                                                                         *)
(* Inv comes first, then PagesInv, which is inductive relative to it.      *)
(***************************************************************************)
EXTENDS LedgerHistory, FiniteLemmas

-----------------------------------------------------------------------------
(* Arithmetic.                                                             *)

(* An offset that fits in an int is not changed by the width of ints.      *)
LEMMA NoWrap ==
  ASSUME NEW n \in 0 .. MaxInt
  PROVE  Wrap(n) = n
<1>1. MaxInt \in Nat
  BY HistoryAssumption
<1>2. \A a, b \in Nat : a < b => a % b = a
  OBVIOUS
<1>3. n + MaxInt + 1 \in Nat /\ 2 * MaxInt + 2 \in Nat
      /\ n + MaxInt + 1 < 2 * MaxInt + 2
  BY <1>1
<1>4. (n + MaxInt + 1) % (2 * MaxInt + 2) = n + MaxInt + 1
  BY <1>2, <1>3
<1> QED
  BY <1>1, <1>4 DEF Wrap

(* The pages before the last are full, and the last is the end.            *)
LEMMA PagesCover ==
  ASSUME NEW total \in Nat, NEW size \in Nat \ {0}, NEW k \in Nat
  PROVE  /\ TotalPages(total, size) \in Nat
         /\ k < TotalPages(total, size) => k * size < total
         /\ TotalPages(total, size) <= k => total <= k * size
<1> DEFINE q == (total + size - 1) \div size
<1>1. q \in Nat /\ q * size <= total + size - 1 /\ total + size - 1 < (q + 1) * size
  OBVIOUS
<1> HIDE DEF q
<1>2. ASSUME k + 1 <= q PROVE k * size < total
  <2>1. (k + 1) * size <= q * size
    BY <1>1, <1>2
  <2>2. (k + 1) * size = k * size + size
    OBVIOUS
  <2> QED
    BY <1>1, <2>1, <2>2
<1>3. ASSUME q <= k PROVE total <= k * size
  <2>1. (q + 1) * size <= (k + 1) * size
    BY <1>1, <1>3
  <2>2. (k + 1) * size = k * size + size
    OBVIOUS
  <2> QED
    BY <1>1, <2>1, <2>2
<1>4. TotalPages(total, size) = q
  BY DEF TotalPages, q
<1> QED
  BY <1>1, <1>2, <1>3, <1>4

(* What the handler makes of a query are a page and a size.                *)
LEMMA QueryRanges ==
  ASSUME NEW n \in Int
  PROVE  /\ PageOf(n) \in 1 .. MaxInt
         /\ PerPageOf(n) \in 1 .. MaxInt
         /\ n \in 1 .. MaxInt => PageOf(n) = n
BY HistoryAssumption DEF PageOf, PerPageOf, Atoi

-----------------------------------------------------------------------------
(* Ranks.                                                                  *)

(* The entries that match are finitely many, no more than an int holds.    *)
LEMMA Finite ==
  ASSUME NEW S \in SUBSET Entry
  PROVE  /\ IsFiniteSet(S)
         /\ Cardinality(S) \in 0 .. MaxInt
<1>1. /\ IsFiniteSet(S)
      /\ Cardinality(S) <= Cardinality(Entry)
      /\ Cardinality(S) \in Nat /\ Cardinality(Entry) \in Nat
  BY HistoryAssumption, FS_Subset, FS_CardinalityType
<1> QED
  BY <1>1, HistoryAssumption

(* An entry's rank never falls as entries are added.                       *)
LEMMA RankGrows ==
  ASSUME NEW T \in SUBSET Entry, NEW S \in SUBSET T, NEW e
  PROVE  /\ Rank(e, S) \in Nat \ {0}
         /\ Rank(e, T) \in Nat \ {0}
         /\ Rank(e, S) <= Rank(e, T)
<1> DEFINE Newer(U) == {f \in U : f.at > e.at}
<1>1. Newer(S) \in SUBSET Newer(T) /\ Newer(T) \in SUBSET Entry
  OBVIOUS
<1>2. Newer(S) \in SUBSET Entry
  BY <1>1
<1>3. IsFiniteSet(Newer(T)) /\ Cardinality(Newer(T)) \in Nat
  BY <1>1, Finite
<1>4. Cardinality(Newer(S)) \in Nat
  BY <1>2, Finite
<1>5. Cardinality(Newer(S)) <= Cardinality(Newer(T))
  BY <1>1, <1>3, FS_Subset
<1> QED
  BY <1>3, <1>4, <1>5 DEF Rank

(* No entry's rank is beyond the number of entries.                        *)
LEMMA RankWithin ==
  ASSUME NEW S \in SUBSET Entry, NEW e \in S
  PROVE  Rank(e, S) <= Cardinality(S)
<1> DEFINE Newer == {f \in S : f.at > e.at}
<1>1. IsFiniteSet(S) /\ Cardinality(S) \in Nat
  BY Finite
<1>2. IsFiniteSet(S \ {e}) /\ Cardinality(S \ {e}) = Cardinality(S) - 1
  BY <1>1, FS_RemoveElement
<1>3. e.at \in Nat
  BY HistoryAssumption DEF Entry
<1>4. Newer \in SUBSET (S \ {e})
  BY <1>3
<1>5. Cardinality(Newer) <= Cardinality(S \ {e})
  BY <1>2, <1>4, FS_Subset
<1>6. Cardinality(Newer) \in Nat
  <2>1. Newer \in SUBSET Entry
    OBVIOUS
  <2> QED
    BY <2>1, Finite
<1> QED
  BY <1>1, <1>2, <1>5, <1>6 DEF Rank

(* Filtering keeps subsets.                                                *)
LEMMA MatchingSubset ==
  ASSUME NEW S \in SUBSET Entry, NEW T \in SUBSET S, NEW type
  PROVE  /\ Matching(T, type) \subseteq Matching(S, type)
         /\ Matching(S, type) \subseteq S
BY DEF Matching

-----------------------------------------------------------------------------
(* The steps.                                                              *)

(* The records that an answer and a walk start from.                       *)
LEMMA Blank == NoAnswer \in Answer /\ NoWalk \in Walk
BY HistoryAssumption DEF NoAnswer, Answer, Summary, NoWalk, Walk

LEMMA InvInit == Init => Inv
<1> SUFFICES ASSUME Init PROVE Inv
  OBVIOUS
<1>1. TypeOK
  BY Blank, HistoryAssumption DEF Init, TypeOK, Query
<1> QED
  BY <1>1, HistoryAssumption DEF Init, Inv, NoAnswer, NoWalk

LEMMA AskInv == ASSUME Inv, Ask PROVE Inv'
<1>1. PICK page \in Pages, size \in PerPages, type \in Types \cup {NoType} :
        /\ Start(PageOf(page), PerPageOf(size), type)
        /\ known' \in BOOLEAN
        /\ walk' = IF PageOf(page) = 1
                   THEN [NoWalk EXCEPT !.page = 1,
                                       !.since = Matching(entries, type)]
                   ELSE NoWalk
  BY DEF Ask
<1>2. PageOf(page) \in 1 .. MaxInt /\ PerPageOf(size) \in 1 .. MaxInt
  BY QueryRanges, HistoryAssumption
<1>3. Matching(entries, type) \in SUBSET Entry
  BY MatchingSubset DEF Inv, TypeOK
<1>4. TypeOK'
  <2>1. query' \in Query
    BY <1>1, <1>2 DEF Start, Query
  <2>2. answer' \in Answer
    BY <1>1, Blank DEF Start
  <2>3. walk' \in Walk
    <3>1. CASE PageOf(page) = 1
      <4>1. walk' = [page |-> 1, since |-> Matching(entries, type), shown |-> {},
                     rows |-> 0, added |-> 0, cut |-> FALSE, linked |-> FALSE]
        BY <1>1, <3>1 DEF NoWalk
      <4> QED
        BY <4>1, <1>3, HistoryAssumption DEF Walk
    <3> QED
      BY <1>1, <3>1, Blank
  <2>4. /\ entries' = entries /\ pc' = "checkWallet" /\ known' \in BOOLEAN
        /\ raced' = {}
    BY <1>1 DEF Start
  <2> QED
    BY <2>1, <2>2, <2>3, <2>4 DEF Inv, TypeOK
<1>5. ASSUME PageOf(page) = 1 PROVE WalkInv'
  <2>1. /\ walk'.page = 1 /\ walk'.since = Matching(entries, type)
        /\ query'.page = 1 /\ query'.type = type /\ query'.perPage = PerPageOf(size)
        /\ pc' = "checkWallet" /\ answer'.kind = "none" /\ entries' = entries
    BY <1>1, <1>5 DEF Start, NoWalk, NoAnswer
  <2>2. Reached(query.page - 1)'
    <3>1. \A e : Rank(e, Matching(entries, type)) \in Nat \ {0}
      BY <1>3, RankGrows
    <3> QED
      BY <2>1, <3>1, <1>2 DEF Reached
  <2> QED
    BY <2>1, <2>2, <1>2, HistoryAssumption DEF WalkInv, PageRead
<1>6. answer'.total <= MaxInt /\ answer'.kind = "none"
  BY <1>1, HistoryAssumption DEF Start, NoAnswer
<1>7. PageOf(page) # 1 => walk'.page = 0
  BY <1>1 DEF NoWalk
<1> QED
  BY <1>4, <1>5, <1>6, <1>7 DEF Inv

(* A "next" link is to a page whose offset is below the count, and no int on
   the way to it overflows.                                                *)
LEMMA NextLink ==
  ASSUME Inv, HasNext
  PROVE  /\ query.page * query.perPage < answer.total
         /\ query.page * query.perPage <= MaxInt
         /\ query.page + 1 \in 1 .. MaxInt
<1>1. /\ query.page \in 1 .. MaxInt /\ query.perPage \in 1 .. MaxInt
      /\ answer.total \in Nat /\ answer.total <= MaxInt /\ MaxInt \in Nat
  BY HistoryAssumption DEF Inv, TypeOK, Query, Answer
<1>2. query.page * query.perPage < answer.total
  <2>1. query.page \in Nat /\ query.perPage \in Nat \ {0}
    BY <1>1
  <2> QED
    BY <1>1, <2>1, PagesCover DEF HasNext
<1>3. query.page <= query.page * query.perPage
  BY <1>1
<1> QED
  BY <1>1, <1>2, <1>3

(* A "next" link is followed: its page begins where the last one ended.    *)
LEMMA FollowInv == ASSUME Inv, Follow PROVE Inv'
<1> USE DEF Inv
<1>1. PICK page \in Links :
        /\ Start(PageOf(page), query.perPage, query.type)
        /\ walk' = IF page = query.page + 1 /\ HasNext
                   THEN [walk EXCEPT !.page = IF @ = 0 THEN 0 ELSE page,
                                     !.linked = TRUE]
                   ELSE NoWalk
  BY DEF Follow
<1>2. answer.kind = "ok" /\ known' = known
  BY DEF Follow
<1> DEFINE last == TotalPages(answer.total, query.perPage)
<1>3. /\ query.page \in 1 .. MaxInt /\ query.perPage \in 1 .. MaxInt
      /\ query.type \in Types \cup {NoType}
      /\ answer.total \in Nat /\ answer.total <= MaxInt
  BY DEF TypeOK, Query, Answer
<1>4. last \in Nat
  <2>1. query.page \in Nat /\ query.perPage \in Nat \ {0}
    BY <1>3, HistoryAssumption
  <2> QED
    BY <1>3, <2>1, PagesCover
<1>5. page \in Int
  BY <1>1, <1>3, <1>4 DEF Links
<1>6. PageOf(page) \in 1 .. MaxInt
  BY <1>5, QueryRanges
<1>7. ASSUME HasNext
      PROVE  /\ query.page * query.perPage <= MaxInt
             /\ query.page + 1 \in 1 .. MaxInt
  BY <1>7, NextLink
<1>8. TypeOK'
  <2>1. query' \in Query
    BY <1>1, <1>3, <1>6 DEF Start, Query
  <2>2. answer' \in Answer
    BY <1>1, Blank DEF Start
  <2>3. walk' \in Walk
    <3>1. CASE page = query.page + 1 /\ HasNext
      <4>1. page \in 0 .. MaxInt
        BY <1>7, <3>1
      <4> QED
        BY <1>1, <3>1, <4>1 DEF TypeOK, Walk
    <3> QED
      BY <1>1, <3>1, Blank
  <2>4. entries' = entries /\ pc' = "checkWallet" /\ raced' = {}
    BY <1>1 DEF Start
  <2> QED
    BY <1>2, <2>1, <2>2, <2>3, <2>4 DEF TypeOK
<1>9. ASSUME walk'.page > 0 PROVE WalkInv'
  <2>1. page = query.page + 1 /\ HasNext
    BY <1>1, <1>9 DEF NoWalk
  <2>2. /\ walk'.page = IF walk.page = 0 THEN 0 ELSE page
        /\ walk'.since = walk.since /\ walk'.shown = walk.shown
        /\ walk'.cut = walk.cut
    BY <1>1, <2>1 DEF TypeOK, Walk
  <2>3. walk.page > 0 /\ walk'.page = page
    BY <1>9, <2>2 DEF TypeOK, Walk
  <2>4. page \in 1 .. MaxInt /\ PageOf(page) = page
    BY <1>5, <1>7, <2>1, QueryRanges
  <2>5. /\ query'.page = page /\ query'.perPage = query.perPage
        /\ query'.type = query.type
        /\ pc' = "checkWallet" /\ answer'.kind = "none" /\ entries' = entries
    BY <1>1, <2>4 DEF Start, NoAnswer
  <2>6. (query'.page - 1) * query'.perPage <= MaxInt
    BY <1>3, <1>7, <2>1, <2>5
  <2>7. query'.page - 1 = query.page
    BY <1>3, <2>1, <2>5
  <2>8. ~walk.cut => Reached(query.page)
    BY <1>2, <2>3 DEF WalkInv, PageRead
  <2>9. ~walk'.cut => Reached(query.page - 1)'
    BY <2>2, <2>5, <2>7, <2>8 DEF Reached
  <2>10. walk'.since \subseteq Matching(entries, query.type)'
    BY <2>2, <2>3, <2>5 DEF WalkInv
  <2> QED
    BY <2>3, <2>5, <2>6, <2>9, <2>10 DEF WalkInv, PageRead
<1>10. answer'.total <= MaxInt /\ answer'.kind = "none"
  BY <1>1, HistoryAssumption DEF Start, NoAnswer
<1> QED
  BY <1>8, <1>9, <1>10

LEMMA CheckWalletInv == ASSUME Inv, CheckWallet PROVE Inv'
<1>1. /\ \/ pc' = "count" /\ answer' = answer
         \/ pc' = "idle" /\ answer' = [answer EXCEPT !.kind = "error"]
      /\ pc = "checkWallet"
      /\ UNCHANGED << entries, query, known, raced, walk >>
  BY DEF CheckWallet, Goto
<1>2. TypeOK'
  BY <1>1 DEF Inv, TypeOK, Answer
<1>3. /\ answer'.total = answer.total
      /\ answer'.kind = IF pc' = "idle" THEN "error" ELSE "none"
  BY <1>1 DEF Inv, TypeOK, Answer
<1>4. WalkInv => WalkInv'
  BY <1>1, <1>3 DEF WalkInv, PageRead, Reached
<1> QED
  BY <1>1, <1>2, <1>3, <1>4 DEF Inv

LEMMA CountInv == ASSUME Inv, CountLedgerByWalletID PROVE Inv'
<1> DEFINE M == Matching(entries, query.type)
<1>1. Cardinality(M) \in 0 .. MaxInt
  <2>1. M \in SUBSET Entry
    BY MatchingSubset DEF Inv, TypeOK
  <2> QED
    BY <2>1, Finite
<1>2. /\ pc = "count" /\ pc' = "page"
      /\ answer' = [answer EXCEPT !.total = Cardinality(M)]
      /\ UNCHANGED << entries, query, known, raced, walk >>
  BY DEF CountLedgerByWalletID, Goto
<1>3. TypeOK'
  BY <1>1, <1>2, HistoryAssumption DEF Inv, TypeOK, Answer
<1>4. answer'.total = Cardinality(M) /\ answer'.kind = answer.kind
  BY <1>2 DEF Inv, TypeOK, Answer
<1>5. WalkInv => WalkInv'
  BY <1>2, <1>4 DEF WalkInv, PageRead, Reached, Inv
<1> QED
  BY <1>1, <1>2, <1>3, <1>4, <1>5 DEF Inv

(* Rows of the page, all or the first of them, keep the types.             *)
LEMMA ShowTypes ==
  ASSUME Inv, pc = "page", NEW rows \in SUBSET Entry, NEW cut \in BOOLEAN,
         Show(rows, cut)
  PROVE  /\ TypeOK'
         /\ pc' = "summary" /\ answer'.kind = "none" /\ answer'.total = answer.total
         /\ walk'.page = walk.page /\ walk'.since = walk.since
         /\ walk'.shown = walk.shown \cup rows /\ walk'.cut = (walk.cut \/ cut)
         /\ UNCHANGED << entries, query, known, raced >>
<1>1. Cardinality(rows) \in Nat
  BY Finite
<1>2. /\ pc' = "summary" /\ UNCHANGED << entries, query, known, raced >>
      /\ answer' = [answer EXCEPT !.data = rows]
      /\ walk' = [walk EXCEPT !.shown = @ \cup rows,
                              !.rows = @ + Cardinality(rows),
                              !.cut = @ \/ cut]
  BY DEF Show, Goto
<1>3. answer \in Answer /\ answer.kind = "none" /\ walk \in Walk
  BY DEF Inv, TypeOK
<1>4. answer' \in Answer /\ answer'.kind = "none" /\ answer'.total = answer.total
  BY <1>2, <1>3 DEF Answer
<1>5. walk.shown \cup rows \in SUBSET Entry
      /\ walk.rows + Cardinality(rows) \in Nat
      /\ (walk.cut \/ cut) \in BOOLEAN
  BY <1>1, <1>3 DEF Walk
<1>6. /\ walk' \in Walk
      /\ walk'.page = walk.page /\ walk'.since = walk.since
      /\ walk'.shown = walk.shown \cup rows /\ walk'.cut = (walk.cut \/ cut)
  BY <1>2, <1>3, <1>5 DEF Walk
<1> QED
  BY <1>2, <1>4, <1>6 DEF Inv, TypeOK

(* All of the page: with it, everything up to its end has been shown.      *)
LEMMA PageInv == ASSUME Inv, GetLedgerByWalletID PROVE Inv'
<1> DEFINE M == Matching(entries, query.type)
           start == (query.page - 1) * query.perPage
<1>1. pc = "page" /\ Show(WholePage, Offset(query.page, query.perPage) < 0)
  BY DEF GetLedgerByWalletID
<1>2. M \in SUBSET Entry
  BY MatchingSubset DEF Inv, TypeOK
<1>3. WholePage \in SUBSET Entry
  BY <1>2 DEF WholePage, Page
<1>4. /\ TypeOK'
      /\ pc' = "summary" /\ answer'.kind = "none" /\ answer'.total = answer.total
      /\ walk'.page = walk.page /\ walk'.since = walk.since
      /\ walk'.shown = walk.shown \cup WholePage
      /\ walk'.cut = (walk.cut \/ Offset(query.page, query.perPage) < 0)
      /\ UNCHANGED << entries, query, known, raced >>
  <2>1. (Offset(query.page, query.perPage) < 0) \in BOOLEAN
    OBVIOUS
  <2> QED
    BY <1>1, <1>3, <2>1, ShowTypes
<1>5. /\ query.page \in 1 .. MaxInt /\ query.perPage \in 1 .. MaxInt
      /\ answer.total \in Nat /\ MaxInt \in Nat /\ walk.cut \in BOOLEAN
  BY HistoryAssumption DEF Inv, TypeOK, Query, Answer, Walk
<1>6. start \in Nat /\ start + query.perPage = query.page * query.perPage
  BY <1>5
<1>7. ASSUME walk.page > 0 PROVE WalkInv'
  <2>1. WalkInv
    BY <1>7 DEF Inv
  <2>2. Offset(query.page, query.perPage) = start
    <3>1. start \in 0 .. MaxInt
      BY <1>6, <2>1 DEF WalkInv
    <3> HIDE DEF start
    <3>2. Wrap(start) = start
      BY <3>1, NoWrap
    <3> QED
      BY <3>2 DEF Offset, start
  <2>3. ASSUME ~walk.cut,
               NEW e \in walk.since, Rank(e, M) <= query.page * query.perPage
        PROVE  e \in walk'.shown
    <3>1. Rank(e, M) \in Nat
      BY <1>2, RankGrows
    <3>2. CASE Rank(e, M) <= start
      <4>1. e \in walk.shown
        BY <1>1, <2>1, <2>3, <3>2 DEF WalkInv, Reached
      <4> QED
        BY <1>4, <4>1
    <3>3. CASE start < Rank(e, M)
      <4>1. e \in M
        BY <2>1 DEF WalkInv
      <4>2. e \in WholePage
        BY <1>6, <2>2, <2>3, <3>3, <4>1 DEF WholePage, Page
      <4> QED
        BY <1>4, <4>2
    <3> QED
      BY <1>6, <3>1, <3>2, <3>3
  <2>4. walk'.cut = walk.cut /\ (~walk'.cut => Reached(query.page)')
    <3>1. ~(start < 0)
      BY <1>6
    <3>2. walk'.cut = walk.cut
      BY <1>4, <1>5, <2>2, <3>1
    <3> QED
      BY <1>4, <1>5, <2>3, <3>2 DEF Reached
  <2>5. ASSUME ~walk.cut, "page" \notin raced, ~HasNext
        PROVE  walk.since \subseteq walk'.shown
    <3>1. answer.total = Cardinality(M)
      BY <1>1, <2>1, <2>5 DEF WalkInv
    <3>2. answer.total <= query.page * query.perPage
      <4>1. query.page \in Nat /\ query.perPage \in Nat \ {0}
        BY <1>5
      <4>2. TotalPages(answer.total, query.perPage) \in Nat
        BY <1>5, <4>1, PagesCover
      <4>3. TotalPages(answer.total, query.perPage) <= query.page
        BY <4>1, <4>2, <2>5 DEF HasNext
      <4> QED
        BY <1>5, <4>1, <4>3, PagesCover
    <3> SUFFICES ASSUME NEW e \in walk.since PROVE e \in walk'.shown
      OBVIOUS
    <3>3. e \in M
      BY <2>1 DEF WalkInv
    <3>4. Rank(e, M) <= Cardinality(M) /\ Rank(e, M) \in Nat
      BY <1>2, <3>3, RankWithin, RankGrows
    <3>5. Rank(e, M) <= query.page * query.perPage
      BY <1>5, <1>6, <3>1, <3>2, <3>4
    <3> QED
      BY <2>3, <2>5, <3>5
  <2>6. HasNext' = HasNext
    BY <1>4 DEF HasNext
  <2> QED
    BY <1>4, <1>5, <2>1, <2>4, <2>5, <2>6 DEF WalkInv
<1> QED
  BY <1>4, <1>7 DEF Inv

(* Once rows are lost nothing more is promised of the walk.                *)
LEMMA RowsStopInv == ASSUME Inv, RowsStop PROVE Inv'
<1>1. PICK e \in WholePage : Show({f \in WholePage : f.at > e.at}, TRUE)
  BY DEF RowsStop
<1>2. pc = "page"
  BY DEF RowsStop
<1> DEFINE rows == {f \in WholePage : f.at > e.at}
<1>3. rows \in SUBSET Entry
  <2>1. Matching(entries, query.type) \in SUBSET Entry
    BY MatchingSubset DEF Inv, TypeOK
  <2> QED
    BY <2>1 DEF WholePage, Page
<1> HIDE DEF rows
<1>4. /\ TypeOK'
      /\ pc' = "summary" /\ answer'.kind = "none" /\ answer'.total = answer.total
      /\ walk'.page = walk.page /\ walk'.since = walk.since
      /\ walk'.cut = (walk.cut \/ TRUE)
      /\ UNCHANGED << entries, query, known, raced >>
  <2>1. Show(rows, TRUE)
    BY <1>1 DEF rows
  <2> QED
    BY <1>2, <1>3, <2>1, ShowTypes
<1>5. WalkInv => WalkInv'
  BY <1>4 DEF WalkInv
<1> QED
  BY <1>4, <1>5 DEF Inv

LEMMA SummaryInv == ASSUME Inv, GetLedgerSummary PROVE Inv'
<1> DEFINE S == Matching(entries, query.type)
           summary == [credit |-> {e \in S : e.type \in Credits},
                       debit |-> {e \in S : e.type \notin Credits}]
<1>1. /\ pc = "summary" /\ pc' = "idle"
      /\ answer' = [answer EXCEPT !.kind = "ok", !.summary = summary]
      /\ UNCHANGED << entries, query, known, raced, walk >>
  BY DEF GetLedgerSummary, Goto
<1>2. summary \in Summary
  <2>1. S \in SUBSET Entry
    BY MatchingSubset DEF Inv, TypeOK
  <2> QED
    BY <2>1 DEF Summary
<1> HIDE DEF summary
<1>3. answer' \in Answer /\ answer'.kind = "ok" /\ answer'.total = answer.total
  BY <1>1, <1>2 DEF Inv, TypeOK, Answer
<1>4. TypeOK'
  BY <1>1, <1>3 DEF Inv, TypeOK
<1>5. WalkInv => WalkInv'
  BY <1>1, <1>3 DEF WalkInv, PageRead, Reached, HasNext
<1> QED
  BY <1>1, <1>3, <1>4, <1>5 DEF Inv

LEMMA CallFailsInv == ASSUME Inv, CallFails PROVE Inv'
<1>1. /\ pc' = "idle" /\ answer' = [answer EXCEPT !.kind = "error"]
      /\ UNCHANGED << entries, query, known, raced, walk >>
  BY DEF CallFails, Goto
<1>2. answer' \in Answer /\ answer'.kind = "error" /\ answer'.total = answer.total
  BY <1>1 DEF Inv, TypeOK, Answer
<1>3. TypeOK'
  BY <1>1, <1>2 DEF Inv, TypeOK
<1>4. WalkInv => WalkInv'
  BY <1>1, <1>2 DEF WalkInv, PageRead
<1> QED
  BY <1>1, <1>2, <1>3, <1>4 DEF Inv

(* An entry more moves others to later pages, none to an earlier one.      *)
LEMMA PostInv == ASSUME Inv, Post PROVE Inv'
<1>1. PICK e \in Entry : entries' = entries \cup {e}
  BY DEF Post
<1>2. /\ walk' = [walk EXCEPT !.added = @ + 1]
      /\ UNCHANGED << pc, query, known, answer >>
      /\ raced' = raced \cup (CASE pc = "page" -> {"page", "summary"}
                              [] pc = "summary" -> {"summary"}
                              [] OTHER -> {})
  BY DEF Post
<1>3. /\ raced \subseteq raced' /\ raced' \in SUBSET {"page", "summary"}
      /\ pc = "page" => "page" \in raced'
  BY <1>2 DEF Inv, TypeOK
<1>4. /\ walk' \in Walk
      /\ walk'.page = walk.page /\ walk'.since = walk.since
      /\ walk'.shown = walk.shown /\ walk'.cut = walk.cut
  BY <1>2 DEF Inv, TypeOK, Walk
<1>5. entries' \in SUBSET Entry /\ entries \in SUBSET entries'
  BY <1>1 DEF Inv, TypeOK
<1>6. TypeOK'
  BY <1>2, <1>3, <1>4, <1>5 DEF Inv, TypeOK
<1> DEFINE M == Matching(entries, query.type)
           N == Matching(entries', query.type)
<1>7. M \in SUBSET N /\ N \in SUBSET Entry
  BY <1>5, MatchingSubset
<1>8. ASSUME NEW k \in Nat, Reached(k) PROVE Reached(k)'
  <2>1. query.perPage \in Nat
    BY HistoryAssumption DEF Inv, TypeOK, Query
  <2>2. SUFFICES ASSUME NEW f \in walk.since, Rank(f, N) <= k * query.perPage
                 PROVE  f \in walk.shown
    BY <1>2, <1>4 DEF Reached
  <2>3. Rank(f, M) <= Rank(f, N) /\ Rank(f, M) \in Nat /\ Rank(f, N) \in Nat
    BY <1>7, RankGrows
  <2>4. k * query.perPage \in Nat
    BY <2>1
  <2>5. Rank(f, M) <= k * query.perPage
    BY <2>2, <2>3, <2>4
  <2> QED
    BY <1>8, <2>5 DEF Reached
<1>9. ASSUME walk.page > 0 PROVE WalkInv'
  <2>1. WalkInv
    BY <1>9 DEF Inv
  <2>2. query.page \in Nat /\ query.page - 1 \in Nat /\ query' = query
    BY <1>2, HistoryAssumption DEF Inv, TypeOK, Query
  <2>3. walk'.since \subseteq Matching(entries, query.type)'
    BY <1>2, <1>4, <1>7, <2>1 DEF WalkInv
  <2>4. ~walk'.cut /\ pc' \in {"checkWallet", "count", "page"} =>
          Reached(query.page - 1)'
    <3>1. Reached(query.page - 1) => Reached(query.page - 1)'
      BY <1>8, <2>2 DEF Reached
    <3> QED
      BY <1>2, <1>4, <2>1, <3>1 DEF WalkInv
  <2>5. ~walk'.cut /\ PageRead' => Reached(query.page)'
    <3>1. Reached(query.page) => Reached(query.page)'
      BY <1>8, <2>2 DEF Reached
    <3> QED
      BY <1>2, <1>4, <2>1, <3>1 DEF WalkInv, PageRead
  <2>6. /\ PageRead' = PageRead /\ HasNext' = HasNext
    BY <1>2 DEF PageRead, HasNext
  <2>7. /\ walk'.page = query'.page
        /\ (query'.page - 1) * query'.perPage <= MaxInt
        /\ pc' = "page" => "page" \in raced'
    BY <1>2, <1>3, <1>4, <2>1 DEF WalkInv
  <2>8. ~walk'.cut /\ PageRead' /\ "page" \notin raced' /\ ~HasNext' =>
          walk'.since \subseteq walk'.shown
    BY <1>3, <1>4, <2>1, <2>6 DEF WalkInv
  <2> QED
    BY <2>3, <2>4, <2>5, <2>7, <2>8 DEF WalkInv
<1> QED
  BY <1>2, <1>4, <1>6, <1>9 DEF Inv

-----------------------------------------------------------------------------
(* Which entry has which rank.                                             *)

(* Entries that are not none have an oldest one.                           *)
LEMMA Oldest ==
  ASSUME NEW S \in SUBSET Entry, S # {}
  PROVE  \E e \in S : \A f \in S : e.at \in Nat /\ f.at \in Nat /\ e.at <= f.at
<1> DEFINE T == {e.at : e \in S}
<1>1. \A e \in S : e.at \in Nat
  BY HistoryAssumption DEF Entry
<1>2. T \in SUBSET Nat /\ T # {}
  BY <1>1
<1>3. PICK n \in T : \A m \in T : n <= m
  BY <1>2, LeastNumber
<1> QED
  BY <1>1, <1>3

(* Entries of different times have all the ranks up to their number.       *)
LEMMA RankTaken ==
  ASSUME NEW S \in SUBSET Entry, \A e, f \in S : e.at = f.at => e = f,
         NEW n \in Nat, n < Cardinality(S)
  PROVE  \E e \in S : Rank(e, S) = n + 1
<1> DEFINE Newer(e) == {f \in S : f.at > e.at}
           rest == {e \in S : n < Rank(e, S)}
<1>1. ASSUME NEW T \in SUBSET S
      PROVE  IsFiniteSet(T) /\ Cardinality(T) \in Nat
  <2>1. T \in SUBSET Entry
    OBVIOUS
  <2> QED
    BY <2>1, Finite
<1>2. ASSUME NEW e \in S
      PROVE  /\ Rank(e, S) = Cardinality(Newer(e)) + 1
             /\ Newer(e) \in SUBSET S /\ Rank(e, S) \in Nat /\ e.at \in Nat
  <2>1. Newer(e) \in SUBSET S
    OBVIOUS
  <2>2. Cardinality(Newer(e)) \in Nat
    BY <1>1, <2>1
  <2>3. Rank(e, S) = Cardinality(Newer(e)) + 1
    BY DEF Rank
  <2>4. e.at \in Nat
    BY HistoryAssumption DEF Entry
  <2>5. Rank(e, S) \in Nat
    BY <2>2, <2>3
  <2> QED
    BY <2>1, <2>3, <2>4, <2>5
<1>3. ASSUME NEW T \in SUBSET S, NEW g \in T, \A f \in T : g.at <= f.at,
             \A f \in S : f.at > g.at => f \in T
      PROVE  Rank(g, S) = Cardinality(T)
  <2>1. T = Newer(g) \cup {g} /\ g \notin Newer(g)
    <3>1. g.at \in Nat /\ \A f \in S : f.at \in Nat
      BY <1>2
    <3>2. ASSUME NEW f \in T, f # g PROVE f.at > g.at
      <4>1. f.at # g.at /\ g.at <= f.at
        BY <1>3, <3>2
      <4> QED
        BY <3>1, <4>1
    <3>3. ~(g.at > g.at)
      BY <3>1
    <3> QED
      BY <1>3, <3>2, <3>3
  <2>2. /\ IsFiniteSet(Newer(g))
        /\ Cardinality(Newer(g) \cup {g}) = Cardinality(Newer(g)) + 1
    BY <1>1, <1>2, <2>1, FS_AddElement
  <2> QED
    BY <1>2, <2>1, <2>2
<1>4. rest # {}
  <2>1. S # {}
    BY FS_EmptySet
  <2>2. PICK g \in S : \A f \in S : g.at <= f.at
    BY <2>1, Oldest
  <2>3. Rank(g, S) = Cardinality(S)
    BY <1>3, <2>2
  <2> QED
    BY <2>3
<1>5. PICK e \in rest : \A f \in rest : Rank(e, S) <= Rank(f, S)
  <2> DEFINE ranks == {Rank(f, S) : f \in rest}
  <2>0. \A f \in rest : Rank(f, S) \in Nat
    BY <1>2
  <2>1. ranks \in SUBSET Nat /\ ranks # {}
    <3>1. ranks \in SUBSET Nat
      BY <2>0
    <3>2. PICK g \in rest : TRUE
      BY <1>4
    <3>3. Rank(g, S) \in ranks
      BY <3>2
    <3> QED
      BY <3>1, <3>3
  <2>2. PICK k \in ranks : \A m \in ranks : k <= m
    BY <2>1, LeastNumber
  <2> QED
    BY <2>2
<1>6. ASSUME NEW f \in Newer(e) PROVE Rank(f, S) <= n
  <2>0. /\ e \in S /\ f \in S /\ f.at > e.at
        /\ e.at \in Nat /\ f.at \in Nat /\ \A g \in S : g.at \in Nat
    BY <1>2
  <2>1. Newer(f) \in SUBSET (Newer(e) \ {f}) /\ f \in S
    BY <2>0
  <2>2. /\ IsFiniteSet(Newer(e) \ {f})
        /\ Cardinality(Newer(e) \ {f}) = Cardinality(Newer(e)) - 1
    BY <1>1, <1>2, FS_RemoveElement
  <2>3. Cardinality(Newer(f)) <= Cardinality(Newer(e) \ {f})
    BY <2>1, <2>2, FS_Subset
  <2>4. /\ Rank(f, S) = Cardinality(Newer(f)) + 1 /\ Rank(f, S) \in Nat
        /\ Rank(e, S) = Cardinality(Newer(e)) + 1 /\ Rank(e, S) \in Nat
        /\ Cardinality(Newer(e)) \in Nat /\ Cardinality(Newer(f)) \in Nat
    BY <1>1, <1>2, <2>1
  <2> HIDE DEF Newer
  <2>5. ~(Rank(e, S) <= Rank(f, S))
    BY <2>2, <2>3, <2>4
  <2> QED
    BY <1>5, <2>1, <2>4, <2>5
<1>7. Cardinality(Newer(e)) <= n
  <2>1. CASE Newer(e) = {}
    BY <2>1, FS_EmptySet
  <2>2. CASE Newer(e) # {}
    <3>1. Newer(e) \in SUBSET Entry
      OBVIOUS
    <3>2. PICK g \in Newer(e) : \A f \in Newer(e) : g.at <= f.at
      BY <2>2, <3>1, Oldest
    <3>3. \A f \in S : f.at > g.at => f \in Newer(e)
      <4>1. /\ e.at \in Nat /\ g.at \in Nat /\ g.at > e.at
            /\ \A f \in S : f.at \in Nat
        BY <1>2, <3>2
      <4> QED
        BY <4>1
    <3>4. Rank(g, S) = Cardinality(Newer(e))
      BY <1>2, <1>3, <3>2, <3>3
    <3> QED
      BY <1>6, <3>4
  <2> QED
    BY <2>1, <2>2
<1> QED
  BY <1>1, <1>2, <1>5, <1>7

(* ... and no two have the same.                                           *)
LEMMA RanksDiffer ==
  ASSUME NEW S \in SUBSET Entry, NEW e \in S, NEW f \in S, e.at > f.at
  PROVE  Rank(e, S) < Rank(f, S)
<1> DEFINE Newer(g) == {h \in S : h.at > g.at}
<1>1. e.at \in Nat /\ f.at \in Nat /\ \A h \in S : h.at \in Nat
  BY HistoryAssumption DEF Entry
<1>2. /\ Newer(e) \in SUBSET Entry /\ Newer(f) \in SUBSET Entry
      /\ Newer(e) \in SUBSET (Newer(f) \ {e}) /\ e \in Newer(f)
  BY <1>1
<1>3. /\ Rank(e, S) = Cardinality(Newer(e)) + 1
      /\ Rank(f, S) = Cardinality(Newer(f)) + 1
  BY DEF Rank
<1> HIDE DEF Newer
<1>4. /\ IsFiniteSet(Newer(f)) /\ Cardinality(Newer(f)) \in Nat
      /\ Cardinality(Newer(e)) \in Nat
  BY <1>2, Finite
<1>5. /\ IsFiniteSet(Newer(f) \ {e})
      /\ Cardinality(Newer(f) \ {e}) = Cardinality(Newer(f)) - 1
  BY <1>2, <1>4, FS_RemoveElement
<1>6. Cardinality(Newer(e)) <= Cardinality(Newer(f) \ {e})
  BY <1>2, <1>5, FS_Subset
<1> QED
  BY <1>3, <1>4, <1>5, <1>6

(* A page has no more rows than its size, ...                              *)
LEMMA PageAtMost ==
  ASSUME NEW S \in SUBSET Entry, \A e, f \in S : e.at = f.at => e = f,
         NEW a \in Nat, NEW n \in Nat, NEW T \in SUBSET S,
         \A e \in T : a < Rank(e, S) /\ Rank(e, S) <= a + n
  PROVE  Cardinality(T) <= n
<1> DEFINE rank == [e \in T |-> Rank(e, S)]
<1>1. \A e \in S : Rank(e, S) \in Nat /\ e.at \in Nat
  BY RankGrows, HistoryAssumption DEF Entry
<1>2. ASSUME NEW e \in T, NEW f \in T, Rank(e, S) = Rank(f, S)
      PROVE  e = f
  <2>1. e.at = f.at \/ e.at > f.at \/ f.at > e.at
    BY <1>1
  <2>2. ~(e.at > f.at) /\ ~(f.at > e.at)
    BY <1>1, <1>2, RanksDiffer
  <2> QED
    BY <2>1, <2>2
<1>3. rank \in Injection(T, a + 1 .. a + n)
  <2>1. \A e \in T : Rank(e, S) \in a + 1 .. a + n
    BY <1>1
  <2> QED
    BY <1>2, <2>1 DEF Injection, IsInjective
<1>4. /\ IsFiniteSet(a + 1 .. a + n)
      /\ Cardinality(a + 1 .. a + n) = n
  <2>1. a + 1 \in Int /\ a + n \in Int
    OBVIOUS
  <2>2. (IF a + 1 > a + n THEN 0 ELSE (a + n) - (a + 1) + 1) = n
    OBVIOUS
  <2> QED
    BY <2>1, <2>2, FS_Interval
<1> QED
  BY <1>3, <1>4, FS_Injection

(* ... and no fewer, as long as there are entries.                         *)
LEMMA PageAtLeast ==
  ASSUME NEW S \in SUBSET Entry, \A e, f \in S : e.at = f.at => e = f,
         NEW a \in Nat, NEW n \in Nat, a + n <= Cardinality(S)
  PROVE  n <= Cardinality({e \in S : a < Rank(e, S) /\ Rank(e, S) <= a + n})
<1> DEFINE T == {e \in S : a < Rank(e, S) /\ Rank(e, S) <= a + n}
           rank == [e \in T |-> Rank(e, S)]
<1>1. \A e \in S : Rank(e, S) \in Nat
  BY RankGrows
<1>2. ASSUME NEW k \in a + 1 .. a + n PROVE \E e \in T : Rank(e, S) = k
  <2>1. k - 1 \in Nat /\ k - 1 < Cardinality(S) /\ k - 1 + 1 = k
    <3>1. Cardinality(S) \in Nat
      BY Finite
    <3> QED
      BY <3>1
  <2>2. PICK e \in S : Rank(e, S) = k
    BY <2>1, RankTaken
  <2> QED
    BY <2>2
<1>3. rank \in Surjection(T, a + 1 .. a + n)
  <2>1. \A e \in T : Rank(e, S) \in a + 1 .. a + n
    BY <1>1
  <2> QED
    BY <1>2, <2>1 DEF Surjection
<1>4. IsFiniteSet(T) /\ Cardinality(T) \in Nat
  <2>1. T \in SUBSET Entry
    OBVIOUS
  <2> QED
    BY <2>1, Finite
<1>5. Cardinality(a + 1 .. a + n) = n
  <2>1. a + 1 \in Int /\ a + n \in Int
    OBVIOUS
  <2>2. (IF a + 1 > a + n THEN 0 ELSE (a + n) - (a + 1) + 1) = n
    OBVIOUS
  <2> QED
    BY <2>1, <2>2, FS_Interval
<1>6. Cardinality(a + 1 .. a + n) <= Cardinality(T)
  BY <1>3, <1>4, FS_Surjection
<1> QED
  BY <1>5, <1>6

(* An entry more pushes the others back by one at most.                    *)
LEMMA PushedByOne ==
  ASSUME NEW S \in SUBSET Entry, NEW T \in SUBSET Entry, NEW x,
         T \subseteq S \cup {x}, NEW e
  PROVE  Rank(e, T) <= Rank(e, S) + 1
<1> DEFINE Newer(U) == {f \in U : f.at > e.at}
<1>1. Newer(S) \in SUBSET Entry /\ Newer(T) \in SUBSET Entry
  OBVIOUS
<1>2. Newer(T) \in SUBSET (Newer(S) \cup {x})
  OBVIOUS
<1>3. Rank(e, T) = Cardinality(Newer(T)) + 1 /\ Rank(e, S) = Cardinality(Newer(S)) + 1
  BY DEF Rank
<1> HIDE DEF Newer
<1>4. /\ IsFiniteSet(Newer(S)) /\ Cardinality(Newer(S)) \in Nat
      /\ Cardinality(Newer(T)) \in Nat
  BY <1>1, Finite
<1>5. /\ IsFiniteSet(Newer(S) \cup {x})
      /\ Cardinality(Newer(S) \cup {x}) <= Cardinality(Newer(S)) + 1
      /\ Cardinality(Newer(S) \cup {x}) \in Nat
  <2>1. CASE x \in Newer(S)
    <3> DEFINE more == Newer(S) \cup {x}
    <3>1. more = Newer(S)
      BY <2>1
    <3> HIDE DEF more
    <3>2. /\ IsFiniteSet(more) /\ Cardinality(more) \in Nat
          /\ Cardinality(more) <= Cardinality(Newer(S)) + 1
      BY <1>4, <3>1
    <3> QED
      BY <3>2 DEF more
  <2>2. CASE x \notin Newer(S)
    BY <1>4, <2>2, FS_AddElement
  <2> QED
    BY <2>1, <2>2
<1>6. Cardinality(Newer(T)) <= Cardinality(Newer(S) \cup {x})
  BY <1>2, <1>5, FS_Subset
<1> QED
  BY <1>3, <1>4, <1>5, <1>6

-----------------------------------------------------------------------------
(* PagesInv.                                                               *)

LEMMA Sizes ==
  ASSUME TypeOK
  PROVE  /\ Rows \in SUBSET Entry /\ Rows \subseteq entries
         /\ IsFiniteSet(Rows) /\ Cardinality(Rows) \in 0 .. MaxInt
         /\ query.page \in Nat \ {0} /\ query.perPage \in Nat \ {0}
         /\ Before \in Nat /\ Before + query.perPage = query.page * query.perPage
         /\ MaxInt \in Nat /\ answer.total \in Nat
<1>1. Rows \in SUBSET Entry /\ Rows \subseteq entries
  BY MatchingSubset DEF TypeOK, Rows
<1>2. query.page \in Nat \ {0} /\ query.perPage \in Nat \ {0}
  BY HistoryAssumption DEF TypeOK, Query
<1>3. Before \in Nat /\ Before + query.perPage = query.page * query.perPage
  BY <1>2 DEF Before
<1> QED
  BY <1>1, <1>2, <1>3, Finite, HistoryAssumption DEF TypeOK, Answer

(* A request that starts anew, with nothing shown on its walk.             *)
LEMMA StartPages ==
  ASSUME PagesInv, pc' = "checkWallet", answer' = NoAnswer, entries' = entries,
         walk'.shown = {}, walk'.rows = 0, walk'.added = 0, walk'.linked = FALSE
  PROVE  PagesInv'
<1>1. answer'.kind = "none" /\ Cardinality({}) = 0
  BY FS_EmptySet DEF NoAnswer
<1> QED
  BY <1>1 DEF PagesInv, StampsDiffer, CountFits, PageRead,
     PartsAgree, LinkFits, ShownFits

LEMMA AskPages == ASSUME PagesInv, Ask PROVE PagesInv'
BY StartPages DEF Ask, Start, NoWalk

LEMMA FollowPages == ASSUME Inv, PagesInv, Follow PROVE PagesInv'
<1>1. PICK page \in Links :
        /\ Start(PageOf(page), query.perPage, query.type)
        /\ walk' = IF page = query.page + 1 /\ HasNext
                   THEN [walk EXCEPT !.page = IF @ = 0 THEN 0 ELSE page,
                                     !.linked = TRUE]
                   ELSE NoWalk
  BY DEF Follow
<1>2. pc' = "checkWallet" /\ answer' = NoAnswer /\ entries' = entries
  BY <1>1 DEF Start
<1>3. CASE ~(page = query.page + 1 /\ HasNext)
  <2>1. walk' = NoWalk
    BY <1>1, <1>3
  <2> QED
    BY <1>2, <2>1, StartPages DEF NoWalk
<1>4. CASE page = query.page + 1 /\ HasNext
  <2>1. /\ query.page * query.perPage < answer.total
        /\ query.page * query.perPage <= MaxInt
        /\ page \in 1 .. MaxInt
    BY <1>4, NextLink
  <2>2. PageOf(page) = page
    BY <2>1, QueryRanges
  <2>3. /\ query'.page = page /\ query'.perPage = query.perPage
        /\ query'.type = query.type
    BY <1>1, <2>2 DEF Start
  <2>4. /\ walk'.shown = walk.shown /\ walk'.rows = walk.rows
        /\ walk'.added = walk.added
    BY <1>1, <1>4 DEF Inv, TypeOK, Walk
  <2>5. Rows' = Rows
    BY <1>2, <2>3 DEF Rows
  <2>6. Before' = query.page * query.perPage
    BY <1>4, <2>3, Sizes DEF Before, Inv
  <2>7. PageRead /\ ~PageRead' /\ answer'.kind = "none"
    BY <1>2 DEF Follow, PageRead, NoAnswer
  <2>8. Before' < Cardinality(Rows)'
    BY <2>1, <2>5, <2>6, <2>7, Sizes DEF PagesInv, CountFits, Inv
  <2>9. Before <= MaxInt
    BY <2>1, Sizes DEF Inv
  <2>10. ShownBefore(query.page * query.perPage)
    BY <2>7, <2>9, Sizes DEF PagesInv, ShownFits, Inv
  <2>11. ShownBefore(Before)'
    BY <2>1, <2>4, <2>5, <2>6, <2>10 DEF ShownBefore
  <2> QED
    BY <1>2, <2>4, <2>7, <2>8, <2>11 DEF PagesInv, StampsDiffer, CountFits,
       PartsAgree, LinkFits, ShownFits
<1> QED
  BY <1>3, <1>4

LEMMA CheckWalletPages == ASSUME Inv, PagesInv, CheckWallet PROVE PagesInv'
<1>1. /\ pc = "checkWallet" /\ answer.kind = "none"
      /\ UNCHANGED << entries, query, known, raced, walk >>
      /\ Rows' = Rows /\ Before' = Before
  BY DEF CheckWallet, Inv, Rows, Before
<1>2. \/ pc' = "count" /\ answer' = answer
      \/ pc' = "idle" /\ answer'.kind = "error"
  BY DEF CheckWallet, Goto, Inv, TypeOK, Answer
<1> QED
  BY <1>1, <1>2 DEF PagesInv, StampsDiffer, CountFits, PageRead,
     PartsAgree, LinkFits, ShownFits, ShownBefore

LEMMA CountPages ==
  ASSUME Inv, PagesInv, CountLedgerByWalletID
  PROVE  PagesInv'
<1>1. /\ pc = "count" /\ pc' = "page" /\ answer.kind = "none"
      /\ UNCHANGED << entries, query, known, raced, walk >>
      /\ Rows' = Rows /\ Before' = Before
  BY DEF CountLedgerByWalletID, Goto, Inv, Rows, Before
<1>2. answer'.kind = "none" /\ answer'.total = Cardinality(Rows)
  BY <1>1 DEF CountLedgerByWalletID, Inv, TypeOK, Answer, Rows
<1> QED
  BY <1>1, <1>2, Sizes DEF PagesInv, StampsDiffer, CountFits, PageRead,
     PartsAgree, LinkFits, ShownFits, ShownBefore, Inv

(* An offset within an int is the number of rows before the page.          *)
LEMMA OffsetFits ==
  ASSUME TypeOK, Before <= MaxInt
  PROVE  Offset(query.page, query.perPage) = Before
<1>1. Before \in 0 .. MaxInt
  BY Sizes
<1>2. Wrap(Before) = Before
  BY <1>1, NoWrap
<1> QED
  BY <1>2 DEF Offset, Before

(* What the statement for the page reads.                                  *)
LEMMA PageRows ==
  ASSUME TypeOK
  PROVE  /\ WholePage \subseteq Rows
         /\ Before <= MaxInt =>
              WholePage = {e \in Rows : /\ Before < Rank(e, Rows)
                                        /\ Rank(e, Rows) <= Before + query.perPage}
<1>1. WholePage = Page(Rows, query.perPage, Offset(query.page, query.perPage))
  BY DEF WholePage, Rows
<1> QED
  BY <1>1, Sizes, OffsetFits DEF Page

(* The page, or the first of its rows.                                     *)
LEMMA ShowPages ==
  ASSUME Inv, PagesInv, pc = "page", NEW rows \in SUBSET WholePage,
         NEW cut \in BOOLEAN, cut \/ rows = WholePage, Show(rows, cut)
  PROVE  PagesInv'
<1>1. /\ pc' = "summary" /\ UNCHANGED << entries, query, known, raced >>
      /\ Rows' = Rows /\ Before' = Before
  BY DEF Show, Goto, Rows, Before
<1>2. /\ answer'.kind = "none" /\ answer'.total = answer.total
      /\ answer'.data = rows
  BY DEF Show, Inv, TypeOK, Answer
<1>3. /\ walk'.page = walk.page /\ walk'.linked = walk.linked
      /\ walk'.shown = walk.shown \cup rows
      /\ walk'.rows = walk.rows + Cardinality(rows)
      /\ walk'.added = walk.added /\ walk'.cut = (walk.cut \/ cut)
  BY DEF Show, Inv, TypeOK, Walk
<1>4. /\ TypeOK /\ WholePage \subseteq Rows /\ HasNext' = HasNext
      /\ answer.kind = "none"
  BY <1>1, <1>2, PageRows DEF Inv, HasNext
<1>5. \A e \in Rows : Rank(e, Rows) \in Nat /\ Rank(e, Rows) <= Cardinality(Rows)
  BY <1>4, Sizes, RankGrows, RankWithin
<1>6. \A e, f \in Rows : e.at = f.at => e = f
  BY <1>4, Sizes DEF PagesInv, StampsDiffer
<1>7. CountFits'
  <2>1. ASSUME rows = WholePage, NEW n \in 1 .. query.perPage,
               Before + n <= answer.total
        PROVE  n <= Cardinality(rows)
    <3>1. n \in Nat /\ Before + n <= Cardinality(Rows) /\ Before <= MaxInt
      BY <1>4, <2>1, Sizes DEF PagesInv, CountFits
    <3> DEFINE first == {e \in Rows : /\ Before < Rank(e, Rows)
                                      /\ Rank(e, Rows) <= Before + n}
    <3>2. first \subseteq rows
      BY <1>4, <1>5, <2>1, <3>1, Sizes, PageRows
    <3>3. n <= Cardinality(first)
      BY <1>4, <1>6, <3>1, Sizes, PageAtLeast
    <3>4. rows \in SUBSET Entry /\ first \in SUBSET Entry
      BY <1>4, Sizes
    <3> HIDE DEF first
    <3>5. IsFiniteSet(rows) /\ Cardinality(rows) \in Nat /\ Cardinality(first) \in Nat
      BY <3>4, Finite
    <3>6. Cardinality(first) <= Cardinality(rows)
      BY <3>2, <3>5, FS_Subset
    <3> QED
      BY <3>1, <3>3, <3>5, <3>6
  <2>2. ~walk'.cut => PageFull'
    BY <1>1, <1>2, <1>3, <2>1 DEF PageFull
  <2>3. answer'.data \subseteq Rows'
    BY <1>1, <1>2, <1>4
  <2> QED
    BY <1>1, <1>2, <2>2, <2>3 DEF PagesInv, CountFits, PageRead
<1>8. LinkFits'
  <2>1. ASSUME walk.linked PROVE Before < Cardinality(Rows)
    BY <1>4, <2>1 DEF PagesInv, LinkFits
  <2>2. ASSUME walk.linked, ~cut PROVE rows # {}
    <3>1. PICK e \in Rows : Rank(e, Rows) = Before + 1
      BY <1>4, <1>6, <2>1, <2>2, Sizes, RankTaken
    <3>2. Before <= MaxInt /\ Before < Before + 1
          /\ Before + 1 <= Before + query.perPage
      BY <1>4, <2>1, <2>2, Sizes
    <3>3. e \in WholePage
      BY <1>4, <3>1, <3>2, PageRows
    <3> QED
      BY <2>2, <3>3
  <2> QED
    BY <1>1, <1>2, <1>3, <2>1, <2>2 DEF LinkFits
<1>9. ShownFits'
  <2>1. /\ walk.rows \in Nat /\ walk.added \in Nat
        /\ walk.shown \in SUBSET Entry /\ rows \in SUBSET Entry
    BY <1>4, Sizes DEF TypeOK, Walk
  <2>2. /\ IsFiniteSet(walk.shown) /\ IsFiniteSet(rows)
        /\ Cardinality(walk.shown) \in Nat /\ Cardinality(rows) \in Nat
        /\ walk.shown \cap rows \in SUBSET Entry
    BY <2>1, Finite
  <2>3. /\ Cardinality(walk.shown \cap rows) \in Nat
        /\ Cardinality(walk.shown \cup rows) =
             Cardinality(walk.shown) + Cardinality(rows)
               - Cardinality(walk.shown \cap rows)
    <3>1. Cardinality(walk.shown \cap rows) \in Nat
      BY <2>2, Finite
    <3> QED
      BY <2>2, <3>1, FS_Union
  <2>4. CASE Before > MaxInt
    <3>1. walk.shown = {} /\ walk.rows = 0
      BY <1>4, <2>4, Sizes DEF PagesInv, ShownFits, ShownBefore
    <3>2. walk.shown \cup rows = rows
      BY <3>1
    <3>3. walk'.rows <= Cardinality(walk'.shown) + walk'.added
      BY <1>3, <2>1, <2>2, <3>1, <3>2
    <3> QED
      BY <1>1, <2>4, <3>3 DEF ShownFits
  <2>5. CASE Before <= MaxInt
    <3>1. PICK d \in 0 .. walk.added :
            /\ walk.rows + d <= Cardinality(walk.shown) + walk.added
            /\ walk.shown \subseteq {e \in Rows : Rank(e, Rows) <= Before + d}
      <4>1. CASE walk.shown = {} /\ walk.rows = 0
        <5>1. /\ 0 \in 0 .. walk.added
              /\ walk.rows + 0 <= Cardinality(walk.shown) + walk.added
              /\ walk.shown \subseteq {e \in Rows : Rank(e, Rows) <= Before + 0}
          BY <2>1, <2>2, <4>1
        <5> QED
          BY <5>1
      <4>2. CASE ShownBefore(Before)
        BY <4>2 DEF ShownBefore
      <4> QED
        BY <4>1, <4>2 DEF PagesInv, ShownFits
    <3> DEFINE m == IF d < query.perPage THEN d ELSE query.perPage
    <3>2. /\ query.perPage \in Nat /\ Before \in Nat /\ d \in Nat /\ m \in Nat
          /\ m <= d /\ m <= query.perPage
          /\ d - m \in 0 .. walk.added /\ d - m \in Nat
          /\ query.page * query.perPage = Before + query.perPage
          /\ query.page * query.perPage \in Nat
      BY <1>4, <2>1, Sizes
    <3>3. \A e \in rows : /\ e \in Rows /\ Before < Rank(e, Rows)
                           /\ Rank(e, Rows) <= Before + query.perPage
      BY <1>4, <2>5, PageRows
    <3>4. Cardinality(walk.shown \cap rows) <= m
      <4>1. \A e \in walk.shown \cap rows :
              /\ e \in Rows
              /\ Before < Rank(e, Rows) /\ Rank(e, Rows) <= Before + m
        BY <3>1, <3>3
      <4>2. walk.shown \cap rows \in SUBSET Rows
        BY <4>1
      <4> HIDE DEF m
      <4> QED
        BY <1>4, <1>6, <3>2, <4>1, <4>2, Sizes, PageAtMost
    <3>5. walk'.rows + (d - m) <= Cardinality(walk'.shown) + walk'.added
      <4> HIDE DEF m
      <4> QED
        BY <1>3, <2>1, <2>2, <2>3, <3>1, <3>2, <3>4
    <3>6. walk'.shown \subseteq
            {e \in Rows : Rank(e, Rows) <= query.page * query.perPage + (d - m)}
      <4>1. ASSUME NEW e \in walk.shown
            PROVE  /\ e \in Rows
                   /\ Rank(e, Rows) <= query.page * query.perPage + (d - m)
        <5>1. /\ e \in Rows /\ Rank(e, Rows) \in Nat
              /\ Rank(e, Rows) <= Before + d
          BY <1>5, <3>1, <4>1
        <5> HIDE DEF m
        <5> QED
          BY <3>2, <5>1
      <4>2. ASSUME NEW e \in rows
            PROVE  /\ e \in Rows
                   /\ Rank(e, Rows) <= query.page * query.perPage + (d - m)
        <5>1. /\ e \in Rows /\ Rank(e, Rows) \in Nat
              /\ Rank(e, Rows) <= Before + query.perPage
          BY <1>5, <3>3, <4>2
        <5> HIDE DEF m
        <5> QED
          BY <3>2, <5>1
      <4> QED
        BY <1>3, <4>1, <4>2
    <3>7. ShownBefore(query.page * query.perPage)'
      <4> HIDE DEF m
      <4> QED
        BY <1>1, <1>3, <2>5, <3>2, <3>5, <3>6 DEF ShownBefore
    <3>8. walk'.rows <= Cardinality(walk'.shown) + walk'.added
      <4>1. walk.shown \cup rows \in SUBSET Entry
        BY <2>1
      <4>2. Cardinality(walk'.shown) \in Nat
        BY <1>3, <4>1, Finite
      <4> HIDE DEF m
      <4> QED
        BY <1>3, <2>1, <2>2, <3>2, <3>5, <4>2
    <3> QED
      BY <1>1, <3>7, <3>8 DEF ShownFits
  <2> QED
    BY <1>4, <2>4, <2>5, Sizes
<1> QED
  BY <1>1, <1>2, <1>7, <1>8, <1>9
  DEF PagesInv, StampsDiffer, PartsAgree

LEMMA PagePages ==
  ASSUME Inv, PagesInv, GetLedgerByWalletID \/ RowsStop
  PROVE  PagesInv'
<1>1. CASE GetLedgerByWalletID
  <2>1. /\ pc = "page" /\ Show(WholePage, Offset(query.page, query.perPage) < 0)
        /\ (Offset(query.page, query.perPage) < 0) \in BOOLEAN
        /\ WholePage \in SUBSET WholePage
    BY <1>1 DEF GetLedgerByWalletID
  <2> QED
    BY <2>1, ShowPages
<1>2. CASE RowsStop
  <2>1. PICK e \in WholePage : Show({f \in WholePage : f.at > e.at}, TRUE)
    BY <1>2 DEF RowsStop
  <2>2. pc = "page" /\ {f \in WholePage : f.at > e.at} \in SUBSET WholePage
    BY <1>2 DEF RowsStop
  <2> QED
    BY <2>1, <2>2, ShowPages
<1> QED
  BY <1>1, <1>2

LEMMA SummaryPages == ASSUME Inv, PagesInv, GetLedgerSummary PROVE PagesInv'
<1>1. /\ pc = "summary" /\ pc' = "idle" /\ PageRead
      /\ UNCHANGED << entries, query, known, raced, walk >>
      /\ Rows' = Rows /\ Before' = Before
  BY DEF GetLedgerSummary, Goto, Rows, Before, PageRead
<1>2. /\ answer'.kind = "ok" /\ answer'.total = answer.total
      /\ answer'.data = answer.data
      /\ answer'.summary = [credit |-> {e \in Rows : e.type \in Credits},
                            debit |-> {e \in Rows : e.type \notin Credits}]
  BY DEF GetLedgerSummary, Inv, TypeOK, Answer, Rows
<1>3. answer'.summary.credit \cup answer'.summary.debit = Rows
  BY <1>2
<1>4. HasNext' = HasNext
  BY <1>1, <1>2 DEF HasNext
<1>5. PartsAgree'
  BY <1>1, <1>2, <1>3, <1>4 DEF PagesInv, CountFits, PartsAgree, PageFull, Before
<1>6. CountFits' /\ LinkFits' /\ ShownFits'
  <2>1. answer.kind = "none"
    BY <1>1 DEF Inv
  <2> QED
    BY <1>1, <1>2, <2>1 DEF PagesInv, CountFits, LinkFits, ShownFits,
       ShownBefore, PageRead
<1> QED
  BY <1>1, <1>5, <1>6 DEF PagesInv, StampsDiffer

LEMMA CallFailsPages == ASSUME Inv, PagesInv, CallFails PROVE PagesInv'
<1>1. /\ pc' = "idle" /\ UNCHANGED << entries, query, known, raced, walk >>
      /\ answer'.kind = "error"
  BY DEF CallFails, Goto, Inv, TypeOK, Answer
<1> QED
  BY <1>1 DEF PagesInv, StampsDiffer, CountFits, PartsAgree, LinkFits,
     ShownFits, PageRead

(* An entry more only makes room for more pages.                           *)
LEMMA PostPages == ASSUME Inv, PagesInv, Post PROVE PagesInv'
<1>1. PICK e \in Entry : /\ \A f \in entries : f.at # e.at
                         /\ entries' = entries \cup {e}
  BY DEF Post
<1>2. /\ UNCHANGED << pc, query, known, answer >>
      /\ walk' = [walk EXCEPT !.added = @ + 1]
      /\ raced' = raced \cup (CASE pc = "page" -> {"page", "summary"}
                              [] pc = "summary" -> {"summary"}
                              [] OTHER -> {})
  BY DEF Post
<1>3. /\ pc \in {"page", "summary"} => raced' # {}
      /\ pc = "idle" => raced' = raced
  BY <1>2
<1>4. /\ walk'.added = walk.added + 1 /\ walk'.linked = walk.linked
      /\ walk'.rows = walk.rows /\ walk'.shown = walk.shown
      /\ walk'.page = walk.page /\ walk'.cut = walk.cut
      /\ walk.added \in Nat /\ walk.rows \in Nat /\ walk.shown \in SUBSET Entry
  BY <1>2 DEF Inv, TypeOK, Walk
<1>5. /\ Rows \in SUBSET Entry /\ Rows' \in SUBSET Entry
      /\ Rows \subseteq Rows' /\ Rows' \subseteq Rows \cup {e}
  <2>1. entries' \in SUBSET Entry /\ entries \in SUBSET entries'
    BY <1>1 DEF Inv, TypeOK
  <2>2. Rows' \in SUBSET Entry /\ Rows \in SUBSET Rows'
    BY <1>2, <2>1, MatchingSubset DEF Rows
  <2> QED
    BY <1>1, <1>2, <2>2 DEF Rows, Matching
<1>6. /\ Cardinality(Rows) \in Nat /\ Cardinality(Rows)' \in Nat
       /\ Cardinality(Rows) <= Cardinality(Rows)'
       /\ Before' = Before /\ Before \in Nat /\ answer.total \in Nat
  <2>1. /\ IsFiniteSet(Rows') /\ Cardinality(Rows') \in Nat
        /\ Cardinality(Rows) \in Nat
    BY <1>5, Finite
  <2>2. Cardinality(Rows) <= Cardinality(Rows')
    BY <1>5, <2>1, FS_Subset
  <2> QED
    BY <1>2, <2>1, <2>2, Sizes DEF Inv, Before
<1>7. StampsDiffer'
  BY <1>1 DEF PagesInv, StampsDiffer
<1>8. CountFits'
  BY <1>2, <1>3, <1>4, <1>5, <1>6 DEF PagesInv, CountFits, PageRead, PageFull, Before
<1>9. LinkFits'
  BY <1>2, <1>4, <1>6 DEF PagesInv, LinkFits, PageRead
<1>10. PartsAgree'
  <2>1. answer.kind = "ok" => pc = "idle"
    BY DEF Inv
  <2> QED
    BY <1>2, <1>3, <1>4, <2>1 DEF PagesInv, PartsAgree, PageFull, Before
<1>11. ShownFits'
  <2>1. Cardinality(walk.shown) \in Nat
    BY <1>4, Finite
  <2>2. ASSUME NEW n \in Nat, ShownBefore(n) PROVE ShownBefore(n)'
    <3>1. PICK d \in 0 .. walk.added :
            /\ walk.rows + d <= Cardinality(walk.shown) + walk.added
            /\ walk.shown \subseteq {f \in Rows : Rank(f, Rows) <= n + d}
      BY <2>2 DEF ShownBefore
    <3>2. \A f \in walk.shown : f \in Rows' /\ Rank(f, Rows') <= n + (d + 1)
      <4> SUFFICES ASSUME NEW f \in walk.shown
                   PROVE  f \in Rows' /\ Rank(f, Rows') <= n + (d + 1)
        OBVIOUS
      <4>1. f \in Rows /\ Rank(f, Rows) <= n + d
        BY <3>1
      <4>2. Rank(f, Rows') <= Rank(f, Rows) + 1
        BY <1>5, PushedByOne
      <4>3. Rank(f, Rows) \in Nat /\ Rank(f, Rows') \in Nat
        BY <1>5, RankGrows
      <4> QED
        BY <1>5, <4>1, <4>2, <4>3
    <3>3. /\ d + 1 \in 0 .. walk'.added
          /\ walk'.rows + (d + 1) <= Cardinality(walk'.shown) + walk'.added
      BY <1>4, <2>1, <3>1
    <3> QED
      BY <1>2, <1>4, <1>6, <2>2, <3>2, <3>3 DEF ShownBefore
  <2>3. Before \in Nat /\ query.page * query.perPage \in Nat
    BY Sizes DEF Inv
  <2>4. /\ ShownBefore(Before) => ShownBefore(Before)'
        /\ ShownBefore(query.page * query.perPage) =>
             ShownBefore(query.page * query.perPage)'
    BY <1>2, <1>6, <2>2, <2>3 DEF ShownBefore
  <2>5. walk'.rows <= Cardinality(walk'.shown) + walk'.added
    BY <1>4, <2>1 DEF PagesInv, ShownFits
  <2> QED
    BY <1>2, <1>4, <1>6, <2>4, <2>5 DEF PagesInv, ShownFits, PageRead
<1> QED
  BY <1>7, <1>8, <1>9, <1>10, <1>11 DEF PagesInv

LEMMA PagesInit == Init => PagesInv
BY FS_EmptySet DEF Init, PagesInv, StampsDiffer, CountFits, PageRead,
   PartsAgree, LinkFits, ShownFits, NoAnswer, NoWalk

LEMMA PagesNext == ASSUME Inv, PagesInv, [Next]_vars PROVE PagesInv'
<1>1. CASE UNCHANGED vars
  BY <1>1 DEF vars, PagesInv, StampsDiffer, CountFits, PageRead, PageFull,
     PartsAgree, LinkFits, ShownFits, ShownBefore, Rows, Before
<1> QED
  BY <1>1, AskPages, FollowPages, CheckWalletPages, CountPages, PagePages,
     SummaryPages, CallFailsPages, PostPages
  DEF Next

-----------------------------------------------------------------------------
(* The invariant, of every reachable state.                                *)
THEOREM HistoryInvariance == Spec => []Inv
<1>1. Inv /\ [Next]_vars => Inv'
  <2> SUFFICES ASSUME Inv, [Next]_vars PROVE Inv'
    OBVIOUS
  <2>1. CASE UNCHANGED vars
    BY <2>1 DEF vars, Inv, TypeOK, WalkInv, PageRead, Reached, HasNext
  <2> QED
    BY <2>1, AskInv, FollowInv, CheckWalletInv, CountInv, PageInv, RowsStopInv,
       SummaryInv, CallFailsInv, PostInv
       DEF Next
<1> QED
  BY InvInit, <1>1, PTL DEF Spec

(* The types: in particular, no page number or size that reaches the
   statements is less than 1, whatever integers the query has.             *)
THEOREM HistoryTypeCorrect == Spec => []TypeOK
<1>1. Inv => TypeOK
  BY DEF Inv
<1> QED
  BY HistoryInvariance, <1>1, PTL

(* Following "next" from the first page to the last misses no entry that was
   there at the start (WalkShowsAll), whatever the ledger, the page size, the
   filter, the width of ints and what is committed meanwhile.              *)
THEOREM WalkMissesNothing == Spec => []WalkShowsAll
<1>1. Inv => WalkShowsAll
  BY DEF Inv, WalkInv, WalkShowsAll, WalkOver, PageRead
<1> QED
  BY HistoryInvariance, <1>1, PTL

(* The second invariant, of every reachable state.                         *)
THEOREM PagesInvariance == Spec => []PagesInv
BY PagesInit, PagesNext, HistoryInvariance, PTL DEF Spec

(* A client is given no more rows again than entries were added during its
   walk (RepeatsNeedCommits), even where rows are lost or the offset of its
   first request overflows.                                                *)
THEOREM NothingTwice == Spec => []RepeatsNeedCommits
<1>1. PagesInv => RepeatsNeedCommits
  BY DEF PagesInv, ShownFits, RepeatsNeedCommits
<1> QED
  BY PagesInvariance, <1>1, PTL

(* The count, the page and the sums of an answer agree as far as commits
   between the statements they were read by allow (PartsAgree).            *)
THEOREM AnswersAgree == Spec => []PartsAgree
<1>1. PagesInv => PartsAgree
  BY DEF PagesInv
<1> QED
  BY PagesInvariance, <1>1, PTL

(* Whoever follows a "next" link is given entries (NextLeadsToEntries): none
   is past the end and none overflows, at every width of ints.             *)
THEOREM NextIsNeverEmpty == Spec => []NextLeadsToEntries
<1>1. Inv /\ PagesInv => NextLeadsToEntries
  <2> SUFFICES ASSUME Inv, PagesInv, answer.kind = "ok", walk.linked
               PROVE  /\ Offset(query.page, query.perPage) = Before
                      /\ ~walk.cut => answer.data # {}
    BY DEF NextLeadsToEntries
  <2>1. Before < Cardinality(Rows) /\ (~walk.cut => answer.data # {})
    BY DEF PagesInv, LinkFits, PageRead
  <2>2. Before <= MaxInt
    BY <2>1, Sizes DEF Inv
  <2> QED
    BY <2>1, <2>2, OffsetFits DEF Inv
<1> QED
  BY HistoryInvariance, PagesInvariance, <1>1, PTL
=============================================================================
