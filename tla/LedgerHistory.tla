--------------------------- MODULE LedgerHistory ---------------------------
(***************************************************************************)
(* GET /wallets/{id}/transactions: one client that walks through the       *)
(* history of one wallet, page by page, while other requests go on         *)
(* committing entries to its ledger.                                       *)
(*                                                                         *)
(* Each answer is put together from four statements, each with a snapshot  *)
(* of its own: the wallet, the count, the page and the summary.  Readers   *)
(* share nothing, so one client stands for any number of them.             *)
(*                                                                         *)
(* A page is a set of entries: the newest first, an entry is on it for its *)
(* rank.  The amounts are left out; a summary is the entries that each of  *)
(* its sums is over.                                                       *)
(*                                                                         *)
(* Some definitions are preceded by one like them with a plausible         *)
(* mistake, with which a property fails; nothing uses those.               *)
(***************************************************************************)
EXTENDS Integers, FiniteSets

CONSTANTS
  Types,         \* the types of ledger entries
  Credits,       \* those with a positive amount
  NoType,        \* the empty filter
  Stamps,        \* the values of created_at
  MaxInt,        \* the largest int
  Pages,         \* the page numbers clients write in a query
  PerPages,      \* the page sizes they write
  CallsMayFail   \* TRUE: a statement may fail, or its rows stop coming

(* The columns of a row that matter.                                       *)
Entry == [at : Stamps, type : Types]

(* COUNT( * ) fits in an int, and so does the default page size.           *)
ASSUME HistoryAssumption ==
  /\ Credits \subseteq Types
  /\ NoType \notin Types
  /\ Stamps \subseteq Nat
  /\ IsFiniteSet(Entry)
  /\ MaxInt \in Nat
  /\ 10 <= MaxInt /\ Cardinality(Entry) <= MaxInt
  /\ Pages \subseteq Int
  /\ PerPages \subseteq Int
  /\ CallsMayFail \in BOOLEAN

VARIABLES
  entries,  \* the committed rows of the wallet's ledger
  pc,       \* where the handler is
  query,    \* page, perPage and txType, as the handler understands them
  known,    \* whether the id in the request is that of the wallet
  answer,   \* the answer: the last one, or the one in preparation
  (* What the properties need to remember; the program keeps none of it.   *)
  raced,    \* the statements that saw more than the count saw
  walk      \* the walk along the "next" links that the request is part of

vars == << entries, pc, query, known, answer, raced, walk >>

Query == [page : 1 .. MaxInt, perPage : 1 .. MaxInt, type : Types \cup {NoType}]

Summary == [credit : SUBSET Entry, debit : SUBSET Entry]

Answer ==
  [kind : {"none", "ok", "error"}, total : Nat, data : SUBSET Entry,
   summary : Summary]

NoAnswer ==
  [kind |-> "none", total |-> 0, data |-> {},
   summary |-> [credit |-> {}, debit |-> {}]]

(* since: the entries at the walk's first request; shown: those it has been
   given, rows of them; added: how many came since; cut: the rows of a page
   ended in an error; linked: the request came from a "next" link.         *)
Walk ==
  [page : 0 .. MaxInt, since : SUBSET Entry, shown : SUBSET Entry, rows : Nat,
   added : Nat, cut : BOOLEAN, linked : BOOLEAN]

NoWalk ==
  [page |-> 0, since |-> {}, shown |-> {}, rows |-> 0,
   added |-> 0, cut |-> FALSE, linked |-> FALSE]

Init ==
  /\ entries = {}
  /\ pc = "idle"
  /\ query = [page |-> 1, perPage |-> 10, type |-> NoType]
  /\ known = TRUE
  /\ answer = NoAnswer
  /\ raced = {}
  /\ walk = NoWalk

-----------------------------------------------------------------------------
(* The integers of a query, and the pages.                                 *)

(* strconv.Atoi: out of range is the nearest int, and no number is 0.      *)
Atoi(n) == IF n > MaxInt THEN MaxInt ELSE IF n < -MaxInt - 1 THEN -MaxInt - 1 ELSE n

PageOfUnchecked(n) == Atoi(n)

PageOf(n) == IF Atoi(n) < 1 THEN 1 ELSE Atoi(n)

PerPageOf(n) == IF Atoi(n) < 1 THEN 10 ELSE Atoi(n)

(* int arithmetic wraps.                                                   *)
Wrap(n) == ((n + MaxInt + 1) % (2 * MaxInt + 2)) - MaxInt - 1

OffsetFromZero(page, perPage) == Wrap(page * perPage)

Offset(page, perPage) == Wrap((page - 1) * perPage)

(* WHERE wallet_id = $1 AND type = $2.                                     *)
Matches(e, type) == type \in {NoType, e.type}

Matching(S, type) == {e \in S : Matches(e, type)}

(* ORDER BY created_at DESC.                                               *)
Rank(e, S) == Cardinality({f \in S : f.at > e.at}) + 1

PageAndOneMore(S, limit, offset) ==
  {e \in S : offset < Rank(e, S) /\ Rank(e, S) <= offset + limit + 1}

(* LIMIT limit OFFSET offset.  A negative OFFSET is an error, of the kind that
   only rows.Err() tells; nobody asks, and the page is empty.              *)
Page(S, limit, offset) ==
  {e \in S : offset >= 0 /\ offset < Rank(e, S) /\ Rank(e, S) <= offset + limit}

TotalPagesFloor(total, perPage) == total \div perPage + 1

(* math.Ceil(total / perPage).                                             *)
TotalPages(total, perPage) == (total + perPage - 1) \div perPage

(* GenerateLinks.  A link is to a page, with the rest of the query as it was. *)
Links ==
  LET last == TotalPages(answer.total, query.perPage) IN
  {query.page, 1, last}
    \cup {n \in {query.page - 1} : query.page > 1}
    \cup {n \in {query.page + 1} : query.page < last}

HasNext == query.page < TotalPages(answer.total, query.perPage)

-----------------------------------------------------------------------------
(* The client.                                                             *)

Start(page, perPage, type) ==
  /\ pc = "idle"
  /\ pc' = "checkWallet"
  /\ query' = [page |-> page, perPage |-> perPage, type |-> type]
  /\ answer' = NoAnswer
  /\ raced' = {}
  /\ UNCHANGED entries

(* A request written by hand.  One for the first page may begin a walk.    *)
Ask ==
  \E page \in Pages, perPage \in PerPages, type \in Types \cup {NoType} :
    /\ Start(PageOf(page), PerPageOf(perPage), type)
    /\ known' \in BOOLEAN
    /\ walk' = IF PageOf(page) = 1
               THEN [NoWalk EXCEPT !.page = 1, !.since = Matching(entries, type)]
               ELSE NoWalk

(* A link followed.  Only "next" goes on with the walk.                    *)
Follow ==
  /\ answer.kind = "ok"
  /\ \E page \in Links :
       /\ Start(PageOf(page), query.perPage, query.type)
       /\ walk' = IF page = query.page + 1 /\ HasNext
                  THEN [walk EXCEPT !.page = IF @ = 0 THEN 0 ELSE page,
                                    !.linked = TRUE]
                  ELSE NoWalk
  /\ UNCHANGED known

-----------------------------------------------------------------------------
(* The handler.                                                            *)

Goto(l) == pc' = l

(* GetWalletByID.                                                          *)
CheckWallet ==
  /\ pc = "checkWallet"
  /\ IF known
     THEN Goto("count") /\ UNCHANGED answer
     ELSE Goto("idle") /\ answer' = [answer EXCEPT !.kind = "error"]
  /\ UNCHANGED << entries, query, known, raced, walk >>

CountAllTypes ==
  /\ pc = "count"
  /\ answer' = [answer EXCEPT !.total = Cardinality(entries)]
  /\ Goto("page")
  /\ UNCHANGED << entries, query, known, raced, walk >>

CountLedgerByWalletID ==
  /\ pc = "count"
  /\ answer' = [answer EXCEPT !.total = Cardinality(Matching(entries, query.type))]
  /\ Goto("page")
  /\ UNCHANGED << entries, query, known, raced, walk >>

(* The page as the client will receive it.                                 *)
Show(rows, cut) ==
  /\ answer' = [answer EXCEPT !.data = rows]
  /\ walk' = [walk EXCEPT !.shown = @ \cup rows, !.rows = @ + Cardinality(rows),
                          !.cut = @ \/ cut]
  /\ Goto("summary")
  /\ UNCHANGED << entries, query, known, raced >>

WholePage ==
  Page(Matching(entries, query.type), query.perPage,
       Offset(query.page, query.perPage))

GetLedgerByWalletID ==
  /\ pc = "page"
  /\ Show(WholePage, Offset(query.page, query.perPage) < 0)

(* The rows stop coming before the last: rows.Next() is false, and the error
   stays in rows.Err().                                                    *)
RowsStop ==
  /\ CallsMayFail
  /\ pc = "page"
  /\ \E e \in WholePage : Show({f \in WholePage : f.at > e.at}, TRUE)

(* ... and the links are generated and the answer sent.                    *)
GetLedgerSummary ==
  LET S == Matching(entries, query.type) IN
  /\ pc = "summary"
  /\ answer' = [answer EXCEPT
                  !.kind = "ok",
                  !.summary = [credit |-> {e \in S : e.type \in Credits},
                               debit |-> {e \in S : e.type \notin Credits}]]
  /\ Goto("idle")
  /\ UNCHANGED << entries, query, known, raced, walk >>

(* A statement fails as a whole: 500, and no part of the page is sent.     *)
CallFails ==
  /\ CallsMayFail
  /\ pc # "idle"
  /\ Goto("idle")
  /\ answer' = [answer EXCEPT !.kind = "error"]
  /\ UNCHANGED << entries, query, known, raced, walk >>

-----------------------------------------------------------------------------
(* An operation on the wallet commits its entry.  created_at is the clock of
   the process that wrote it, read before the commit: it is not always the
   newest.  No two entries of a wallet have the same.                      *)
Post ==
  /\ \E e \in Entry :
       /\ \A f \in entries : f.at # e.at
       /\ entries' = entries \cup {e}
  /\ raced' = raced \cup
       (CASE pc = "page" -> {"page", "summary"}
          [] pc = "summary" -> {"summary"}
          [] OTHER -> {})
  /\ walk' = [walk EXCEPT !.added = @ + 1]
  /\ UNCHANGED << pc, query, known, answer >>

Next ==
  \/ Ask \/ Follow
  \/ CheckWallet \/ CountLedgerByWalletID \/ GetLedgerByWalletID \/ RowsStop
  \/ GetLedgerSummary \/ CallFails
  \/ Post

Spec == Init /\ [][Next]_vars
-----------------------------------------------------------------------------
(* Types of the variables.                                                 *)
TypeOK ==
  /\ entries \in SUBSET Entry
  /\ pc \in {"idle", "checkWallet", "count", "page", "summary"}
  /\ query \in Query
  /\ known \in BOOLEAN
  /\ answer \in Answer
  /\ raced \in SUBSET {"page", "summary"}
  /\ walk \in Walk

WalkOver == answer.kind = "ok" /\ walk.page > 0 /\ ~HasNext

(* "Retrieve a list of all transactions" (ledger_handler.go:24): whoever
   starts at the first page and follows "next" to the end has been given every
   entry there was at the start, whatever was committed in the meantime, and
   wherever its created_at put it; unless the rows of a page ended in an
   error, or an entry came between the count and the page of the very last
   request.                                                                *)
WalkShowsAll ==
  WalkOver /\ ~walk.cut /\ "page" \notin raced => walk.since \subseteq walk.shown

(* Entries added during a walk push rows over to the next page, to be given
   again.  Each entry does that to one row at most, on all pages together,
   however many are added between two requests.                            *)
RepeatsNeedCommits ==
  walk.rows <= Cardinality(walk.shown) + walk.added

(* The number of rows before the page, as long as ints do not wrap.        *)
Before == (query.page - 1) * query.perPage

(* The page has the rows that the count says are on it.                    *)
PageFull ==
  \A n \in 1 .. query.perPage :
    Before + n <= answer.total => n <= Cardinality(answer.data)

(* The four statements read four snapshots.  Whatever is committed between
   them, a later one never falls short of an earlier one: everything counted
   and everything shown is summed up, and the page is as full as the count
   says.  When nothing is, what is counted is what is summed up.           *)
PartsAgree ==
  answer.kind = "ok" =>
    LET summed == answer.summary.credit \cup answer.summary.debit IN
    /\ answer.total <= Cardinality(summed)
    /\ raced = {} => answer.total = Cardinality(summed)
    /\ answer.data \subseteq summed
    /\ ~walk.cut => PageFull

(* A "next" link leads to entries, whatever was committed since it was made:
   its offset does not overflow, and it is not past the end.               *)
NextLeadsToEntries ==
  answer.kind = "ok" /\ walk.linked =>
    /\ Offset(query.page, query.perPage) = Before
    /\ ~walk.cut => answer.data # {}

(* What makes WalkShowsAll inductive: an entry the walk is to show, and whose
   rank says that it was on one of the first k pages, has been shown.  Ranks
   only grow, so later entries can move it out of this set, never into it. *)
Reached(k) ==
  \A e \in walk.since :
    Rank(e, Matching(entries, query.type)) <= k * query.perPage =>
      e \in walk.shown

PageRead == pc = "summary" \/ answer.kind = "ok"

WalkInv ==
  /\ walk.page = query.page
  /\ walk.since \subseteq Matching(entries, query.type)
  /\ (query.page - 1) * query.perPage <= MaxInt
  /\ pc = "page" /\ "page" \notin raced =>
       answer.total = Cardinality(Matching(entries, query.type))
  /\ ~walk.cut /\ pc \in {"checkWallet", "count", "page"} =>
       Reached(query.page - 1)
  /\ ~walk.cut /\ PageRead => Reached(query.page)
  /\ ~walk.cut /\ PageRead /\ "page" \notin raced /\ ~HasNext =>
       walk.since \subseteq walk.shown

Inv ==
  /\ TypeOK
  /\ pc # "idle" => answer.kind = "none"
  /\ answer.total <= MaxInt
  /\ walk.page > 0 => WalkInv

(* What makes the other properties inductive.  The rows a request is about. *)
Rows == Matching(entries, query.type)

(* No two rows of a wallet have the same created_at.                       *)
StampsDiffer == \A e, f \in entries : e.at = f.at => e = f

(* The count was exact, and is until a row is added; then it is too low.   *)
CountFits ==
  /\ PageRead \/ pc = "page" => answer.total <= Cardinality(Rows)
  /\ pc \in {"page", "summary"} /\ raced = {} => answer.total = Cardinality(Rows)
  /\ pc = "summary" =>
       /\ answer.data \subseteq Rows
       /\ ~walk.cut => PageFull

(* There are rows where a "next" link leads.                               *)
LinkFits ==
  walk.linked /\ answer.kind # "error" =>
    /\ Before < Cardinality(Rows)
    /\ PageRead /\ ~walk.cut => answer.data # {}

(* Those shown are those of the pages so far, pushed back by as many entries
   as were added and have not yet made a row come again.  Only a walk's first
   request can have an offset that wraps, and it has no "next".            *)
ShownBefore(n) ==
  /\ Before <= MaxInt
  /\ \E d \in 0 .. walk.added :
       /\ walk.rows + d <= Cardinality(walk.shown) + walk.added
       /\ walk.shown \subseteq {e \in Rows : Rank(e, Rows) <= n + d}

ShownFits ==
  /\ walk.rows <= Cardinality(walk.shown) + walk.added
  /\ pc \in {"checkWallet", "count", "page"} =>
       (walk.shown = {} /\ walk.rows = 0) \/ ShownBefore(Before)
  /\ PageRead => Before > MaxInt \/ ShownBefore(query.page * query.perPage)

PagesInv ==
  /\ StampsDiffer
  /\ CountFits
  /\ PartsAgree
  /\ LinkFits
  /\ ShownFits
=============================================================================
