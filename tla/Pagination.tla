----------------------------- MODULE Pagination -----------------------------
(***************************************************************************)
(* Page arithmetic of utils/pagination.go and a reader who walks through a *)
(* table page by page, while rows come and go. A handler of the kit's user *)
(* asks the database for the rows and for the total, in either order; the  *)
(* newest row comes first.                                                 *)
(***************************************************************************)
EXTENDS Integers, Sequences, FiniteSets, Functions

CONSTANTS
  TableRows,
  Asked,          \* values of per_page a reader sends
  DefaultPerPage, \* 10
  MaxPerPage,     \* 100
  MaxTableChanges \* bound on the rows that come and go

VARIABLES
  table,      \* rows, the newest first
  original,   \* those there when the walk began
  asking,     \* page, per_page and offset sent, each <<n>> or, if missing or no number, <<>>
  handlerAt,  \* "asked", "halfway", "answered" or "over"
  countFirst, \* does the handler ask for the total first?
  total,
  rowsSeen,
  removed,    \* has a row been deleted?
  between,    \* has a row come between the two queries of a page?
  changes

pageVars == <<table, original, asking, handlerAt, countFirst, total, rowsSeen, removed, between,
              changes>>

GetIntParam(v, default) == IF v = <<>> THEN default ELSE v[1]

\* GetPaginationParams; GetPaginationParamsWithDefaults differs in the constants. (The
\* product overflows for pages no walk gets to.)
Params(q) ==
  LET given   == GetIntParam(q.page, 1)
      page    == IF given < 1 THEN 1 ELSE given
      size    == GetIntParam(q.perPage, DefaultPerPage)
      perPage == CASE size < 1 -> DefaultPerPage [] size > MaxPerPage -> MaxPerPage [] OTHER -> size
      offset  == GetIntParam(q.offset, 0)
  IN  [page |-> page, perPage |-> perPage,
       offset |-> IF offset > 0 THEN offset ELSE (page - 1) * perPage]

RoundsDown(n, perPage) == n \div perPage                    \* bug: the last page is missing
PagesOf(n, perPage) == (n + perPage - 1) \div perPage
HasNext(p, n) == p.page < (IF PagesOf(n, p.perPage) < 1 THEN 1 ELSE PagesOf(n, p.perPage))

\* The rows of a table, in some order: SetToSeq of SequencesExt, as in FetcherPools.
Listing(S) == CHOOSE s \in [1 .. Cardinality(S) -> S] : IsInjective(s)

PagesInit ==
  /\ table \in {Listing(rs) : rs \in SUBSET TableRows}
  /\ original = Range(table)
  /\ asking \in [page : {<<>>, <<0>>}, perPage : {<<n>> : n \in Asked} \union {<<>>},
                 offset : {<<>>, <<-1>>}]
  /\ handlerAt = "asked" /\ countFirst \in BOOLEAN /\ total = 0 /\ rowsSeen = {}
  /\ removed = FALSE /\ between = FALSE /\ changes = 0

-----------------------------------------------------------------------------
\* SELECT ... LIMIT perPage OFFSET offset.
Select ==
  /\ handlerAt = IF countFirst THEN "halfway" ELSE "asked"
  /\ handlerAt' = IF countFirst THEN "answered" ELSE "halfway"
  /\ LET p == Params(asking)
     IN  rowsSeen' = rowsSeen \union
           {table[i] : i \in {j \in DOMAIN table : j > p.offset /\ j <= p.offset + p.perPage}}
  /\ UNCHANGED <<table, original, asking, countFirst, total, removed, between, changes>>
Count ==
  /\ handlerAt = IF countFirst THEN "asked" ELSE "halfway"
  /\ handlerAt' = IF countFirst THEN "halfway" ELSE "answered"
  /\ total' = Len(table)
  /\ UNCHANGED <<table, original, asking, countFirst, rowsSeen, removed, between, changes>>

\* CalculatePagination; the reader goes on while has_next says so.
Follow ==
  /\ handlerAt = "answered"
  /\ LET p == Params(asking)
     IN  IF HasNext(p, total) THEN asking' = [asking EXCEPT !.page = <<p.page + 1>>]
                                   /\ handlerAt' = "asked"
                              ELSE handlerAt' = "over" /\ UNCHANGED asking
  /\ UNCHANGED <<table, original, countFirst, total, rowsSeen, removed, between, changes>>

Insert(r) ==
  /\ changes < MaxTableChanges /\ handlerAt # "over" /\ r \notin Range(table) \union original
  /\ table' = <<r>> \o table /\ changes' = changes + 1
  /\ between' = (between \/ (handlerAt = "halfway" /\ countFirst))
  /\ UNCHANGED <<original, asking, handlerAt, countFirst, total, rowsSeen, removed>>
Delete(i) ==
  /\ changes < MaxTableChanges /\ handlerAt # "over"
  /\ table' = SubSeq(table, 1, i - 1) \o SubSeq(table, i + 1, Len(table))
  /\ removed' = TRUE /\ changes' = changes + 1
  /\ UNCHANGED <<original, asking, handlerAt, countFirst, total, rowsSeen, between>>

Next == \/ Select \/ Count \/ Follow
        \/ \E r \in TableRows : Insert(r)
        \/ \E i \in DOMAIN table : Delete(i)
Spec == PagesInit /\ [][Next]_pageVars

-----------------------------------------------------------------------------
PagesTypeOK ==
  /\ table \in Seq(TableRows) /\ original \subseteq TableRows /\ rowsSeen \subseteq TableRows
  /\ handlerAt \in {"asked", "halfway", "answered", "over"} /\ total \in 0..Cardinality(TableRows)
  /\ removed \in BOOLEAN /\ between \in BOOLEAN /\ changes \in 0..MaxTableChanges

\* CalculatePagination and the offsets of GetPaginationParams fit together (pagination.go:45,
\* 100 and 112): who follows has_next to the end has seen every row that was there when the
\* walk began, whatever per_page was sent and although rows were added in front of them;
\* unless a row was deleted, or one came after the total was taken and before the rows were.
NoRowMissed == handlerAt = "over" /\ ~removed /\ ~between => original \subseteq rowsSeen
=============================================================================
