----------------------------- MODULE PagedQuery -----------------------------
(***************************************************************************)
(* The page queries of packages mysqlx and mongox: FindPage, FindRawPage,  *)
(* QueryPaging, PagingQuery and PagingQueryWithPro.  Each is two queries,  *)
(* one for the rows of the page and one for the number of all rows, MySQL  *)
(* counts first and MongoDB last, and others write between them unless the *)
(* caller is in a transaction of MysqlClient, which reads a snapshot.      *)
(* A caller walks through the pages until the number it was last given     *)
(* says that there are no more.  Rows are numbered as they are added and   *)
(* every query is in that order.                                           *)
(*                                                                         *)
(* A definition that comes right before one it resembles (SkipBehind       *)
(* before Skip) is the same code with a bug: no action uses it, and the    *)
(* properties are known to notice when it takes the other's place.         *)
(***************************************************************************)
EXTENDS Integers, FiniteSets

CONSTANTS
  MaxRow,      \* bound: rows that are ever added
  MaxDeleted,  \* bound: rows deleted during a walk
  Pages,       \* pages a caller may begin with
  Sizes,       \* page sizes it may ask for
  Width        \* bits of an int32

ASSUME PagedNumbers ==
  /\ MaxRow \in Nat /\ MaxDeleted \in Nat /\ Width \in Nat \ {0}
  /\ Pages \subseteq Int /\ Sizes \subseteq Int

VARIABLES
  table,     \* rows that match
  lastRow,   \* number of the latest
  snapshot,  \* the table as it was when the caller's transaction began
  ask,       \* the caller's query: api, page, size, and inTx
  stage,     \* "none", "half" after the first of the two queries, "full", "failed"
  rows,      \* the rows of the page
  total,     \* the number of rows, as it was counted
  between,   \* changes to the table between the two queries
  stable,    \* rows there since the walk began, from its first page on
  got,       \* rows the walk's complete pages had
  deleted    \* rows deleted since it began

tableVars == <<table, lastRow, snapshot>>
walkVars  == <<stable, got, deleted>>
pagedVars == <<tableVars, ask, stage, rows, total, between, walkVars>>

Apis == {"FindPage", "FindRawPage", "QueryPaging", "PagingQuery"}

PagedInit ==
  /\ table = {} /\ lastRow = 0 /\ snapshot = {}
  /\ ask = [api |-> "FindPage", page |-> 1, size |-> 1, inTx |-> FALSE]
  /\ stage = "none" /\ rows = {} /\ total = 0 /\ between = 0
  /\ stable = {} /\ got = {} /\ deleted = 0

-----------------------------------------------------------------------------
(* The arithmetic *)

Int32(n) == ((n + 2^(Width - 1)) % 2^Width) - 2^(Width - 1)

PageOf(q) == IF q.page < 1 THEN 1 ELSE q.page
SizeOf(q) == IF q.size >= 1 THEN q.size ELSE IF q.api = "PagingQuery" THEN 1 ELSE 10
Page == PageOf(ask)
Size == SizeOf(ask)

(* The product is computed in 32 bits and widened afterwards. *)
SkipBehind == Int32((Page - 2) * Size)
Skip       == Int32((Page - 1) * Size)

(* Offset(-n) of gorm is no offset; "limit -n,..." is no SQL; the driver   *)
(* refuses SetSkip(-n).                                                    *)
Refused == Skip < 0 /\ ask.api # "FindPage"
Offset  == IF Skip < 0 THEN 0 ELSE Skip

ViewLive == table
View     == IF ask.inTx THEN snapshot ELSE table

Rank(r, in) == Cardinality({x \in in : x <= r})
PageRows    == {r \in View : Rank(r, View) \in Offset + 1 .. Offset + Size}

-----------------------------------------------------------------------------
(* The caller *)

Begin(api, page, size, inTx) ==
  /\ stage \in {"none", "full", "failed"}
  /\ inTx => api \in {"FindPage", "FindRawPage"}
  /\ ask' = [api |-> api, page |-> page, size |-> size, inTx |-> inTx]
  /\ stage' = "none" /\ rows' = {} /\ total' = 0 /\ between' = 0
  /\ snapshot' = table /\ got' = {} /\ deleted' = 0
  /\ stable' = {r \in table : Rank(r, table) > (PageOf(ask') - 1) * SizeOf(ask')}
  /\ UNCHANGED <<table, lastRow>>

More == Page * Size < total

NextPage ==
  /\ stage = "full" /\ More
  /\ ask' = [ask EXCEPT !.page = Page + 1]
  /\ stage' = "none" /\ rows' = {} /\ total' = 0 /\ between' = 0
  /\ UNCHANGED <<tableVars, walkVars>>

CountsFirst == ask.api \in {"FindPage", "FindRawPage"}

Counts == total' = Cardinality(View) /\ UNCHANGED <<rows, got>>
Reads  == rows' = PageRows /\ got' = got \cup PageRows /\ UNCHANGED total

FirstQuery ==
  /\ stage = "none"
  /\ stage' = "half" /\ between' = 0
  /\ IF CountsFirst THEN Counts ELSE ~Refused /\ Reads
  /\ UNCHANGED <<tableVars, ask, stable, deleted>>

SecondQuery ==
  /\ stage = "half"
  /\ stage' = "full"
  /\ IF CountsFirst THEN ~Refused /\ Reads ELSE Counts
  /\ UNCHANGED <<tableVars, ask, between, stable, deleted>>

(* The driver's error, at either query. *)
QueryFails ==
  /\ stage \in {"none", "half"}
  /\ stage' = "failed" /\ rows' = {}
  /\ UNCHANGED <<tableVars, ask, total, between, walkVars>>

-----------------------------------------------------------------------------
(* The others *)

Change == /\ between' = IF stage = "half" /\ ~ask.inTx THEN between + 1 ELSE between
          /\ UNCHANGED <<snapshot, ask, stage, rows, total, got>>

Add ==
  /\ lastRow < MaxRow
  /\ lastRow' = lastRow + 1 /\ table' = table \cup {lastRow'}
  /\ Change /\ UNCHANGED <<stable, deleted>>

Remove(r) ==
  /\ r \in table /\ deleted < MaxDeleted
  /\ table' = table \ {r} /\ stable' = stable \ {r} /\ deleted' = deleted + 1
  /\ Change /\ UNCHANGED lastRow

PagedNext ==
  \/ \E api \in Apis, page \in Pages, size \in Sizes, inTx \in BOOLEAN : Begin(api, page, size, inTx)
  \/ NextPage \/ FirstQuery \/ SecondQuery \/ QueryFails
  \/ Add \/ \E r \in table : Remove(r)

PagedSpec == PagedInit /\ [][PagedNext]_pagedVars

-----------------------------------------------------------------------------
(* A walk misses no more of the rows that are there all the time than rows *)
(* were deleted under it, and none in a transaction, however the two       *)
(* queries of each page and the writers interleave (mysqlx.go:76-86,       *)
(* mongox.go:116-139), unless the arithmetic wraps.                        *)
Fits32 == Page * Size < 2^(Width - 1)
WalkMissesOnlyDeleted ==
  stage = "full" /\ ~More /\ Fits32 =>
    Cardinality(stable \ got) <= IF ask.inTx THEN 0 ELSE deleted

(* The rows and the total of one answer agree, but for the changes made    *)
(* between its two queries; in a transaction there are none.               *)
TotalFits ==
  stage = "full" /\ rows # {} /\ Fits32 => (Page - 1) * Size + Cardinality(rows) <= total + between
=============================================================================
