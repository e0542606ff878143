------------------------------ MODULE ListPaging ------------------------------
(***************************************************************************)
(* GET /notifications: a client walks through a listing page by page while *)
(* requests store notifications and workers change their status.  A page   *)
(* is two statements, a COUNT and a SELECT with LIMIT and OFFSET, and each *)
(* sees what was committed before it.                                      *)
(***************************************************************************)
EXTENDS Integers, FiniteSets, Sequences, Functions

CONSTANTS Ids,          \* the notifications
          Stops,        \* when clients stop: {"total", "short"}
          Filters,      \* what clients filter by: {"all", "channel", "status"}
          Pages, Sizes, \* the values of page and page_size
          NoInt,        \* the value that is missing or not a number
          MaxInt        \* the largest int of the program: 2^63 - 1

ASSUME FiltersAssumption == Filters \subseteq {"all", "channel", "status"}
ASSUME StopsAssumption == Stops \subseteq {"total", "short"}
ASSUME QueryAssumption == Pages \cup Sizes \subseteq Int \cup {NoInt}
ASSUME IntAssumption == MaxInt \in Nat
(* A table of PostgreSQL holds fewer rows than an int can count.           *)
ASSUME TableAssumption == IsFiniteSet(Ids) /\ Cardinality(Ids) <= MaxInt

VARIABLES clock,        \* the microseconds that created_at distinguishes
          made,         \* made[id]: what NewNotification made, or NotMade
          committed,    \* the ids whose row is committed
          request,      \* the GET in progress
          listed,       \* the answer to the last GET, and how many rows matched then
          walk          \* how far the client has come

rowVars == <<clock, made, committed>>
listVars == <<rowVars, request, listed, walk>>

NotMade == [createdAt |-> 0, channel |-> "none", status |-> "none"]

(***************************************************************************)
(* Rows.  created_at is taken when the notification is made, before it is  *)
(* inserted: rows do not become visible in the order of created_at.        *)
(***************************************************************************)
NewNotification(id) ==
    /\ made[id] = NotMade
    /\ \E ch \in {"sms", "email"} :
          made' = [made EXCEPT ![id] =
                      [createdAt |-> clock, channel |-> ch, status |-> "pending"]]
    /\ clock' \in {clock, clock + 1}
    /\ UNCHANGED <<committed, request, listed, walk>>

(* Create inserts one row, CreateBatch several in one transaction.         *)
InsertRows(S) ==
    /\ S # {} /\ S \cap committed = {}
    /\ \A id \in S : made[id] # NotMade
    /\ committed' = committed \cup S
    /\ UNCHANGED <<clock, made, request, listed, walk>>

(* A worker or a scheduler; a rollback makes a row pending again.          *)
UpdateStatus(id) ==
    /\ id \in committed
    /\ \E s \in {"pending", "queued"} \ {made[id].status} :
          made' = [made EXCEPT ![id].status = s]
    /\ walk' = [walk EXCEPT !.left = @ \/ (walk.filter = "status" /\ made[id].status = "pending")]
    /\ UNCHANGED <<clock, committed, request, listed>>

(***************************************************************************)
(* The handler and the repository                                          *)
(***************************************************************************)

(* queryInt: what is missing, no number or not positive is the default.    *)
QueryInt(v, default) == IF v \in Nat \ {0} THEN v ELSE default

(* Slips to detect: the lower end of the page is one off; the offset has   *)
(* one bit less.                                                           *)
OffsetFromPage(page, size) == page * size

OffsetInFewerBits(page, size) ==
    LET n == ((page - 1) * size) % (MaxInt + 1)
    IN  IF 2 * n > MaxInt THEN n - (MaxInt + 1) ELSE n

(* int arithmetic: the product wraps around.                               *)
Offset(page, size) ==
    LET width == 2 * (MaxInt + 1)
        n == ((page - 1) * size) % width
    IN  IF n > MaxInt THEN n - width ELSE n

Matches(id, filter) ==
    CASE filter = "all"     -> TRUE
      [] filter = "channel" -> made[id].channel = "sms"
      [] filter = "status"  -> made[id].status = "pending"

Matching(filter) == {id \in committed : Matches(id, filter)}

(* The order of the SELECT, which leaves rows of one created_at in any.    *)
Ordered(S) ==
    {s \in [1 .. Cardinality(S) -> S] :
        /\ IsInjective(s)
        /\ \A i, j \in DOMAIN s : i < j => made[s[i]].createdAt >= made[s[j]].createdAt}

Page(s, offset, size) == SubSeq(s, offset + 1, IF offset + size < Len(s)
                                               THEN offset + size ELSE Len(s))

NoRequest == [at |-> "idle", total |-> 0]

(* A slip to detect: the filter's clause is not added to countQuery.       *)
CountAll ==
    /\ request.at = "count"
    /\ request' = [at |-> "select", total |-> Cardinality(committed)]
    /\ UNCHANGED <<rowVars, listed, walk>>

Count ==
    /\ request.at = "count"
    /\ request' = [at |-> "select", total |-> Cardinality(Matching(walk.filter))]
    /\ UNCHANGED <<rowVars, listed, walk>>

(* PostgreSQL refuses a negative OFFSET, which is a 500 to the client.     *)
Select ==
    /\ request.at = "select"
    /\ request' = NoRequest
    /\ LET offset == Offset(walk.page, walk.size) IN
          \/ /\ offset >= 0
             /\ \E s \in Ordered(Matching(walk.filter)) :
                   listed' = [code |-> 200, total |-> request.total,
                              items |-> Page(s, offset, walk.size), matching |-> Len(s)]
          \/ offset < 0 /\ listed' = [code |-> 500, total |-> 0, items |-> << >>, matching |-> 0]
    /\ UNCHANGED <<rowVars, walk>>

(***************************************************************************)
(* The client begins at some page and takes the next one until total says  *)
(* that there is none, or until a page is not full.  It expects to see the *)
(* rows that match when it begins; left says that a row matched no longer. *)
(***************************************************************************)
NoAnswer == [code |-> 0, total |-> 0, items |-> << >>, matching |-> 0]

Start ==
    /\ walk.at = "idle"
    /\ \E filter \in Filters, stop \in Stops, p \in Pages, size \in Sizes :
          walk' = [at |-> "walking", filter |-> filter, stop |-> stop,
                   page |-> QueryInt(p, 1), size |-> QueryInt(size, 20),
                   first |-> QueryInt(p, 1),
                   expected |-> Matching(filter), seen |-> {}, left |-> FALSE]
    /\ request' = [at |-> "count", total |-> 0]
    /\ UNCHANGED <<rowVars, listed>>

IsLastPage ==
    CASE walk.stop = "total" -> walk.page * walk.size >= listed.total
      [] walk.stop = "short" -> Len(listed.items) < walk.size

Receive ==
    /\ walk.at = "walking" /\ request.at = "idle"
    /\ LET seen == walk.seen \cup Range(listed.items) IN
          IF listed.code # 200 \/ IsLastPage
          THEN /\ walk' = [walk EXCEPT !.at = "done", !.seen = seen]
               /\ UNCHANGED request
          ELSE /\ walk' = [walk EXCEPT !.page = @ + 1, !.seen = seen]
               /\ request' = [at |-> "count", total |-> 0]
    /\ UNCHANGED <<rowVars, listed>>

ListInit ==
    /\ clock = 1
    /\ made = [id \in Ids |-> NotMade]
    /\ committed = {}
    /\ request = NoRequest
    /\ listed = NoAnswer
    /\ walk = [at |-> "idle", filter |-> "all", stop |-> "short", page |-> 1, size |-> 1,
               first |-> 1, expected |-> {}, seen |-> {}, left |-> FALSE]

ListNext ==
    \/ \E id \in Ids : NewNotification(id) \/ UpdateStatus(id)
    \/ \E S \in SUBSET Ids : InsertRows(S)
    \/ Start \/ Count \/ Select \/ Receive

ListTypeOK ==
    /\ clock \in 1 .. Cardinality(Ids) + 1
    /\ committed \subseteq {id \in Ids : made[id] # NotMade}
    /\ request.at \in {"idle", "count", "select"} /\ request.total \in Nat
    /\ listed.code \in {0, 200, 500} /\ listed.items \in Seq(Ids) /\ listed.matching \in Nat
    /\ walk.page \in Nat /\ walk.size \in Nat \ {0}
    /\ walk.seen \subseteq Ids /\ walk.left \in BOOLEAN

(***************************************************************************)
(* Properties                                                              *)
(***************************************************************************)

(* No other notification was made in the same microsecond.                 *)
Alone(id) == \A o \in Ids \ {id} : made[o].createdAt # made[id].createdAt

(* A client that takes the pages from the first to the last has seen every *)
(* row that matched from its first request on (openapi.yaml: "Paginated    *)
(* list of notifications"), with three exceptions.  Rows with the same     *)
(* created_at come in any order, in another one on the next page.  Where   *)
(* the filter is a status, a row that left it moves the others to earlier  *)
(* pages.  And who stops by total may miss what came between the COUNT and *)
(* the SELECT.  Rows stored meanwhile do no harm otherwise: they only move *)
(* others to later pages, wherever in the order they appear.               *)
NoneSkipped ==
    /\ walk.at = "done" /\ walk.first = 1 /\ listed.code = 200
    /\ ~walk.left
    /\ walk.stop = "total" => listed.matching <= listed.total
    => \A id \in walk.expected : Alone(id) => id \in walk.seen

(* A page that is not full is the last one that total promises: counting   *)
(* before selecting never makes a client ask for pages that do not exist,  *)
(* unless a row left the status the client filters by.                     *)
FullPages ==
    /\ walk.at = "walking" /\ request.at = "idle"
    /\ listed.code = 200 /\ Len(listed.items) < walk.size
    /\ ~walk.left
    => walk.page * walk.size >= listed.total

(* A page is answered, and it is full or goes on to the last row, whatever *)
(* the page number and the page size: only a page so far away that its     *)
(* offset is beyond the largest int fails or has rows of another page.     *)
WrongOnlyFarAway ==
    LET before == (walk.page - 1) * walk.size IN
    walk.at # "idle" /\ request.at = "idle" /\ before <= MaxInt =>
        /\ listed.code = 200
        /\ Len(listed.items) <= walk.size
        /\ listed.items # << >> => before + Len(listed.items) <= listed.matching
        /\ Len(listed.items) = walk.size \/ before + Len(listed.items) >= listed.matching
=============================================================================
