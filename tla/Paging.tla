------------------------------- MODULE Paging -------------------------------
(***************************************************************************)
(* The pages of a session list: pageParams and paginated of                *)
(* internal/api/response.go, pageBounds and list of                        *)
(* internal/service/sessions.go.  Integers are Go's int, of a word whose   *)
(* largest is MaxInt: page and page size come from the query and their     *)
(* product may wrap.  A client asks for a page and, as long as it shows    *)
(* something, for the next one, while flows are being added to the list.   *)
(***************************************************************************)
EXTENDS Integers

CONSTANTS
    MaxInt,           \* the largest int
    DefaultPageSize,
    MaxTotal          \* bound on the length of the list

ASSUME PagingAssumption == MaxInt \in Nat /\ DefaultPageSize \in 1..MaxInt /\ MaxTotal \in 0..MaxInt

VARIABLES
    length,  \* of the list
    oldest,  \* what it was when the client began
    began,   \* the page the client began with
    asked,   \* the page it asks for now
    per,     \* and its size
    seen     \* the flows it was shown, by their places in the order of arrival

pageVars == <<length, oldest, began, asked, per, seen>>

Words   == -MaxInt - 1 .. MaxInt
Wrap(n) == ((n + MaxInt + 1) % (2 * MaxInt + 2)) - MaxInt - 1

(* pageParams: a page or a size that is not positive keeps its default.    *)
Params(page, size) ==
  [page |-> IF page > 0 THEN page ELSE 1,
   size |-> IF size > 0 THEN size ELSE DefaultPageSize]

PageBoundsFromZero(total, page, size) ==
  LET p     == Params(page, size)
      first == Wrap(p.page * p.size)
      start == IF first < 0 \/ first > total THEN total ELSE first
      last  == Wrap(start + p.size)
  IN [start |-> start, end |-> IF last < start \/ last > total THEN total ELSE last]

(* pageBounds: the half-open interval of positions of a page, 0 being the  *)
(* newest.  It repeats the defaults of pageParams.                         *)
PageBounds(total, page, size) ==
  LET p     == Params(page, size)
      first == Wrap((p.page - 1) * p.size)
      start == IF first < 0 \/ first > total THEN total ELSE first
      last  == Wrap(start + p.size)
  IN [start |-> start, end |-> IF last < start \/ last > total THEN total ELSE last]

(* list: the indexes (from 1, the oldest) of the order that a page shows.  *)
Shown(total, page, size) ==
  LET b == PageBounds(total, page, size) IN (total - b.end + 1) .. (total - b.start)

(* hasNext of the reply.                                                   *)
HasNext(total, page, size) ==
  LET p == Params(page, size) IN Wrap(p.page * p.size) < total

-----------------------------------------------------------------------------
(* Any query: what is not a number is as good as 0.                        *)
PagesInit ==
  /\ length \in 0..MaxTotal /\ oldest = length
  /\ began \in Words /\ asked = began
  /\ per \in Words
  /\ seen = {}

(* put, of a flow that is new, below the capacity of the store.            *)
Arrive ==
  /\ length < MaxTotal
  /\ length' = length + 1
  /\ UNCHANGED <<oldest, began, asked, per, seen>>

(* GET /sessions, and the client turns the page, up to the largest there   *)
(* is.                                                                     *)
Turn ==
  /\ Shown(length, asked, per) # {} /\ Params(asked, per).page < MaxInt
  /\ seen' = seen \cup Shown(length, asked, per)
  /\ asked' = Params(asked, per).page + 1
  /\ UNCHANGED <<length, oldest, began, per>>

PagesNext == Arrive \/ Turn
PagesSpec == PagesInit /\ [][PagesNext]_pageVars

-----------------------------------------------------------------------------
(* Whatever page and size the query names, and however their product       *)
(* wraps, the bounds are indexes of the list: slicing with them cannot     *)
(* panic (sessions.go:18).  Short of an overflow, hasNext is true exactly  *)
(* when the next page shows something.  A client that turns the pages      *)
(* until one is empty has seen every flow that was there when it began,    *)
(* although those that arrive meanwhile push the others from page to page. *)
PagesSound ==
  LET b == PageBounds(length, asked, per)
      p == Params(asked, per)
  IN /\ 0 <= b.start /\ b.start <= b.end /\ b.end <= length
     /\ p.page * p.size \in Words /\ p.page + 1 \in Words =>
          HasNext(length, asked, per) = (Shown(length, p.page + 1, per) # {})
     /\ began <= 1 /\ Shown(length, asked, per) = {} => 1..oldest \subseteq seen
=============================================================================
