------------------------------ MODULE Listing ------------------------------
(***************************************************************************)
(* What becomes of a list request: the page, limit, sort and search of the *)
(* query string, through the schemas of utils/pagination, sort and search, *)
(* the check of what a repository allows, and the conversion into a query  *)
(* of MongoDB or of PostgreSQL.                                            *)
(*                                                                         *)
(* The text is taken apart already: a sort is a sequence of [field, order],*)
(* a search of [field, values]; order "none" or values <<>> stand for a    *)
(* segment without a colon.  Numbers are counted in halves, so that 1.5    *)
(* can be asked for; NaN is what Number() makes of anything else.          *)
(***************************************************************************)
EXTENDS Integers, Sequences, FiniteSets, SequencesExt

CONSTANTS
  NaN,
  DefaultLimit, MaxLimit,   \* 10 and 100 documents a page
  SortAllowed,              \* @ValidateDatabaseSortAllowed, in its order
  LikeAllowed,              \* filters allowed by containment
  EqualAllowed,             \* and by equality
  Part                      \* <<p, v>>: the text p is contained in v

ASSUME LimitAssumption ==
  MaxLimit \in Nat \ {0} /\ DefaultLimit \in 1..MaxLimit

OK == 200
BadRequest == 400
InternalError == 500

----------------------------------------------------------------------------
(* Page and limit.                                                         *)

Page(raw) == IF raw # NaN /\ raw > 0 THEN raw ELSE 2

Limit(raw) ==
  IF raw = NaN \/ raw <= 0 THEN 2 * DefaultLimit
  ELSE IF raw > 2 * MaxLimit THEN 2 * MaxLimit ELSE raw

PaginationStatus(q) ==
  IF Page(q.page) % 2 = 0 /\ Limit(q.limit) % 2 = 0 THEN OK ELSE BadRequest

(* Fault: pages are taken to begin with 0.                                 *)
SkipFromZero(page, limit) == page * limit

Skip(page, limit) == (page - 1) * limit

----------------------------------------------------------------------------
(* Sort.                                                                   *)

Word == {"asc", "desc", ""}

(* The checks look at the whole text and at the end of each segment; then  *)
(* the transformation trims an order that a segment may lack.              *)
SortHttpStatus(sort) ==
  IF sort = <<>> THEN OK
  ELSE IF \/ sort[1].field = "" /\ sort[1].order # "none"
          \/ \A i \in DOMAIN sort : sort[i].order = "none"
          \/ \E i \in DOMAIN sort : sort[i].order = "none" /\ sort[i].field \notin Word
    THEN BadRequest
  ELSE IF \E i \in DOMAIN sort : sort[i].order = "none" THEN InternalError ELSE OK

(* The last segment of a field decides.                                    *)
LastOf(segments, field) ==
  LET At == {i \in DOMAIN segments : segments[i].field = field}
  IN  segments[CHOOSE i \in At : \A j \in At : j <= i]

FieldsOf(segments) == {segments[i].field : i \in DOMAIN segments}

SortAsked(sort) ==
  IF sort = <<>> THEN [f \in {"createdAt"} |-> "desc"]
  ELSE [f \in FieldsOf(sort) |->
          IF LastOf(sort, f).order = "desc" THEN "desc" ELSE "asc"]

SortStatus(sort) ==
  IF DOMAIN SortAsked(sort) \subseteq Range(SortAllowed) THEN OK ELSE BadRequest

(* The fields in the order in which they are allowed, not as asked.        *)
SortedBy(sort) ==
  SelectSeq(SortAllowed, LAMBDA f : f \in DOMAIN SortAsked(sort))

Before(d, e, sort) ==
  LET fields == SortedBy(sort)
  IN  \E i \in DOMAIN fields :
        /\ \A j \in 1..i - 1 : d[fields[j]] = e[fields[j]]
        /\ IF SortAsked(sort)[fields[i]] = "asc" THEN d[fields[i]] < e[fields[i]]
           ELSE d[fields[i]] > e[fields[i]]

(* Documents that tie may come in any order, and in another the next time. *)
Sorted(found, sort) ==
  {s \in SetToSeqs(found) :
     \A i, j \in DOMAIN s : Before(s[i], s[j], sort) => i < j}

PageOf(s, page, limit) ==
  LET first == Skip(page, limit)
  IN  SubSeq(s, first + 1, IF first + limit < Len(s) THEN first + limit ELSE Len(s))

----------------------------------------------------------------------------
(* Search.  Texts are numbered, the empty one 0.                           *)

Empty == 0

SearchHttpStatus(search) ==
  IF search = <<>> THEN OK
  ELSE IF \/ search[1].field = "" /\ search[1].values # <<>>
          \/ \A i \in DOMAIN search : search[i].values = <<>>
          \/ \E i \in DOMAIN search : search[i].values = <<Empty>>
          \/ \E i \in DOMAIN search : search[i].field = "" /\ search[i].values = <<>>
    THEN BadRequest
  ELSE IF \E i \in DOMAIN search : search[i].values = <<>> THEN InternalError ELSE OK

SearchAsked(search) == [f \in FieldsOf(search) |-> LastOf(search, f).values]

Several(values) == Len(values) > 1

(* Only MongoDB's filter knows id, and takes it for a single text.         *)
MongoSearchStatus(search) ==
  LET asked == SearchAsked(search)
  IN  IF "id" \in DOMAIN asked /\ Several(asked["id"]) THEN InternalError
      ELSE IF DOMAIN asked \subseteq LikeAllowed \cup EqualAllowed \cup {"id"} THEN OK
      ELSE BadRequest

Like(p, v) == p = Empty \/ p = v \/ <<p, v>> \in Part

Fits(d, f, p) == IF f \in LikeAllowed THEN Like(p, d[f]) ELSE d[f] = p

(* Fault: a single value goes with the several ones.                       *)
MongoFilterOrsAll(search) ==
  LET asked == SearchAsked(search)
      pairs == UNION {{<<f, p>> : p \in Range(asked[f])} : f \in DOMAIN asked \ {"id"}}
  IN  [id |-> IF "id" \in DOMAIN asked THEN {asked["id"][1]} ELSE {},
       or |-> pairs, and |-> {}]

(* $or takes every value of the fields that have several, $and the rest.   *)
MongoFilter(search) ==
  LET asked == SearchAsked(search)
      of(fs) == UNION {{<<f, p>> : p \in Range(asked[f])} : f \in fs \ {"id"}}
  IN  [id  |-> IF "id" \in DOMAIN asked THEN {asked["id"][1]} ELSE {},
       or  |-> of({f \in DOMAIN asked : Several(asked[f])}),
       and |-> of({f \in DOMAIN asked : ~Several(asked[f])})]

MatchesMongo(d, filter) ==
  /\ d.deletedAt = 0
  /\ filter.id # {} => d.id \in filter.id
  /\ filter.or # {} => \E fp \in filter.or : Fits(d, fp[1], fp[2])
  /\ \A fp \in filter.and : Fits(d, fp[1], fp[2])

(* PostgreSQL: ilike without a wildcard is an equality, In and Raw join    *)
(* the values of one field; id is no filter there.                         *)
SqlSearchStatus(search) ==
  IF DOMAIN SearchAsked(search) \subseteq LikeAllowed \cup EqualAllowed THEN OK ELSE BadRequest

SqlFilter(search) == [f \in FieldsOf(search) |-> Range(SearchAsked(search)[f])]

MatchesSql(d, filter) == d.deletedAt = 0 /\ \A f \in DOMAIN filter : d[f] \in filter[f]

----------------------------------------------------------------------------
(* The whole request: the first check that fails answers it.               *)

FirstFailure(statuses) ==
  LET failed == {i \in DOMAIN statuses : statuses[i] # OK}
  IN  IF failed = {} THEN OK ELSE statuses[CHOOSE i \in failed : \A j \in failed : i <= j]

(* The controller parses sort and search; the use case validates the rest, *)
(* a sort without a name among it; the repository what it allows.          *)
MongoStatus(q) ==
  FirstFailure(<<SortHttpStatus(q.sort), SearchHttpStatus(q.search), PaginationStatus(q),
                 IF "" \in DOMAIN SortAsked(q.sort) THEN BadRequest ELSE OK,
                 SortStatus(q.sort), MongoSearchStatus(q.search)>>)

(* There the filters are converted before the sort is looked at.           *)
SqlStatus(q) ==
  FirstFailure(<<SortHttpStatus(q.sort), SearchHttpStatus(q.search), PaginationStatus(q),
                 IF "" \in DOMAIN SortAsked(q.sort) THEN BadRequest ELSE OK,
                 SqlSearchStatus(q.search), SortStatus(q.sort)>>)
=============================================================================
