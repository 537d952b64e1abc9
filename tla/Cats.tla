-------------------------------- MODULE Cats --------------------------------
(***************************************************************************)
(* The cats: their use cases over the Mongo repository, any other code     *)
(* that holds the repository (IRepository has operations that no use case  *)
(* calls yet), and a client that reads the list page by page meanwhile.    *)
(* Every access to the collection is one step; between two of them the     *)
(* other calls go on.                                                      *)
(***************************************************************************)
EXTENDS MongoRepository, Listing

CONSTANTS
  Cat,             \* identifiers a cat may be given
  Caller,          \* calls that may be in progress at the same time
  Kitten,          \* [name, breed, age] of a new cat
  Change,          \* inputs of an update: some of these fields
  Queries,         \* list requests the collection is asked at every state
  Searches,        \* sequences of commands likewise
  MaxCalls, MaxTime

VARIABLES
  docs,            \* the collection
  time,            \* of the last creation
  call,            \* [Caller -> what each call holds]
  calls,           \* bound: calls begun so far
  disturbed,       \* history: another call changed the cat since it was read
  reader,          \* the client that lists
  left, grown      \* history: since it began a cat has left, joined the list

vars == <<docs, time, call, calls, disturbed, reader, left, grown>>

Attribute == {"name", "breed", "age"}    \* texts and numbers alike are numbers here
Doc == [id : Cat, createdAt : 1..MaxTime, deletedAt : 0..MaxTime,
        name : Int, breed : Int, age : Int]

(* Identifiers are UUIDs.  A list without a sort is sorted by creation,    *)
(* which the cats' paginate allows.  An update's input has no other fields *)
(* (CatUpdateSchema); so has, here, that of createOrUpdate, which nothing  *)
(* calls and whose type would let it name others.                          *)
ASSUME CatsAssumption ==
  /\ IsFiniteSet(Cat)
  /\ MaxCalls \in Nat /\ MaxTime \in Nat \ {0}
  /\ None \notin Caller /\ None \notin Doc
  /\ Kitten \subseteq [name : Int, breed : Int, age : Int]
  /\ \A change \in Change : \E F \in SUBSET Attribute : change \in [F -> Int]
  /\ SortedBy(<<>>) = <<"createdAt">>

(* What may be asked: sequences; a limit may be no number, an identifier   *)
(* is nothing that the cats' paginate allows to be searched.               *)
Sequence(s) == s \in Seq(Range(s))
ASSUME AskingAssumption ==
  /\ "id" \notin LikeAllowed \cup EqualAllowed
  /\ \A q \in Queries :
       /\ q.limit \in Int \cup {NaN}
       /\ Sequence(q.search) /\ \A i \in DOMAIN q.search : Sequence(q.search[i].values)
  /\ \A s \in Searches : Sequence(s)

Idle == [op |-> "none", step |-> "idle", cat |-> None, input |-> None,
         read |-> None, wrote |-> FALSE, answer |-> None]
Resting == [page |-> 0, due |-> {}, seen |-> {}, repeated |-> FALSE, done |-> FALSE]

Reading == reader.page > 0 /\ ~reader.done
Ties == \E c, d \in Stored(docs) : c # d /\ docs[c].createdAt = docs[d].createdAt

----------------------------------------------------------------------------

(* A write of the caller who, seen by the others.                          *)
Store(new, who) ==
  /\ docs' = new
  /\ left' = (left \/ (Reading /\ ~(Live(docs) \subseteq Live(new))))
  /\ grown' = (grown \/ (Reading /\ ~(Live(new) \subseteq Live(docs))))
  /\ disturbed' = [p \in Caller |->
       disturbed[p] \/ (p # who /\ call[p].op = "update" /\ new[call[p].cat] # docs[call[p].cat])]

Unstored == UNCHANGED <<docs, left, grown, disturbed>>

NewCat(id, kitten) ==
  Spread(kitten, [id |-> id, createdAt |-> time', deletedAt |-> 0])

(* The clock, read to the millisecond, may have moved since the last cat   *)
(* was created; only there does it matter whether it has.                  *)
Clock == time' \in {time, time + 1} \cap 1..MaxTime

(* cat-create: an identifier of its own.                                   *)
Create ==
  /\ Clock
  /\ \E c \in Cat \ Stored(docs), k \in Kitten :
       Store(InsertMany(docs, [i \in {c} |-> NewCat(i, k)]), None)
  /\ UNCHANGED <<call, calls, reader>>

(* cat-update, cat-delete, and createOrUpdate of the repository begin with *)
(* findById; when it finds nothing the use cases answer 404 and are done,  *)
(* and createOrUpdate goes on to create.                                   *)
Begin(p, op, c, input) ==
  LET found == FindById(docs, c)
  IN  /\ call[p] = Idle /\ calls < MaxCalls
      /\ found = None => op = "upsert"
      /\ call' = [call EXCEPT ![p] = [op |-> op, step |-> "write", cat |-> c, input |-> input,
                                      read |-> found, wrote |-> FALSE, answer |-> None]]
      /\ calls' = calls + 1
      /\ Unstored /\ UNCHANGED <<time, reader>>

ReadForUpdate(p) == \E c \in Cat, input \in Change : Begin(p, "update", c, input)
ReadForDelete(p) == \E c \in Cat : Begin(p, "delete", c, None)
ReadForUpsert(p) == \E c \in Cat, input \in Change : Begin(p, "upsert", c, input)

(* Fault: what is stored wins over the input.                              *)
MergedOntoInput(cat, input) == Spread(input, cat)

Merged(cat, input) == Spread(cat, input)

(* The whole entity as it was read goes into $set; whether a document      *)
(* matched is not looked at.                                               *)
WriteUpdate(p) ==
  /\ call[p].op = "update" /\ call[p].step = "write"
  /\ \E new \in UpdateOne(docs, [id |-> call[p].cat], Merged(call[p].read, call[p].input)) :
       /\ Store(new, p)
       /\ call' = [call EXCEPT ![p].step = "reread",
                               ![p].wrote = Found(docs, Converted([id |-> call[p].cat])) # {}]
  /\ UNCHANGED <<time, calls, reader>>

(* The answer is what is stored now.                                       *)
Reread(p) ==
  /\ call[p].step = "reread"
  /\ call' = [call EXCEPT ![p].step = "done", ![p].answer = FindById(docs, call[p].cat)]
  /\ Unstored /\ UNCHANGED <<time, calls, reader>>

(* deactivated(); the answer is the entity, stored or not.                 *)
WriteDelete(p) ==
  /\ call[p].op = "delete"
  /\ \E new \in UpdateOne(docs, [id |-> call[p].cat], [call[p].read EXCEPT !.deletedAt = time]) :
       Store(new, p)
  /\ call' = [call EXCEPT ![p] = Idle]
  /\ UNCHANGED <<time, calls, reader>>

(* createOrUpdate: what was found decides; a duplicate identifier fails.   *)
WriteUpsert(p) ==
  /\ call[p].op = "upsert" /\ Clock
  /\ \/ /\ call[p].read # None
        /\ Store(UpdateById(docs, call[p].cat, call[p].input), p)
     \/ /\ call[p].read = None /\ CanInsert(docs, {call[p].cat})
        /\ \E k \in Kitten :
             Store(InsertMany(docs, [i \in {call[p].cat} |-> Spread(NewCat(i, k), call[p].input)]), p)
     \/ call[p].read = None /\ ~CanInsert(docs, {call[p].cat}) /\ Unstored
  /\ call' = [call EXCEPT ![p] = Idle]
  /\ UNCHANGED <<calls, reader>>

(* The update is answered.                                                 *)
Leave(p) ==
  /\ call[p].step = "done"
  /\ call' = [call EXCEPT ![p] = Idle]
  /\ disturbed' = [disturbed EXCEPT ![p] = FALSE]
  /\ UNCHANGED <<docs, left, grown, time, calls, reader>>

(* The operations of the repository that are a single write.               *)
Direct ==
  /\ calls < MaxCalls /\ calls' = calls + 1 /\ Clock
  /\ \E k \in Kitten, change \in Change :
       \/ \E ids \in SUBSET (Cat \ Stored(docs)) :
            Cardinality(ids) = 2 /\ Store(InsertMany(docs, [i \in ids |-> NewCat(i, k)]), None)
       \/ Store(UpdateMany(docs, [breed |-> k.breed], change), None)
       \/ \E new \in UpdateOne(docs, [breed |-> k.breed], change) : Store(new, None)
  /\ UNCHANGED <<call, reader>>

----------------------------------------------------------------------------
(* Reading the list by pages, without limit, search or sort: by creation.  *)

Documents == {docs[c] : c \in Stored(docs)}
NoSearch == MongoFilter(<<>>)

StartReading ==
  /\ reader = Resting
  /\ reader' = [Resting EXCEPT !.page = 1, !.due = Live(docs)]
  /\ UNCHANGED <<docs, time, call, calls, disturbed, left, grown>>

(* paginate; a page that is not full is taken for the last.                *)
ReadPage ==
  /\ Reading
  /\ \E s \in Sorted({d \in Documents : MatchesMongo(d, NoSearch)}, <<>>) :
       LET got == {d.id : d \in Range(PageOf(s, reader.page, DefaultLimit))}
       IN  reader' = [reader EXCEPT !.page = @ + 1,
                                    !.seen = @ \cup got,
                                    !.repeated = @ \/ got \cap reader.seen # {},
                                    !.done = Cardinality(got) < DefaultLimit]
  /\ UNCHANGED <<docs, time, call, calls, disturbed, left, grown>>

Init ==
  /\ docs = [c \in Cat |-> None] /\ time = 1
  /\ call = [p \in Caller |-> Idle] /\ calls = 0
  /\ disturbed = [p \in Caller |-> FALSE]
  /\ reader = Resting /\ left = FALSE /\ grown = FALSE

Next ==
  \/ Create \/ Direct \/ StartReading \/ ReadPage
  \/ \E p \in Caller :
       \/ ReadForUpdate(p) \/ WriteUpdate(p) \/ Reread(p)
       \/ ReadForDelete(p) \/ WriteDelete(p)
       \/ ReadForUpsert(p) \/ WriteUpsert(p)
       \/ Leave(p)

Spec == Init /\ [][Next]_vars

----------------------------------------------------------------------------
Call == [op : {"none", "update", "delete", "upsert"}, step : {"idle", "write", "reread", "done"},
         cat : Cat \cup {None}, input : Change \cup {None}, read : Doc \cup {None},
         wrote : BOOLEAN, answer : Doc \cup {None}]
Reader == [page : Nat, due : SUBSET Cat, seen : SUBSET Cat, repeated : BOOLEAN, done : BOOLEAN]

(* Every variable keeps its type, and a document its identifier.           *)
TypeOK ==
  /\ docs \in [Cat -> Doc \cup {None}]
  /\ \A c \in Stored(docs) : docs[c].id = c
  /\ time \in 1..MaxTime
  /\ call \in [Caller -> Call]
  /\ calls \in 0..MaxCalls
  /\ disturbed \in [Caller -> BOOLEAN]
  /\ reader \in Reader
  /\ left \in BOOLEAN /\ grown \in BOOLEAN

----------------------------------------------------------------------------
(* Properties.                                                             *)

(* DeletedStaysDeleted: whatever calls overlap, a cat marked deleted keeps *)
(* that mark and its date; nothing but createOrUpdate, which names the     *)
(* identifier alone, changes it at all (convert-mongo-filter, updateOne).  *)
DeletionStands ==
  \A c \in Stored(docs) : docs[c].deletedAt # 0 =>
    /\ docs'[c].deletedAt = docs[c].deletedAt
    /\ docs'[c] # docs[c] => \E p \in Caller : call[p].op = "upsert" /\ call[p].cat = c
DeletedStaysDeleted == [][DeletionStands]_vars

(* UpdateAnswersTruly: an update that is answered with a cat not deleted   *)
(* was written, though cat-update never looks; and unless another call     *)
(* came between, the answer is the cat it read with its input and nothing  *)
(* else changed.                                                           *)
Answer(q) ==
  [f \in DOMAIN q.read |-> IF f \in DOMAIN q.input THEN q.input[f] ELSE q.read[f]]
AnswersTruly(p) ==
  LET q == call[p] IN
    q.op = "update" /\ q.answer # None /\ q.answer.deletedAt = 0 =>
      q.wrote /\ (~disturbed[p] => q.answer = Answer(q))
UpdateAnswersTruly == \A p \in Caller : AnswersTruly(p)

(* PagesMissNobody: a client that reads page after page has seen at the    *)
(* end every cat that was there at the beginning, unless one was deleted   *)
(* meanwhile or two were created at the same time; cats that join only     *)
(* make it see one twice.                                                  *)
PagesMissNobody ==
  /\ reader.done => left \/ Ties \/ reader.due \subseteq reader.seen
  /\ reader.repeated => grown \/ Ties

(* IInv: the inductive strengthening behind these.                         *)
(* CallKnown: a call in progress is of a cat that is stored; what an update*)
(* has read or written is what is stored, unless another call changed it.  *)
(* ReaderKnown: the cats a reader has still to see come after the pages it *)
(* has read unless one left, those it has seen within them unless one      *)
(* joined.  Rank: the place of a cat in the list.                          *)
CallKnown(p) ==
  LET q == call[p] IN
  \/ q = Idle
  \/ /\ q.op \in {"update", "delete", "upsert"} /\ q.cat \in Cat
     /\ q.step # "write" => q.op = "update" /\ q.step \in {"reread", "done"}
     /\ q.op \in {"update", "upsert"} => q.input \in Change
     /\ q.read # None => q.read.id = q.cat /\ docs[q.cat] # None
     /\ q.op # "upsert" => q.read # None
     /\ q.step # "done" => q.answer = None
     /\ q.op = "update" /\ q.step = "write" /\ ~disturbed[p] => docs[q.cat] = q.read
     /\ q.step = "reread" /\ docs[q.cat].deletedAt = 0 =>
          q.wrote /\ (~disturbed[p] => docs[q.cat] = Answer(q))

Rank(c) == Cardinality({e \in Live(docs) : docs[e].createdAt >= docs[c].createdAt})
ReaderKnown ==
  /\ reader = Resting \/ reader.page > 0
  /\ Reading /\ ~left /\ ~Ties =>
       \A c \in reader.due \ reader.seen :
         c \in Live(docs) /\ Rank(c) > Skip(reader.page, DefaultLimit)
  /\ Reading /\ ~grown /\ ~Ties =>
       \A c \in reader.seen \cap Live(docs) : Rank(c) <= Skip(reader.page, DefaultLimit)

IInv ==
  /\ TypeOK
  /\ UpdateAnswersTruly
  /\ PagesMissNobody
  /\ \A p \in Caller : CallKnown(p)
  /\ ReaderKnown

(* ReadsFindWhatWasAsked: a list request that passes every check, with     *)
(* several values for at most one field, shows only live cats that have    *)
(* for every field one of the values asked.  Each page is a query of its   *)
(* own and may put ties in another order (cat/repository.ts): a cat whose  *)
(* ties all fall on one page is on that page and on no other, whatever     *)
(* order each page has; ties that go on to the next page may hide a cat or *)
(* show it twice.  Commands find what they say when each is on a field of  *)
(* its own, or are refused, and PostgreSQL's filter would show no cat that *)
(* MongoDB's hides.  Only the collection matters: it is asked when no call *)
(* is in progress.                                                         *)
Asked(d, search) ==
  /\ d.deletedAt = 0
  /\ \A f \in DOMAIN SearchAsked(search) : \E v \in Range(SearchAsked(search)[f]) : Fits(d, f, v)

OneOfSeveral(search) ==
  \A f, g \in DOMAIN SearchAsked(search) :
    Several(SearchAsked(search)[f]) /\ Several(SearchAsked(search)[g]) => f = g

ListsWhatWasAsked(q) ==
  MongoStatus(q) = OK /\ OneOfSeveral(q.search) =>
    LET shown == {d \in Documents : MatchesMongo(d, MongoFilter(q.search))}
        size == Limit(q.limit) \div 2
        Number == 1..Cardinality(shown) + 1
        Earliest(d) == Cardinality({e \in shown : Before(e, d, q.sort)}) + 1
        Latest(d) == Cardinality({e \in shown : ~Before(d, e, q.sort)})
        HasAllTies(n, d) == Skip(n, size) < Earliest(d) /\ Latest(d) <= Skip(n, size) + size
    IN  /\ size \in 1..MaxLimit
        /\ \A s \in Sorted(shown, q.sort), n \in Number :
             \A d \in Range(PageOf(s, n, size)) : Asked(d, q.search)
        /\ \A s \in Sorted(shown, q.sort), d \in Documents, n \in Number :
             Asked(d, q.search) /\ HasAllTies(n, d) =>
               \A m \in Number : d \in Range(PageOf(s, m, size)) <=> m = n

FindsWhatIsCommanded(commands) ==
  Admitted(commands) /\ (\A i, j \in DOMAIN commands : commands[i].property = commands[j].property => i = j) =>
    FindByCommands(docs, commands, Part) =
      {c \in Live(docs) : \A i \in DOMAIN commands : Satisfies(docs[c], commands[i], Part)}

SqlShowsNoMore(search) ==
  OneOfSeveral(search) => \A d \in Documents :
    MatchesSql(d, SqlFilter(search)) => MatchesMongo(d, MongoFilter(search))

ReadsFindWhatWasAsked ==
  reader = Resting /\ (\A p \in Caller : call[p] = Idle) =>
    /\ \A q \in Queries : ListsWhatWasAsked(q) /\ (SqlStatus(q) = OK => SqlShowsNoMore(q.search))
    /\ \A s \in Searches : FindsWhatIsCommanded(s)
=============================================================================
