---------------------------- MODULE Cats_proofs ----------------------------
(***************************************************************************)
(* Every behaviour of Cats, whatever calls overlap, keeps its types, the   *)
(* deleted cats as they were deleted, the answers of updates true and the  *)
(* pages of a reader complete; and every request that passes the checks is *)
(* shown what it asked for, each cat once unless ties go over a page's end.*)
(*                                                                         *)
(* IInv is inductive.  A write of any kind is summed up by Writes: the     *)
(* documents evolve, and those who watch are told.  StepKeeps then has one *)
(* premise per call: it stays as it is, or is known anew.  The reader      *)
(* rests on PlaceIsRank: the position of a cat in the sorted list is the   *)
(* number of live cats created no earlier, which only another cat's        *)
(* leaving can lower and only another's joining can raise.                 *)
(***************************************************************************)
EXTENDS Cats, FiniteSetTheorems, TLAPS

----------------------------------------------------------------------------
(* What the repository's operations leave of a document.                   *)

(* The fields of a document. *)
LEMMA DocFacts ==
  ASSUME NEW d \in Doc
  PROVE /\ DOMAIN d = {"id", "createdAt", "deletedAt", "name", "breed", "age"}
        /\ d.id \in Cat /\ d.createdAt \in 1..MaxTime /\ d.deletedAt \in 0..MaxTime
        /\ d.createdAt \in Nat /\ d.deletedAt \in Nat
        /\ d = [f \in DOMAIN d |-> d[f]] /\ d # None
BY CatsAssumption DEF Doc

(* The fields a $set may hold, with values they may take. *)
Settable(ch) ==
  /\ "deletedAt" \in DOMAIN ch => ch.deletedAt \in 0..MaxTime
  /\ \A f \in DOMAIN ch \cap Attribute : ch[f] \in Int

(* $set leaves a document, its identifier and its time of creation. *)
LEMMA AssignedIsDoc ==
  ASSUME NEW d \in Doc, NEW ch, Settable(ch)
  PROVE /\ Assigned(d, ch) \in Doc
        /\ Assigned(d, ch).id = d.id /\ Assigned(d, ch).createdAt = d.createdAt
        /\ Assigned(d, ch).deletedAt = IF "deletedAt" \in DOMAIN ch THEN ch.deletedAt ELSE d.deletedAt
BY DEF Doc, Assigned, Settable, Attribute

(* The input of an update never names deletedAt or an identifier. *)
LEMMA ChangeIsSettable ==
  ASSUME NEW ch \in Change PROVE Settable(ch) /\ DOMAIN ch \subseteq Attribute
<1>1. PICK F \in SUBSET Attribute : ch \in [F -> Int]
  BY CatsAssumption
<1>2. DOMAIN ch = F /\ \A f \in F : ch[f] \in Int
  BY <1>1
<1> QED BY <1>1, <1>2 DEF Settable, Attribute

(* A new cat is a live document. *)
LEMMA NewCatIsDoc ==
  ASSUME NEW id \in Cat, NEW k \in Kitten, time' \in 1..MaxTime
  PROVE NewCat(id, k) \in Doc /\ NewCat(id, k).id = id /\ NewCat(id, k).deletedAt = 0
<1>1. k \in [name : Int, breed : Int, age : Int]
  BY CatsAssumption
<1> QED BY <1>1, CatsAssumption DEF NewCat, Doc, Spread

(* So is one that createOrUpdate creates. *)
LEMMA InputOverNew ==
  ASSUME NEW d \in Doc, NEW ch \in Change
  PROVE Spread(d, ch) \in Doc /\ Spread(d, ch).id = d.id /\ Spread(d, ch).deletedAt = d.deletedAt
<1>1. PICK F \in SUBSET Attribute : ch \in [F -> Int]
  BY CatsAssumption
<1> QED BY <1>1 DEF Doc, Spread, Attribute

(* cat-update sets every field, to what was given or else to what it read. *)
LEMMA MergedIsSettable ==
  ASSUME NEW d \in Doc, NEW ch \in Change
  PROVE /\ Settable(Merged(d, ch))
        /\ DOMAIN Merged(d, ch) = DOMAIN d
        /\ \A f \in DOMAIN d : Merged(d, ch)[f] = IF f \in DOMAIN ch THEN ch[f] ELSE d[f]
<1>1. DOMAIN ch \subseteq Attribute /\ \A f \in DOMAIN ch : ch[f] \in Int
  BY ChangeIsSettable DEF Settable
<1>2. DOMAIN d = Attribute \cup {"id", "createdAt", "deletedAt"}
  BY DocFacts DEF Attribute
<1>3. Attribute \subseteq DOMAIN d /\ \A f \in Attribute : d[f] \in Int
  BY <1>2 DEF Attribute, Doc
<1>4. /\ DOMAIN Merged(d, ch) = DOMAIN d
      /\ \A f \in DOMAIN d : Merged(d, ch)[f] = IF f \in DOMAIN ch THEN ch[f] ELSE d[f]
  BY <1>1, <1>2 DEF Merged, Spread
<1>5. Merged(d, ch).deletedAt \in 0..MaxTime
  BY <1>1, <1>2, <1>4, DocFacts DEF Attribute
<1>6. \A f \in Attribute : Merged(d, ch)[f] \in Int
  BY <1>1, <1>3, <1>4
<1> QED BY <1>4, <1>5, <1>6 DEF Settable

(* A filter that deletedAt = null is added to. *)
LEMMA FoundAreLive ==
  ASSUME NEW col \in [Cat -> Doc \cup {None}], NEW filter, "deletedAt" \notin DOMAIN filter
  PROVE /\ Found(col, Converted(filter)) =
             {c \in Live(col) : \A f \in DOMAIN filter : col[c][f] = filter[f]}
        /\ Found(col, Converted(filter)) \subseteq Cat
<1>1. /\ DOMAIN Converted(filter) = DOMAIN filter \cup {"deletedAt"}
      /\ Converted(filter)["deletedAt"] = 0
      /\ \A f \in DOMAIN filter : Converted(filter)[f] = filter[f]
  BY DEF Converted, Spread
<1> QED BY <1>1 DEF Found, Live, Stored

----------------------------------------------------------------------------
(* What every write leaves of the collection: documents stay, with their   *)
(* identifier, their time of creation and, once deleted, that mark.        *)
Evolves(new) ==
  /\ new \in [Cat -> Doc \cup {None}]
  /\ \A c \in Cat : new[c] # None => new[c].id = c
  /\ \A c \in Stored(docs) :
       /\ new[c] \in Doc /\ new[c].createdAt = docs[c].createdAt
       /\ docs[c].deletedAt # 0 => new[c].deletedAt = docs[c].deletedAt
SparesDeleted(new) == \A c \in Stored(docs) : docs[c].deletedAt # 0 => new[c] = docs[c]

(* No write at all. *)
LEMMA DocsEvolve == TypeOK => Evolves(docs) /\ SparesDeleted(docs)
BY DEF TypeOK, Evolves, SparesDeleted, Stored

(* Inserting documents where none was. *)
LEMMA InsertEvolves ==
  ASSUME TypeOK, NEW ids \in SUBSET (Cat \ Stored(docs)), NEW new, DOMAIN new = ids,
         \A c \in ids : new[c] \in Doc /\ new[c].id = c
  PROVE /\ Evolves(InsertMany(docs, new)) /\ SparesDeleted(InsertMany(docs, new))
        /\ \A c \in Cat \ ids : InsertMany(docs, new)[c] = docs[c]
<1>1. docs \in [Cat -> Doc \cup {None}] /\ \A c \in Stored(docs) : docs[c].id = c /\ c \in Cat \ ids
  BY DEF TypeOK, Stored
<1>2. \A c \in Cat : InsertMany(docs, new)[c] = IF c \in ids THEN new[c] ELSE docs[c]
  BY <1>1 DEF InsertMany
<1>3. InsertMany(docs, new) \in [Cat -> Doc \cup {None}]
  BY <1>1 DEF InsertMany
<1> QED BY <1>1, <1>2, <1>3 DEF Evolves, SparesDeleted, Stored

(* Setting fields of some documents, live ones or not deletedAt. *)
LEMMA UpdateEvolves ==
  ASSUME TypeOK, NEW ids \in SUBSET Stored(docs), NEW ch, Settable(ch),
         ids \subseteq Live(docs) \/ "deletedAt" \notin DOMAIN ch
  PROVE /\ Evolves(UpdateAll(docs, ids, ch))
        /\ ids \subseteq Live(docs) => SparesDeleted(UpdateAll(docs, ids, ch))
        /\ \A c \in Cat \ ids : UpdateAll(docs, ids, ch)[c] = docs[c]
        /\ \A c \in ids : UpdateAll(docs, ids, ch)[c] = Assigned(docs[c], ch)
<1>1. /\ docs \in [Cat -> Doc \cup {None}]
      /\ \A c \in Stored(docs) : c \in Cat /\ docs[c].id = c /\ docs[c] \in Doc
  BY DEF TypeOK, Stored
<1>2. \A c \in Cat : UpdateAll(docs, ids, ch)[c] = IF c \in ids THEN Assigned(docs[c], ch) ELSE docs[c]
  BY <1>1 DEF UpdateAll
<1>3. ASSUME NEW c \in ids
      PROVE /\ Assigned(docs[c], ch) \in Doc
            /\ Assigned(docs[c], ch).id = docs[c].id
            /\ Assigned(docs[c], ch).createdAt = docs[c].createdAt
            /\ docs[c].deletedAt # 0 => Assigned(docs[c], ch).deletedAt = docs[c].deletedAt
  BY <1>1, <1>3, AssignedIsDoc DEF Live
<1>4. UpdateAll(docs, ids, ch) \in [Cat -> Doc \cup {None}]
  BY <1>1, <1>3 DEF UpdateAll
<1>5. ids \subseteq Live(docs) => SparesDeleted(UpdateAll(docs, ids, ch))
  BY <1>1, <1>2 DEF SparesDeleted, Live
<1>6. Evolves(UpdateAll(docs, ids, ch))
  BY <1>1, <1>2, <1>3, <1>4 DEF Evolves, Stored
<1> QED BY <1>1, <1>2, <1>5, <1>6

(* updateOne finds a live document only. *)
LEMMA UpdateOneEvolves ==
  ASSUME TypeOK, NEW filter, "deletedAt" \notin DOMAIN filter, NEW ch, Settable(ch),
         NEW new \in UpdateOne(docs, filter, ch)
  PROVE Evolves(new) /\ SparesDeleted(new)
<1>1. Found(docs, Converted(filter)) \subseteq Live(docs)
  BY FoundAreLive DEF TypeOK
<1>2. CASE new = docs
  BY <1>2, DocsEvolve
<1>3. ASSUME NEW c \in Found(docs, Converted(filter)), new = UpdateAll(docs, {c}, ch)
      PROVE Evolves(new) /\ SparesDeleted(new)
  BY <1>1, <1>3, UpdateEvolves DEF Live
<1> QED BY <1>2, <1>3 DEF UpdateOne

(* What a call in progress holds. *)
LEMMA CallFacts ==
  ASSUME IInv, NEW p \in Caller, call[p].op # "none"
  PROVE /\ call[p].cat \in Cat /\ call[p].op \in {"update", "delete", "upsert"}
        /\ call[p].read # None => call[p].read \in Doc /\ call[p].read.id = call[p].cat
                                   /\ docs[call[p].cat] \in Doc
        /\ call[p].op # "upsert" => call[p].read # None
        /\ call[p].op # "delete" => call[p].input \in Change
<1>1. call[p] \in Call /\ docs \in [Cat -> Doc \cup {None}]
  BY DEF IInv, TypeOK
<1>2. CallKnown(p) /\ call[p] # Idle
  BY DEF IInv, Idle
<1> QED BY <1>1, <1>2 DEF CallKnown, Call

(* Who writes what: a deleted document is written by createOrUpdate alone. *)
Writes(who, new) ==
  /\ Store(new, who) /\ Evolves(new)
  /\ SparesDeleted(new) \/ (who \in Caller /\ call[who].op = "upsert" /\
       \A c \in Stored(docs) : new[c] # docs[c] => c = call[who].cat)

(* cat-create writes. *)
LEMMA CreateWrites ==
  ASSUME IInv, Create PROVE \E new : Writes(None, new)
<1>1. PICK c \in Cat \ Stored(docs), k \in Kitten :
        Store(InsertMany(docs, [i \in {c} |-> NewCat(i, k)]), None)
  BY DEF Create
<1>2. time' \in 1..MaxTime
  BY DEF Create, Clock
<1>3. NewCat(c, k) \in Doc /\ NewCat(c, k).id = c
  BY <1>2, NewCatIsDoc
<1>4. Evolves(InsertMany(docs, [i \in {c} |-> NewCat(i, k)]))
      /\ SparesDeleted(InsertMany(docs, [i \in {c} |-> NewCat(i, k)]))
  BY <1>3, InsertEvolves DEF IInv
<1> QED BY <1>1, <1>4 DEF Writes

(* So do the single operations of the repository. *)
LEMMA DirectWrites ==
  ASSUME IInv, Direct PROVE \E new : Writes(None, new)
<1>1. TypeOK /\ time' \in 1..MaxTime
  BY DEF IInv, Direct, Clock
<1>2. PICK k \in Kitten, change \in Change :
        \/ \E ids \in SUBSET (Cat \ Stored(docs)) :
             Cardinality(ids) = 2 /\ Store(InsertMany(docs, [i \in ids |-> NewCat(i, k)]), None)
        \/ Store(UpdateMany(docs, [breed |-> k.breed], change), None)
        \/ \E new \in UpdateOne(docs, [breed |-> k.breed], change) : Store(new, None)
  BY DEF Direct
<1>3. Settable(change) /\ "deletedAt" \notin DOMAIN [breed |-> k.breed]
  BY ChangeIsSettable
<1>4. ASSUME NEW ids \in SUBSET (Cat \ Stored(docs)),
             Store(InsertMany(docs, [i \in ids |-> NewCat(i, k)]), None)
      PROVE \E new : Writes(None, new)
  <2>1. \A c \in ids : NewCat(c, k) \in Doc /\ NewCat(c, k).id = c
    BY <1>1, NewCatIsDoc
  <2>2. Evolves(InsertMany(docs, [i \in ids |-> NewCat(i, k)]))
        /\ SparesDeleted(InsertMany(docs, [i \in ids |-> NewCat(i, k)]))
    BY <1>1, <2>1, InsertEvolves
  <2> QED BY <1>4, <2>2 DEF Writes
<1>5. CASE Store(UpdateMany(docs, [breed |-> k.breed], change), None)
  <2>1. Found(docs, Converted([breed |-> k.breed])) \subseteq Live(docs)
    BY <1>1, <1>3, FoundAreLive DEF TypeOK
  <2>2. Evolves(UpdateMany(docs, [breed |-> k.breed], change))
        /\ SparesDeleted(UpdateMany(docs, [breed |-> k.breed], change))
    BY <1>1, <1>3, <2>1, UpdateEvolves DEF UpdateMany, Live
  <2> QED BY <1>5, <2>2 DEF Writes
<1>6. ASSUME NEW new \in UpdateOne(docs, [breed |-> k.breed], change), Store(new, None)
      PROVE \E x : Writes(None, x)
  BY <1>1, <1>3, <1>6, UpdateOneEvolves DEF Writes
<1> QED BY <1>2, <1>4, <1>5, <1>6

(* So does an update, and what is then stored is what it will answer. *)
LEMMA UpdateWrites ==
  ASSUME IInv, NEW p \in Caller, WriteUpdate(p)
  PROVE /\ \E new : Writes(p, new) /\ UNCHANGED <<time, calls, reader>>
        /\ CallKnown(p)' /\ call'[p].answer = None
        /\ \A d \in Caller \ {p} : call'[d] = call[d]
<1> DEFINE q == call[p]  filter == [id |-> q.cat]  merged == Merged(q.read, q.input)
<1>1. /\ q.op = "update" /\ q.step = "write" /\ q.cat \in Cat /\ q.read \in Doc
      /\ q.read.id = q.cat /\ docs[q.cat] \in Doc /\ q.input \in Change
      /\ q.read # None /\ docs[q.cat] # None
  BY CallFacts, CatsAssumption DEF WriteUpdate
<1>2. /\ TypeOK /\ docs \in [Cat -> Doc \cup {None}] /\ call \in [Caller -> Call]
      /\ \A c \in Stored(docs) : docs[c].id = c
      /\ q.answer = None /\ (~disturbed[p] => docs[q.cat] = q.read)
  BY <1>1 DEF IInv, TypeOK, CallKnown, Idle
<1>3. Settable(merged) /\ DOMAIN merged = DOMAIN q.read
      /\ \A f \in DOMAIN q.read : merged[f] = IF f \in DOMAIN q.input THEN q.input[f] ELSE q.read[f]
  BY <1>1, MergedIsSettable
<1>4. PICK new \in UpdateOne(docs, filter, merged) : Store(new, p)
  BY DEF WriteUpdate
<1>5. Evolves(new) /\ SparesDeleted(new)
  BY <1>2, <1>3, UpdateOneEvolves
<1>6. PICK wrote \in BOOLEAN :
        /\ wrote <=> Found(docs, Converted(filter)) # {}
        /\ call' = [call EXCEPT ![p].step = "reread", ![p].wrote = wrote]
  <2> DEFINE wrote == Found(docs, Converted(filter)) # {}
  <2>1. wrote \in BOOLEAN /\ call' = [call EXCEPT ![p].step = "reread", ![p].wrote = wrote]
    BY DEF WriteUpdate
  <2> QED BY <2>1
<1>7. /\ call'[p].op = "update" /\ call'[p].step = "reread" /\ call'[p].cat = q.cat
      /\ call'[p].input = q.input /\ call'[p].read = q.read /\ call'[p].answer = None
      /\ call'[p].wrote = wrote
      /\ \A d \in Caller \ {p} : call'[d] = call[d]
  <2>1. q \in Call /\ p \in DOMAIN call
    BY <1>2
  <2>2. call'[p] = [q EXCEPT !.step = "reread", !.wrote = wrote]
        /\ \A d \in Caller \ {p} : call'[d] = call[d]
    BY <1>2, <1>6
  <2> QED BY <1>1, <1>2, <2>1, <2>2 DEF Call
<1>8. Found(docs, Converted(filter)) = Live(docs) \cap {q.cat}
  <2>1. Found(docs, Converted(filter)) = {c \in Live(docs) : docs[c].id = q.cat}
    BY <1>2, FoundAreLive
  <2> QED BY <1>1, <1>2, <2>1 DEF Live
<1>9. docs' = new /\ disturbed' = [d \in Caller |->
        disturbed[d] \/ (d # p /\ call[d].op = "update" /\ new[call[d].cat] # docs[call[d].cat])]
  BY <1>4 DEF Store
<1>10. disturbed'[p] = disturbed[p]
  BY <1>2, <1>9 DEF TypeOK
<1>11. ASSUME docs'[q.cat].deletedAt = 0
       PROVE call'[p].wrote /\ (~disturbed'[p] => docs'[q.cat] = Answer(call'[p]))
  <2>1. docs[q.cat].deletedAt = 0
    BY <1>1, <1>2, <1>5, <1>9, <1>11 DEF Evolves, Stored
  <2>2. q.cat \in Live(docs)
    BY <1>1, <1>2, <2>1 DEF Live, Stored
  <2>3. new = UpdateAll(docs, {q.cat}, merged)
    BY <1>4, <1>8, <2>2 DEF UpdateOne
  <2>4. docs'[q.cat] = Assigned(docs[q.cat], merged)
    BY <1>1, <1>2, <1>9, <2>3 DEF UpdateAll
  <2>5. ~disturbed[p] => Assigned(docs[q.cat], merged) = Answer(q)
    <3> SUFFICES ASSUME docs[q.cat] = q.read PROVE Assigned(q.read, merged) = Answer(q)
      BY <1>2
    <3>1. DOMAIN q.input \subseteq Attribute
      BY <1>1, ChangeIsSettable
    <3>2. Assigned(q.read, merged) = [f \in DOMAIN q.read |->
            IF f \in DOMAIN q.read \ {"id", "createdAt"} THEN merged[f] ELSE q.read[f]]
      BY <1>3 DEF Assigned
    <3>3. \A f \in DOMAIN q.read :
            (IF f \in DOMAIN q.read \ {"id", "createdAt"} THEN merged[f] ELSE q.read[f])
              = IF f \in DOMAIN q.input THEN q.input[f] ELSE q.read[f]
      BY <1>3, <3>1 DEF Attribute
    <3> QED BY <3>2, <3>3 DEF Answer
  <2>6. wrote
    BY <1>6, <1>8, <2>2
  <2> QED BY <1>7, <1>10, <2>4, <2>5, <2>6 DEF Answer
<1>12. docs'[q.cat] # None
  BY <1>1, <1>2, <1>5, <1>9, CatsAssumption DEF Evolves, Stored
<1>13. CallKnown(p)'
  BY <1>1, <1>7, <1>11, <1>12 DEF CallKnown
<1> QED BY <1>4, <1>5, <1>7, <1>13 DEF Writes, WriteUpdate

(* So does a deletion. *)
LEMMA DeleteWrites ==
  ASSUME IInv, NEW p \in Caller, WriteDelete(p) PROVE \E new : Writes(p, new)
<1> DEFINE q == call[p]  changed == [q.read EXCEPT !.deletedAt = time]
<1>1. q.op = "delete" /\ q.cat \in Cat /\ q.read \in Doc
  BY CallFacts DEF WriteDelete
<1>2. PICK new \in UpdateOne(docs, [id |-> q.cat], changed) : Store(new, p)
  BY DEF WriteDelete
<1>3. Settable(changed)
  BY <1>1 DEF Settable, Attribute, Doc, IInv, TypeOK
<1>4. Evolves(new) /\ SparesDeleted(new)
  BY <1>3, UpdateOneEvolves DEF IInv
<1> QED BY <1>2, <1>4 DEF Writes

(* createOrUpdate writes one document or, refused, nothing. *)
LEMMA UpsertWrites ==
  ASSUME IInv, NEW p \in Caller, WriteUpsert(p)
  PROVE (\E new : Writes(p, new)) \/ Unstored
<1> DEFINE q == call[p]
<1>1. TypeOK /\ time' \in 1..MaxTime /\ q.op = "upsert" /\ q.cat \in Cat /\ q.input \in Change
  BY CallFacts DEF WriteUpsert, IInv, Clock
<1>2. Settable(q.input) /\ "deletedAt" \notin DOMAIN q.input
  BY <1>1, ChangeIsSettable DEF Attribute
<1>3. CASE Store(UpdateById(docs, q.cat, q.input), p)
  <2> DEFINE ids == {q.cat} \cap Stored(docs)
  <2>0. ids \subseteq Stored(docs) /\ UpdateById(docs, q.cat, q.input) = UpdateAll(docs, ids, q.input)
    BY DEF UpdateById
  <2> HIDE DEF ids
  <2>1. /\ Evolves(UpdateAll(docs, ids, q.input))
        /\ \A c \in Cat \ ids : UpdateAll(docs, ids, q.input)[c] = docs[c]
    BY <1>1, <1>2, <2>0, UpdateEvolves
  <2>2. Stored(docs) \subseteq Cat /\ ids \subseteq {q.cat}
    BY <1>1 DEF TypeOK, Stored, ids
  <2> QED BY <1>1, <1>3, <2>0, <2>1, <2>2 DEF Writes
<1>4. ASSUME CanInsert(docs, {q.cat}), NEW k \in Kitten,
             Store(InsertMany(docs, [i \in {q.cat} |-> Spread(NewCat(i, k), q.input)]), p)
      PROVE \E new : Writes(p, new)
  <2> DEFINE d == Spread(NewCat(q.cat, k), q.input)
  <2>1. q.cat \in Cat \ Stored(docs)
    BY <1>1, <1>4 DEF CanInsert
  <2>2. d \in Doc /\ d.id = q.cat
    BY <1>1, NewCatIsDoc, InputOverNew
  <2>3. Evolves(InsertMany(docs, [i \in {q.cat} |-> Spread(NewCat(i, k), q.input)]))
        /\ SparesDeleted(InsertMany(docs, [i \in {q.cat} |-> Spread(NewCat(i, k), q.input)]))
    BY <1>1, <2>1, <2>2, InsertEvolves
  <2> QED BY <1>4, <2>3 DEF Writes
<1> QED BY <1>3, <1>4 DEF WriteUpsert

----------------------------------------------------------------------------
(* The list and its reader while the collection changes.                   *)

(* A rank is a number. *)
LEMMA LiveIsFinite ==
  ASSUME TypeOK, NEW c
  PROVE /\ Live(docs) \subseteq Cat /\ IsFiniteSet(Live(docs))
        /\ IsFiniteSet({e \in Live(docs) : docs[e].createdAt >= docs[c].createdAt})
        /\ Rank(c) \in Nat
<1> DEFINE R == {e \in Live(docs) : docs[e].createdAt >= docs[c].createdAt}
<1>1. Live(docs) \subseteq Cat /\ R \subseteq Cat
  BY DEF TypeOK, Live, Stored
<1>2. IsFiniteSet(Live(docs)) /\ IsFiniteSet(R)
  BY <1>1, FS_Subset, CatsAssumption
<1> QED BY <1>1, <1>2, FS_CardinalityType DEF Rank

(* It is one after the step as well. *)
LEMMA LiveIsFiniteNext ==
  ASSUME TypeOK', NEW c
  PROVE /\ (Live(docs) \subseteq Cat)' /\ IsFiniteSet(Live(docs))'
        /\ IsFiniteSet({e \in Live(docs) : docs[e].createdAt >= docs[c].createdAt})'
        /\ Rank(c)' \in Nat
<1> DEFINE R == {e \in Live(docs) : docs[e].createdAt >= docs[c].createdAt}
<1>1. (Live(docs) \subseteq Cat)' /\ (R \subseteq Cat)'
  BY DEF TypeOK, Live, Stored
<1>2. IsFiniteSet(Live(docs))' /\ IsFiniteSet(R)'
  BY <1>1, FS_Subset, CatsAssumption
<1> QED BY <1>1, <1>2, FS_CardinalityType DEF Rank

(* No document goes away or is created anew. *)
LEMMA StoredStays ==
  ASSUME TypeOK, Evolves(docs')
  PROVE /\ \A c \in Stored(docs) : c \in Stored(docs') /\ docs'[c].createdAt = docs[c].createdAt
        /\ Ties => Ties'
<1>1. \A c \in Stored(docs) : c \in Stored(docs') /\ docs'[c].createdAt = docs[c].createdAt
  BY CatsAssumption DEF TypeOK, Evolves, Stored
<1> QED BY <1>1 DEF Ties

(* Cats that join can only raise a rank. *)
LEMMA RankGrows ==
  ASSUME TypeOK, TypeOK', Evolves(docs'), Live(docs) \subseteq Live(docs'), NEW c \in Live(docs)
  PROVE Rank(c)' >= Rank(c)
<1> DEFINE R == {e \in Live(docs) : docs[e].createdAt >= docs[c].createdAt}
<1>1. R \subseteq R'
  BY StoredStays DEF Live
<1>2. Cardinality(R) <= Cardinality(R')
  BY <1>1, LiveIsFiniteNext, FS_Subset
<1>3. Rank(c) = Cardinality(R) /\ Rank(c)' = Cardinality(R')
  BY DEF Rank
<1> HIDE DEF R
<1> QED BY <1>2, <1>3, LiveIsFinite, LiveIsFiniteNext

(* Cats that leave can only lower one. *)
LEMMA RankShrinks ==
  ASSUME TypeOK, TypeOK', Evolves(docs'), Live(docs') \subseteq Live(docs), NEW c \in Live(docs')
  PROVE Rank(c)' <= Rank(c)
<1> DEFINE R == {e \in Live(docs) : docs[e].createdAt >= docs[c].createdAt}
<1>1. R' \subseteq R
  BY StoredStays DEF Live
<1>2. Cardinality(R') <= Cardinality(R)
  BY <1>1, LiveIsFinite, FS_Subset
<1>3. Rank(c) = Cardinality(R) /\ Rank(c)' = Cardinality(R')
  BY DEF Rank
<1> HIDE DEF R
<1> QED BY <1>2, <1>3, LiveIsFinite, LiveIsFiniteNext

(* What the histories of the reader record of a write. *)
Watched ==
  /\ left' \in BOOLEAN /\ grown' \in BOOLEAN
  /\ left' <=> left \/ (Reading /\ ~(Live(docs) \subseteq Live(docs')))
  /\ grown' <=> grown \/ (Reading /\ ~(Live(docs') \subseteq Live(docs)))

(* A write by others keeps what is known of the reader. *)
LEMMA ReaderStays ==
  ASSUME IInv, TypeOK', Evolves(docs'), Watched, reader' = reader
  PROVE ReaderKnown' /\ PagesMissNobody'
<1>1. TypeOK /\ ReaderKnown /\ PagesMissNobody /\ (Reading' <=> Reading) /\ (Ties => Ties')
  BY StoredStays DEF IInv, Reading
<1>2. PagesMissNobody'
  BY <1>1 DEF PagesMissNobody, Watched
<1>3. Skip(reader.page, DefaultLimit) \in Int
  BY LimitAssumption DEF Skip, IInv, TypeOK, Reader
<1>4. ASSUME Reading', ~left', ~Ties', NEW c \in reader.due \ reader.seen
      PROVE c \in Live(docs') /\ Rank(c)' > Skip(reader.page, DefaultLimit)
  <2>1. c \in Live(docs) /\ Rank(c) > Skip(reader.page, DefaultLimit)
        /\ Live(docs) \subseteq Live(docs')
    BY <1>1, <1>4 DEF Watched, ReaderKnown
  <2>2. Rank(c)' >= Rank(c)
    BY <1>1, <2>1, RankGrows
  <2>3. Rank(c) \in Nat /\ Rank(c)' \in Nat
    BY <1>1, LiveIsFinite, LiveIsFiniteNext
  <2> QED BY <1>3, <2>1, <2>2, <2>3
<1>5. ASSUME Reading', ~grown', ~Ties', NEW c \in reader.seen \cap Live(docs')
      PROVE Rank(c)' <= Skip(reader.page, DefaultLimit)
  <2>1. Live(docs') \subseteq Live(docs)
    BY <1>1, <1>5 DEF Watched
  <2>2. c \in Live(docs) /\ Rank(c) <= Skip(reader.page, DefaultLimit)
    BY <1>1, <1>5, <2>1 DEF Watched, ReaderKnown
  <2>3. Rank(c)' <= Rank(c)
    BY <1>1, <1>5, <2>1, RankShrinks
  <2>4. Rank(c) \in Nat /\ Rank(c)' \in Nat
    BY <1>1, LiveIsFinite, LiveIsFiniteNext
  <2> QED BY <1>3, <2>2, <2>3, <2>4
<1> QED BY <1>1, <1>2, <1>4, <1>5 DEF ReaderKnown

----------------------------------------------------------------------------
(* One step of the calls.                                                  *)

(* A call that does not move while another one writes. *)
Stays(d) ==
  /\ call'[d] = call[d]
  /\ disturbed[d] => disturbed'[d]
  /\ call[d].op = "update" /\ docs'[call[d].cat] # docs[call[d].cat] => disturbed'[d]

(* What is known of a call survives the writes of others. *)
LEMMA CallStays ==
  ASSUME IInv, Evolves(docs'), NEW d \in Caller, Stays(d)
  PROVE CallKnown(d)' /\ AnswersTruly(d)'
<1>1. CallKnown(d) /\ AnswersTruly(d) /\ docs \in [Cat -> Doc \cup {None}]
  BY DEF IInv, TypeOK, UpdateAnswersTruly
<1>2. AnswersTruly(d)'
  BY <1>1 DEF AnswersTruly, Stays, Answer
<1>3. CASE call[d] = Idle
  BY <1>2, <1>3 DEF CallKnown, Stays
<1>4. CASE call[d] # Idle
  <2> DEFINE q == call[d]
  <2>1. q.cat \in Cat /\ call'[d] = q
    BY <1>1, <1>4 DEF CallKnown, Stays
  <2>2. docs[q.cat] # None => docs'[q.cat] # None
    BY <1>1, <2>1, CatsAssumption DEF Evolves, Stored
  <2>3. q.step = "reread" /\ docs'[q.cat].deletedAt = 0 =>
          q.wrote /\ (~disturbed'[d] => docs'[q.cat] = Answer(q))
    <3> SUFFICES ASSUME q.step = "reread", docs'[q.cat].deletedAt = 0
                 PROVE q.wrote /\ (~disturbed'[d] => docs'[q.cat] = Answer(q))
      OBVIOUS
    <3>1. q.op = "update" /\ docs[q.cat] # None
      BY <1>1, <1>4 DEF CallKnown
    <3>2. docs[q.cat].deletedAt = 0
      BY <1>1, <2>1, <3>1 DEF Evolves, Stored
    <3> QED BY <1>1, <1>4, <3>1, <3>2 DEF CallKnown, Stays
  <2> QED BY <1>1, <1>2, <1>4, <2>1, <2>2, <2>3 DEF CallKnown, Stays, Answer
<1> QED BY <1>3, <1>4

(* One step: every call stays as it is or is known anew. *)
LEMMA StepKeeps ==
  ASSUME IInv, Evolves(docs'), Watched, reader' = reader,
         time' \in 1..MaxTime, calls' \in 0..MaxCalls,
         call' \in [Caller -> Call], disturbed' \in [Caller -> BOOLEAN],
         \A d \in Caller : Stays(d) \/ (CallKnown(d)' /\ AnswersTruly(d)')
  PROVE IInv'
<1>1. TypeOK'
  BY DEF IInv, TypeOK, Evolves, Watched, Stored
<1>2. \A d \in Caller : CallKnown(d)' /\ AnswersTruly(d)'
  BY CallStays
<1> QED BY <1>1, <1>2, ReaderStays DEF IInv, UpdateAnswersTruly

(* A write as the others see it, and a step that writes nothing. *)
LEMMA WriteIsSeen ==
  ASSUME IInv, NEW who, NEW new, Writes(who, new)
  PROVE /\ Evolves(docs') /\ Watched /\ disturbed' \in [Caller -> BOOLEAN]
        /\ \A d \in Caller \ {who} : call'[d] = call[d] => Stays(d)
        /\ \A d \in Caller : disturbed[d] => disturbed'[d]
<1>1. docs' = new /\ disturbed \in [Caller -> BOOLEAN] /\ left \in BOOLEAN /\ grown \in BOOLEAN
  BY DEF Writes, Store, IInv, TypeOK
<1>2. \A d \in Caller : disturbed'[d] <=>
        disturbed[d] \/ (d # who /\ call[d].op = "update" /\ new[call[d].cat] # docs[call[d].cat])
  BY DEF Writes, Store
<1>3. disturbed' \in [Caller -> BOOLEAN]
  <2>1. \A d \in Caller :
          (disturbed[d] \/ (d # who /\ call[d].op = "update" /\ new[call[d].cat] # docs[call[d].cat]))
            \in BOOLEAN
    OBVIOUS
  <2> QED BY <2>1 DEF Writes, Store
<1>4. Watched
  <2>1. (left \/ (Reading /\ ~(Live(docs) \subseteq Live(new)))) \in BOOLEAN
        /\ (grown \/ (Reading /\ ~(Live(new) \subseteq Live(docs)))) \in BOOLEAN
    OBVIOUS
  <2> QED BY <1>1, <2>1 DEF Writes, Store, Watched
<1> QED BY <1>1, <1>2, <1>3, <1>4 DEF Stays, Writes

(* A step that writes nothing disturbs nobody. *)
LEMMA QuietIsSeen ==
  ASSUME IInv, Unstored
  PROVE /\ Evolves(docs') /\ Watched /\ disturbed' \in [Caller -> BOOLEAN]
        /\ \A d \in Caller : call'[d] = call[d] => Stays(d)
        /\ docs' = docs /\ disturbed' = disturbed
<1>1. docs' = docs /\ Evolves(docs')
  BY DocsEvolve DEF Unstored, IInv
<1>2. Watched
  BY <1>1 DEF Watched, Unstored, IInv, TypeOK
<1> QED BY <1>1, <1>2 DEF Unstored, Stays, IInv, TypeOK

(* An idle call knows nothing. *)
LEMMA IdleIsKnown ==
  ASSUME NEW p \in Caller, call'[p] = Idle PROVE CallKnown(p)' /\ AnswersTruly(p)'
BY DEF CallKnown, AnswersTruly, Idle

(* It has its type. *)
LEMMA IdleIsCall == Idle \in Call
BY DEF Idle, Call

(* The invariant, action by action: creations and single operations; *)
LEMMA CreateKeeps == ASSUME IInv, Create \/ Direct PROVE IInv'
<1>1. PICK new : Writes(None, new)
  BY CreateWrites, DirectWrites
<1>2. /\ call' = call /\ reader' = reader
      /\ time' \in 1..MaxTime /\ calls' \in 0..MaxCalls /\ call' \in [Caller -> Call]
  BY CatsAssumption DEF Create, Direct, Clock, IInv, TypeOK
<1>3. \A d \in Caller : Stays(d)
  BY <1>1, <1>2, WriteIsSeen, CatsAssumption
<1> QED BY <1>1, <1>2, <1>3, WriteIsSeen, StepKeeps

(* calls that begin by reading the cat; *)
LEMMA BeginKeeps ==
  ASSUME IInv, NEW p \in Caller, ReadForUpdate(p) \/ ReadForDelete(p) \/ ReadForUpsert(p)
  PROVE IInv'
<1>1. PICK op \in {"update", "delete", "upsert"}, c \in Cat, input \in Change \cup {None} :
        Begin(p, op, c, input) /\ (op # "delete" => input \in Change)
  BY DEF ReadForUpdate, ReadForDelete, ReadForUpsert
<1>2. PICK found : found = docs[c]
  OBVIOUS
<1> DEFINE s == [op |-> op, step |-> "write", cat |-> c, input |-> input,
                 read |-> found, wrote |-> FALSE, answer |-> None]
<1>3. /\ docs \in [Cat -> Doc \cup {None}] /\ call \in [Caller -> Call]
      /\ found \in Doc \cup {None} /\ (found # None => found.id = c)
  BY <1>2 DEF IInv, TypeOK, Stored
<1>4. /\ found = None => op = "upsert"
      /\ call' = [call EXCEPT ![p] = s]
      /\ calls < MaxCalls /\ calls' = calls + 1 /\ Unstored /\ UNCHANGED <<time, reader>>
  BY <1>1, <1>2 DEF Begin, FindById
<1>5. s \in Call
  BY <1>1, <1>3 DEF Call
<1>6. /\ s.op = op /\ s.step = "write" /\ s.cat = c /\ s.input = input /\ s.read = found
      /\ s.answer = None
  OBVIOUS
<1> HIDE DEF s
<1>7. /\ call'[p] = s /\ \A d \in Caller \ {p} : call'[d] = call[d]
      /\ call' \in [Caller -> Call] /\ docs' = docs
  BY <1>3, <1>4, <1>5 DEF Unstored
<1>8. CallKnown(p)' /\ AnswersTruly(p)'
  BY <1>1, <1>2, <1>3, <1>4, <1>6, <1>7 DEF CallKnown, AnswersTruly
<1>9. time' \in 1..MaxTime /\ calls' \in 0..MaxCalls
  BY <1>4, CatsAssumption DEF IInv, TypeOK
<1> QED BY <1>4, <1>7, <1>8, <1>9, QuietIsSeen, StepKeeps

(* their writes; *)
LEMMA WritesKeep ==
  ASSUME IInv, NEW p \in Caller, WriteUpdate(p) \/ WriteDelete(p) \/ WriteUpsert(p)
  PROVE IInv'
<1>1. call \in [Caller -> Call] /\ call' \in [Caller -> Call]
  <2>1. call \in [Caller -> Call]
    BY DEF IInv, TypeOK
  <2>2. CASE WriteUpdate(p)
    <3>1. (Found(docs, Converted([id |-> call[p].cat])) # {}) \in BOOLEAN
      OBVIOUS
    <3>2. PICK wrote \in BOOLEAN : call' = [call EXCEPT ![p].step = "reread", ![p].wrote = wrote]
      BY <2>2, <3>1 DEF WriteUpdate
    <3> DEFINE written == [call[p] EXCEPT !.step = "reread", !.wrote = wrote]
    <3>3. written \in Call
      BY <2>1 DEF Call
    <3>4. call' = [call EXCEPT ![p] = written]
      BY <2>1, <3>2
    <3> HIDE DEF written
    <3> QED BY <2>1, <3>3, <3>4
  <2>3. CASE WriteDelete(p) \/ WriteUpsert(p)
    BY <2>1, <2>3, IdleIsCall DEF WriteDelete, WriteUpsert
  <2> QED BY <2>1, <2>2, <2>3
<1>2. time' \in 1..MaxTime /\ calls' \in 0..MaxCalls /\ reader' = reader
  BY DEF WriteUpdate, WriteDelete, WriteUpsert, Clock, IInv, TypeOK
<1>3. CASE WriteUpdate(p)
  <2>1. PICK new : Writes(p, new)
    BY <1>3, UpdateWrites
  <2>2. AnswersTruly(p)'
    BY <1>3, UpdateWrites DEF AnswersTruly
  <2>3. CallKnown(p)' /\ \A d \in Caller \ {p} : call'[d] = call[d]
    BY <1>3, UpdateWrites
  <2> QED BY <1>1, <1>2, <2>1, <2>2, <2>3, WriteIsSeen, StepKeeps
<1>4. CASE WriteDelete(p) \/ WriteUpsert(p)
  <2>1. call'[p] = Idle /\ \A d \in Caller \ {p} : call'[d] = call[d]
    BY <1>1, <1>4 DEF WriteDelete, WriteUpsert
  <2>2. CallKnown(p)' /\ AnswersTruly(p)'
    BY <2>1, IdleIsKnown
  <2>3. CASE \E new : Writes(p, new)
    <3>1. PICK new : Writes(p, new)
      BY <2>3
    <3> QED BY <1>1, <1>2, <2>1, <2>2, <3>1, WriteIsSeen, StepKeeps
  <2>4. CASE Unstored
    BY <1>1, <1>2, <2>1, <2>2, <2>4, QuietIsSeen, StepKeeps
  <2> QED BY <1>4, <2>3, <2>4, DeleteWrites, UpsertWrites
<1> QED BY <1>3, <1>4

(* the answer of an update; *)
LEMMA RereadKeeps == ASSUME IInv, NEW p \in Caller, Reread(p) PROVE IInv'
<1> DEFINE q == call[p]
<1>1. /\ q.op = "update" /\ q.step = "reread" /\ q.cat \in Cat /\ q.input \in Change
      /\ q.read # None /\ q.read.id = q.cat /\ docs[q.cat] # None
      /\ docs[q.cat].deletedAt = 0 => q.wrote /\ (~disturbed[p] => docs[q.cat] = Answer(q))
  BY DEF Reread, IInv, CallKnown, Idle
<1>2. /\ call \in [Caller -> Call] /\ q \in Call /\ docs \in [Cat -> Doc \cup {None}]
  BY DEF IInv, TypeOK
<1>3. call' = [call EXCEPT ![p].step = "done", ![p].answer = docs[q.cat]]
      /\ Unstored /\ UNCHANGED <<time, calls, reader>>
  BY DEF Reread, FindById
<1>4. call' \in [Caller -> Call] /\ \A d \in Caller \ {p} : call'[d] = call[d]
  BY <1>1, <1>2, <1>3 DEF Call
<1>5. /\ call'[p].op = "update" /\ call'[p].step = "done" /\ call'[p].cat = q.cat
      /\ call'[p].input = q.input /\ call'[p].read = q.read /\ call'[p].answer = docs[q.cat]
      /\ call'[p].wrote = q.wrote
  <2>1. call'[p] = [q EXCEPT !.step = "done", !.answer = docs[q.cat]]
    BY <1>2, <1>3
  <2> QED BY <1>1, <1>2, <2>1 DEF Call
<1>6. docs' = docs /\ disturbed' = disturbed
  BY <1>3 DEF Unstored
<1>7. CallKnown(p)'
  BY <1>1, <1>5, <1>6 DEF CallKnown
<1>8. AnswersTruly(p)'
  BY <1>1, <1>5, <1>6 DEF AnswersTruly, Answer
<1> QED BY <1>3, <1>4, <1>7, <1>8, QuietIsSeen, StepKeeps DEF IInv, TypeOK

(* its end. *)
LEMMA LeaveKeeps == ASSUME IInv, NEW p \in Caller, Leave(p) PROVE IInv'
<1>1. /\ call' = [call EXCEPT ![p] = Idle] /\ disturbed' = [disturbed EXCEPT ![p] = FALSE]
      /\ UNCHANGED <<docs, left, grown, time, calls, reader>>
      /\ call \in [Caller -> Call] /\ disturbed \in [Caller -> BOOLEAN]
  BY DEF Leave, IInv, TypeOK
<1>2. call' \in [Caller -> Call] /\ call'[p] = Idle /\ disturbed' \in [Caller -> BOOLEAN]
  BY <1>1, IdleIsCall
<1>3. Evolves(docs') /\ Watched
  BY <1>1, DocsEvolve DEF IInv, TypeOK, Watched
<1>4. \A d \in Caller \ {p} : Stays(d)
  BY <1>1 DEF Stays
<1>5. CallKnown(p)' /\ AnswersTruly(p)'
  BY <1>2, IdleIsKnown
<1> QED BY <1>1, <1>2, <1>3, <1>4, <1>5, StepKeeps DEF IInv, TypeOK

----------------------------------------------------------------------------
(* The list a reader is shown, and its pages.                              *)

(* Without a search, the cats that are not deleted; newest first. *)
Shown == {d \in Documents : MatchesMongo(d, NoSearch)}

(* They are the live cats. *)
LEMMA ShownAreLive ==
  ASSUME TypeOK
  PROVE /\ Shown = {docs[c] : c \in Live(docs)}
        /\ \A d \in Shown : d \in Doc /\ d.id \in Live(docs) /\ docs[d.id] = d
        /\ \A c \in Live(docs) : docs[c] \in Shown /\ docs[c].id = c
<1>1. NoSearch.id = {} /\ NoSearch.or = {} /\ NoSearch.and = {}
  <2>1. FieldsOf(<<>>) = {}
    BY DEF FieldsOf
  <2>2. DOMAIN SearchAsked(<<>>) = {}
    BY <2>1 DEF SearchAsked
  <2> QED BY <2>2 DEF NoSearch, MongoFilter
<1>2. \A d : MatchesMongo(d, NoSearch) <=> d.deletedAt = 0
  BY <1>1 DEF MatchesMongo
<1>3. Shown = {docs[c] : c \in Live(docs)}
  BY <1>2 DEF Shown, Documents, Live
<1>4. \A c \in Live(docs) : docs[c] \in Doc /\ docs[c].id = c
  BY DEF TypeOK, Live, Stored
<1> QED BY <1>3, <1>4

(* A list without a sort is by creation, descending. *)
LEMMA NewestFirst ==
  ASSUME NEW d \in Doc, NEW e \in Doc
  PROVE Before(d, e, <<>>) <=> d.createdAt > e.createdAt
<1>1. SortedBy(<<>>) = <<"createdAt">> /\ SortAsked(<<>>)["createdAt"] = "desc"
  BY CatsAssumption DEF SortAsked
<1> QED BY <1>1 DEF Before

(* The list has one place for every live cat. *)
LEMMA ListIsOfLive ==
  ASSUME TypeOK
  PROVE /\ IsFiniteSet(Shown) /\ Cardinality(Shown) = Cardinality(Live(docs))
        /\ Cardinality(Live(docs)) \in Nat
        /\ \A s \in Sorted(Shown, <<>>) : s \in [1..Cardinality(Live(docs)) -> Shown]
<1> DEFINE N == Cardinality(Live(docs))
<1>1. N \in Nat /\ IsFiniteSet(Live(docs))
  BY LiveIsFinite, FS_CardinalityType
<1>2. IsFiniteSet(Shown) /\ Cardinality(Shown) = N
  <2> DEFINE f == [c \in Live(docs) |-> docs[c]]
  <2>1. f \in Bijection(Live(docs), Shown)
    BY ShownAreLive DEF Bijection, Injection, Surjection, IsInjective, TypeOK, Live, Stored
  <2>2. ExistsBijection(Live(docs), Shown)
    BY <2>1 DEF ExistsBijection
  <2> QED BY <1>1, <2>2, FS_Bijection
<1> QED BY <1>1, <1>2 DEF Sorted, SetToSeqs

(* The position of a cat in the list is its rank. *)
LEMMA PlaceIsRank ==
  ASSUME TypeOK, ~Ties, NEW s \in Sorted(Shown, <<>>)
  PROVE /\ Cardinality(Live(docs)) \in Nat
        /\ s \in [1..Cardinality(Live(docs)) -> Shown]
        /\ \A i \in 1..Cardinality(Live(docs)) : Rank(s[i].id) = i
        /\ \A c \in Live(docs) :
             Rank(c) \in 1..Cardinality(Live(docs)) /\ s[Rank(c)].id = c
<1> DEFINE N == Cardinality(Live(docs))
<1>1. N \in Nat /\ IsFiniteSet(Live(docs))
  BY LiveIsFinite, FS_CardinalityType
<1>2. IsFiniteSet(Shown) /\ Cardinality(Shown) = N
  BY ListIsOfLive
<1>3. /\ s \in [1..N -> Shown] /\ \A i, j \in 1..N : i # j => s[i] # s[j]
      /\ \A i, j \in 1..N : Before(s[i], s[j], <<>>) => i < j
  BY <1>2 DEF Sorted, SetToSeqs
<1> HIDE DEF N
<1>4. \A d \in Shown : \E i \in 1..N : s[i] = d
  <2>1. s \in Injection(1..N, Shown)
    BY <1>3 DEF Injection, IsInjective
  <2>2. Cardinality(1..N) = N
    BY <1>1, FS_Interval
  <2>3. s \in Surjection(1..N, Shown)
    BY <1>2, <2>1, <2>2, FS_Injection
  <2> QED BY <2>3 DEF Surjection
<1>5. \A i \in 1..N : /\ s[i] \in Doc /\ s[i].id \in Live(docs) /\ docs[s[i].id] = s[i]
                      /\ s[i].createdAt \in Nat
  BY <1>3, ShownAreLive, DocFacts
<1>6. \A i, j \in 1..N : s[i].createdAt > s[j].createdAt => i < j
  BY <1>3, <1>5, NewestFirst
<1>7. \A i, j \in 1..N : i # j => s[i].id # s[j].id /\ s[i].createdAt # s[j].createdAt
  BY <1>3, <1>5 DEF Ties, Live
<1>8. ASSUME NEW i \in 1..N PROVE Rank(s[i].id) = i
  <2> DEFINE R == {e \in Live(docs) : docs[e].createdAt >= docs[s[i].id].createdAt}
             f == [j \in 1..i |-> s[j].id]
  <2>1. \A j \in 1..i : j \in 1..N /\ f[j] = s[j].id
    BY <1>1
  <2>2. \A j \in 1..i : s[j].createdAt >= s[i].createdAt
    BY <1>1, <1>5, <1>6, <2>1
  <2>3. f \in [1..i -> R]
    BY <1>5, <2>1, <2>2
  <2>4. \A j, k \in 1..i : f[j] = f[k] => j = k
    BY <1>7, <2>1
  <2>5. ASSUME NEW e \in R PROVE \E j \in 1..i : f[j] = e
    <3>1. PICK j \in 1..N : s[j] = docs[e] /\ s[j].id = e
      BY <1>4, ShownAreLive
    <3>2. s[j].createdAt >= s[i].createdAt
      BY <1>5, <3>1
    <3>3. j <= i
      BY <1>1, <1>5, <1>6, <1>7, <3>2
    <3> QED BY <2>1, <3>1, <3>3
  <2>6. f \in Bijection(1..i, R)
    BY <2>3, <2>4, <2>5 DEF Bijection, Injection, Surjection, IsInjective
  <2>7. ExistsBijection(1..i, R)
    BY <2>6 DEF ExistsBijection
  <2>8. i \in Nat
    BY <1>1
  <2>9. Cardinality(R) = i
    BY <2>7, <2>8, FS_CountingElements
  <2> QED BY <2>9 DEF Rank
<1>9. ASSUME NEW c \in Live(docs) PROVE Rank(c) \in 1..N /\ s[Rank(c)].id = c
  <2>1. PICK i \in 1..N : s[i].id = c
    BY <1>4, ShownAreLive
  <2> QED BY <1>8, <2>1
<1> QED BY <1>1, <1>3, <1>8, <1>9 DEF N

(* Pages are next to each other. *)
LEMMA SkipFacts ==
  ASSUME NEW n \in Nat \ {0}
  PROVE /\ Skip(n, DefaultLimit) \in Nat /\ DefaultLimit \in Nat \ {0}
        /\ Skip(n + 1, DefaultLimit) = Skip(n, DefaultLimit) + DefaultLimit
        /\ Skip(1, DefaultLimit) = 0
<1>1. DefaultLimit \in Nat \ {0}
  BY LimitAssumption
<1>2. \A m \in Nat : m * DefaultLimit \in Nat /\ (m + 1) * DefaultLimit = m * DefaultLimit + DefaultLimit
  BY <1>1
<1>3. n - 1 \in Nat /\ (n + 1) - 1 = (n - 1) + 1 /\ (1 - 1) * DefaultLimit = 0
  BY <1>1
<1> QED BY <1>1, <1>2, <1>3 DEF Skip

(* A page of a list is what its places hold. *)
Places(N, n, L) == {i \in 1..N : Skip(n, L) < i /\ i <= Skip(n, L) + L}

Cut(s, N, n, L) == Range(PageOf(s, n, L)) = {s[i] : i \in Places(N, n, L)}

(* At any page, of any size. *)
LEMMA PageOfRange ==
  ASSUME NEW N \in Nat, NEW S, NEW s \in [1..N -> S], NEW n \in Nat \ {0}, NEW L \in Nat \ {0}
  PROVE Cut(s, N, n, L)
<1> DEFINE a == Skip(n, L)
           m == IF a + L < N THEN a + L ELSE N
<1>1. a \in Nat
  <2>1. \A k \in Nat : k * L \in Nat
    OBVIOUS
  <2>2. n - 1 \in Nat
    OBVIOUS
  <2> QED BY <2>1, <2>2 DEF Skip
<1>2. s \in Seq(S) /\ Len(s) = N
  OBVIOUS
<1>3. PageOf(s, n, L) = SubSeq(s, a + 1, m)
  BY <1>2 DEF PageOf
<1> HIDE DEF a
<1>4. m \in Nat /\ m <= N
  BY <1>1
<1> DEFINE page == [i \in 1..m - a |-> s[a + i]]
<1>5. SubSeq(s, a + 1, m) = page
  BY <1>1, <1>2, <1>4
<1>6. DOMAIN page = 1..m - a /\ \A i \in 1..m - a : page[i] = s[a + i]
  OBVIOUS
<1> HIDE DEF page
<1>7. Range(PageOf(s, n, L)) = {page[i] : i \in DOMAIN page}
  BY <1>3, <1>5 DEF Range
<1>8. \A i \in 1..m - a : a + i \in 1..N /\ a < a + i /\ a + i <= a + L
  BY <1>1
<1>9. \A j \in 1..N : a < j /\ j <= a + L => j - a \in 1..m - a /\ a + (j - a) = j
  BY <1>1
<1>10. ASSUME NEW d
      PROVE (\E i \in 1..m - a : d = page[i]) <=>
              \E i \in 1..N : a < i /\ i <= a + L /\ d = s[i]
  BY <1>6, <1>8, <1>9
<1>11. \A d : d \in Range(PageOf(s, n, L)) <=> \E i \in 1..m - a : d = page[i]
  BY <1>6, <1>7
<1>12. \A i : i \in Places(N, n, L) <=> i \in 1..N /\ a < i /\ i <= a + L
  BY DEF Places, a
<1>13. \A d : d \in {s[i] : i \in Places(N, n, L)} <=>
         \E i \in 1..N : a < i /\ i <= a + L /\ d = s[i]
  BY <1>12
<1> QED BY <1>10, <1>11, <1>13 DEF Cut

(* So is a page of the default size. *)
LEMMA PageOfList ==
  ASSUME TypeOK, NEW s \in Sorted(Shown, <<>>), NEW n \in Nat \ {0}
  PROVE \A d : d \in Range(PageOf(s, n, DefaultLimit)) <=>
          \E i \in 1..Cardinality(Live(docs)) :
            Skip(n, DefaultLimit) < i /\ i <= Skip(n + 1, DefaultLimit) /\ d = s[i]
<1> DEFINE N == Cardinality(Live(docs))
<1>1. N \in Nat /\ s \in [1..N -> Shown]
  BY ListIsOfLive
<1> HIDE DEF N
<1>2. DefaultLimit \in Nat \ {0}
  BY LimitAssumption
<1>3. Cut(s, N, n, DefaultLimit)
  BY <1>1, <1>2, PageOfRange
<1> QED BY <1>3, SkipFacts DEF N, Places, Cut

(* What a page holds: the cats of its places.  A page that is not full is  *)
(* the last.                                                               *)
LEMMA PageHolds ==
  ASSUME TypeOK, ~Ties, NEW s \in Sorted(Shown, <<>>), NEW n \in Nat \ {0}, NEW got,
         got = {d.id : d \in Range(PageOf(s, n, DefaultLimit))}
  PROVE /\ got \subseteq Live(docs)
        /\ \A c \in Live(docs) : c \in got <=>
             Skip(n, DefaultLimit) < Rank(c) /\ Rank(c) <= Skip(n + 1, DefaultLimit)
        /\ Cardinality(got) < DefaultLimit =>
             \A c \in Live(docs) : Rank(c) <= Skip(n + 1, DefaultLimit)
<1> DEFINE N == Cardinality(Live(docs))
           a == Skip(n, DefaultLimit)
           b == Skip(n + 1, DefaultLimit)
           At == {j \in 1..N : a < j /\ j <= b}
<1>1. /\ N \in Nat /\ s \in [1..N -> Shown]
      /\ \A i \in 1..N : Rank(s[i].id) = i
      /\ \A c \in Live(docs) : Rank(c) \in 1..N /\ s[Rank(c)].id = c
  BY PlaceIsRank
<1>2. a \in Nat /\ b = a + DefaultLimit /\ DefaultLimit \in Nat \ {0}
  BY SkipFacts
<1>3. \A d : d \in Range(PageOf(s, n, DefaultLimit)) <=> \E i \in 1..N : a < i /\ i <= b /\ d = s[i]
  BY PageOfList
<1> HIDE DEF N, a, b
<1>4. \A c : c \in got <=> \E i \in At : c = s[i].id
  BY <1>3
<1>5. got \subseteq Live(docs)
  <2> SUFFICES ASSUME NEW c \in got PROVE c \in Live(docs)
    OBVIOUS
  <2>1. PICK i \in At : c = s[i].id
    BY <1>4
  <2>2. s[i] \in Shown
    BY <1>1
  <2> QED BY <2>1, <2>2, ShownAreLive
<1>6. ASSUME NEW c \in Live(docs) PROVE c \in got <=> a < Rank(c) /\ Rank(c) <= b
  <2>1. ASSUME c \in got PROVE Rank(c) \in At
    <3>1. PICK i \in At : c = s[i].id
      BY <1>4, <2>1
    <3>2. i \in 1..N
      OBVIOUS
    <3>3. Rank(c) = i
      BY <1>1, <3>1, <3>2
    <3> QED BY <3>3
  <2>2. Rank(c) \in At => c \in got
    BY <1>1, <1>4
  <2> QED BY <1>1, <2>1, <2>2
<1>7. ASSUME NEW c \in Live(docs), Rank(c) > b PROVE Cardinality(got) = DefaultLimit
  <2> DEFINE f == [i \in a + 1..b |-> s[i].id]
  <2>1. Rank(c) \in 1..N
    BY <1>1
  <2>2. \A i \in a + 1..b : i \in At
    BY <1>1, <1>2, <1>7, <2>1
  <2>3. At = a + 1..b
    BY <1>1, <1>2, <2>2
  <2>4. f \in [a + 1..b -> got] /\ \A i \in a + 1..b : f[i] = s[i].id
    BY <1>4, <2>2
  <2>5. \A i, j \in a + 1..b : f[i] = f[j] => i = j
    BY <1>1, <2>2, <2>4
  <2>6. \A x \in got : \E i \in a + 1..b : f[i] = x
    BY <1>4, <2>3, <2>4
  <2> HIDE DEF f
  <2>7. f \in Bijection(a + 1..b, got)
    BY <2>4, <2>5, <2>6 DEF Bijection, Injection, Surjection, IsInjective
  <2>8. ExistsBijection(a + 1..b, got)
    BY <2>7 DEF ExistsBijection
  <2>9. IsFiniteSet(a + 1..b) /\ Cardinality(a + 1..b) = DefaultLimit
    BY <1>2, FS_Interval
  <2> QED BY <2>8, <2>9, FS_Bijection
<1>8. \A c \in Live(docs) : Rank(c) \in Nat
  BY <1>1
<1>9. Cardinality(got) < DefaultLimit => \A c \in Live(docs) : Rank(c) <= b
  BY <1>2, <1>7, <1>8
<1> QED BY <1>5, <1>6, <1>9 DEF a, b

(* The invariant: a reader begins before the first place; *)
LEMMA StartKeeps == ASSUME IInv, StartReading PROVE IInv'
<1>1. /\ reader = Resting /\ reader' = [Resting EXCEPT !.page = 1, !.due = Live(docs)]
      /\ UNCHANGED <<docs, time, call, calls, disturbed, left, grown>>
  BY DEF StartReading
<1>2. TypeOK /\ Live(docs) \subseteq Cat
  BY DEF IInv, TypeOK, Live, Stored
<1>3. /\ reader'.page = 1 /\ reader'.due = Live(docs) /\ reader'.seen = {}
      /\ reader'.repeated = FALSE /\ reader'.done = FALSE /\ reader' \in Reader
  BY <1>1, <1>2 DEF Resting, Reader
<1>4. TypeOK'
  BY <1>1, <1>2, <1>3 DEF TypeOK, Stored
<1>5. \A c \in Live(docs) : Rank(c) > 0
  <2> TAKE c \in Live(docs)
  <2> DEFINE R == {e \in Live(docs) : docs[e].createdAt >= docs[c].createdAt}
  <2>1. docs[c].createdAt \in Nat
    BY <1>2, DocFacts DEF TypeOK, Live, Stored
  <2>2. c \in R
    BY <2>1
  <2>3. IsFiniteSet(R) /\ Rank(c) = Cardinality(R)
    BY <1>2, LiveIsFinite DEF Rank
  <2>4. Cardinality(R) # 0 /\ Cardinality(R) \in Nat
    BY <2>2, <2>3, FS_EmptySet, FS_CardinalityType
  <2> HIDE DEF R
  <2> QED BY <2>3, <2>4
<1>6. Skip(1, DefaultLimit) = 0
  BY SkipFacts
<1>7. Live(docs)' = Live(docs) /\ \A c : Rank(c)' = Rank(c)
  BY <1>1 DEF Live, Stored, Rank
<1>8. ReaderKnown'
  BY <1>3, <1>5, <1>6, <1>7 DEF ReaderKnown
<1>9. PagesMissNobody'
  BY <1>3 DEF PagesMissNobody
<1>10. \A d \in Caller : CallKnown(d)' /\ AnswersTruly(d)'
  BY <1>1 DEF IInv, UpdateAnswersTruly, CallKnown, AnswersTruly, Answer
<1> QED BY <1>4, <1>8, <1>9, <1>10 DEF IInv, UpdateAnswersTruly

(* and goes on by one page. *)
LEMMA ReadKeeps == ASSUME IInv, ReadPage PROVE IInv'
<1> DEFINE n == reader.page  L == DefaultLimit
<1>1. TypeOK /\ Reading /\ n \in Nat \ {0} /\ ReaderKnown /\ PagesMissNobody /\ reader \in Reader
  BY DEF IInv, TypeOK, ReadPage, Reading, Reader
<1>2. PICK s, got :
        /\ s \in Sorted(Shown, <<>>)
        /\ got = {d.id : d \in Range(PageOf(s, n, L))}
        /\ reader' = [reader EXCEPT !.page = @ + 1,
                                    !.seen = @ \cup got,
                                    !.repeated = @ \/ got \cap reader.seen # {},
                                    !.done = Cardinality(got) < L]
  BY DEF ReadPage, Shown
<1>a. \A c : c \in got <=> \E d \in Range(PageOf(s, n, L)) : c = d.id
  BY <1>2
<1>3. UNCHANGED <<docs, time, call, calls, disturbed, left, grown>>
  BY DEF ReadPage
<1>4. (reader.repeated \/ got \cap reader.seen # {}) \in BOOLEAN /\ (Cardinality(got) < L) \in BOOLEAN
  OBVIOUS
<1>5. /\ reader'.page = n + 1 /\ reader'.due = reader.due /\ reader'.seen = reader.seen \cup got
      /\ reader'.repeated <=> reader.repeated \/ got \cap reader.seen # {}
      /\ reader'.done <=> Cardinality(got) < L
  BY <1>1, <1>2 DEF Reader
<1>6. \A d \in Range(PageOf(s, n, L)) : d \in Shown
  <2> DEFINE N == Cardinality(Live(docs))
  <2>1. s \in [1..N -> Shown] /\ \A d \in Range(PageOf(s, n, L)) : \E i \in 1..N : d = s[i]
    BY <1>1, <1>2, ListIsOfLive, PageOfList
  <2> HIDE DEF N
  <2> QED BY <2>1
<1>7. got \subseteq Live(docs) /\ Live(docs) \subseteq Cat
  <2>1. \A d \in Shown : d.id \in Live(docs)
    BY <1>1, ShownAreLive
  <2> QED BY <1>1, <1>a, <1>6, <2>1 DEF TypeOK, Live, Stored
<1>8. TypeOK'
  <2>1. PICK r \in BOOLEAN, f \in BOOLEAN :
          reader' = [reader EXCEPT !.page = n + 1, !.seen = reader.seen \cup got,
                                   !.repeated = r, !.done = f]
    BY <1>2, <1>4
  <2>2. n + 1 \in Nat /\ reader.seen \cup got \subseteq Cat
    BY <1>1, <1>7 DEF Reader
  <2>3. reader' \in Reader
    BY <1>1, <2>1, <2>2 DEF Reader
  <2> QED BY <1>1, <1>3, <2>3 DEF TypeOK, Stored
<1>9. ASSUME ~Ties
      PROVE /\ \A c \in Live(docs) : c \in got <=>
                 Skip(n, L) < Rank(c) /\ Rank(c) <= Skip(n + 1, L)
            /\ Cardinality(got) < L => \A c \in Live(docs) : Rank(c) <= Skip(n + 1, L)
  BY <1>1, <1>2, <1>9, PageHolds
<1>10. /\ (\A c \in Live(docs) : Rank(c) \in Nat)
       /\ Skip(n, L) \in Nat /\ Skip(n + 1, L) \in Nat /\ Skip(n, L) <= Skip(n + 1, L)
  <2>1. \A c \in Live(docs) : Rank(c) \in Nat
    BY <1>1, LiveIsFinite
  <2>2. Skip(n, L) \in Nat /\ L \in Nat /\ Skip(n + 1, L) = Skip(n, L) + L
    BY <1>1, SkipFacts
  <2> QED BY <2>1, <2>2
<1>11. /\ Live(docs)' = Live(docs) /\ (\A c : Rank(c)' = Rank(c))
       /\ (Ties' <=> Ties) /\ left' = left /\ grown' = grown
  BY <1>3 DEF Live, Stored, Rank, Ties
<1>12. ASSUME ~left, ~Ties, NEW c \in reader'.due \ reader'.seen
       PROVE c \in Live(docs) /\ Rank(c) > Skip(n + 1, L)
  <2>1. c \in Live(docs) /\ Rank(c) > Skip(n, L) /\ c \notin got
    BY <1>1, <1>5, <1>12 DEF ReaderKnown
  <2> QED BY <1>9, <1>10, <1>12, <2>1
<1>13. ASSUME ~grown, ~Ties, NEW c \in reader'.seen \cap Live(docs)
       PROVE Rank(c) <= Skip(n + 1, L)
  <2>1. c \in got \/ Rank(c) <= Skip(n, L)
    BY <1>1, <1>5, <1>13 DEF ReaderKnown
  <2> QED BY <1>9, <1>10, <1>13, <2>1
<1>14. ReaderKnown'
  <2>1. reader'.page > 0
    BY <1>1, <1>5
  <2> QED BY <1>5, <1>11, <1>12, <1>13, <2>1 DEF ReaderKnown
<1>15. PagesMissNobody'
  <2>1. reader'.done /\ ~left /\ ~Ties => reader'.due \subseteq reader'.seen
    BY <1>5, <1>9, <1>10, <1>12
  <2>2. got \cap reader.seen # {} => grown \/ Ties
    BY <1>1, <1>7, <1>9, <1>10 DEF ReaderKnown
  <2>3. reader'.repeated => grown \/ Ties
    BY <1>1, <1>5, <2>2 DEF PagesMissNobody
  <2> QED BY <1>11, <2>1, <2>3 DEF PagesMissNobody
<1>16. \A d \in Caller : CallKnown(d)' /\ AnswersTruly(d)'
  BY <1>3 DEF IInv, UpdateAnswersTruly, CallKnown, AnswersTruly, Answer
<1> QED BY <1>8, <1>14, <1>15, <1>16 DEF IInv, UpdateAnswersTruly

----------------------------------------------------------------------------
(* The whole system.                                                       *)

(* An empty collection. *)
LEMMA InitIInv == Init => IInv
<1> SUFFICES ASSUME Init PROVE IInv
  OBVIOUS
<1>1. Resting \in Reader /\ 1 \in 1..MaxTime /\ 0 \in 0..MaxCalls
  BY CatsAssumption DEF Resting, Reader
<1>2. TypeOK
  BY <1>1, IdleIsCall DEF Init, TypeOK, Stored
<1>3. \A p \in Caller : CallKnown(p) /\ AnswersTruly(p)
  BY DEF Init, CallKnown, AnswersTruly, Idle
<1> QED BY <1>2, <1>3 DEF Init, IInv, UpdateAnswersTruly, PagesMissNobody, ReaderKnown,
                         Reading, Resting

(* Every step. *)
LEMMA NextKeeps == IInv /\ [Next]_vars => IInv'
<1> SUFFICES ASSUME IInv, [Next]_vars PROVE IInv'
  OBVIOUS
<1>1. CASE Create \/ Direct
  BY <1>1, CreateKeeps
<1>2. CASE StartReading
  BY <1>2, StartKeeps
<1>3. CASE ReadPage
  BY <1>3, ReadKeeps
<1>4. ASSUME NEW p \in Caller, ReadForUpdate(p) \/ ReadForDelete(p) \/ ReadForUpsert(p)
      PROVE IInv'
  BY <1>4, BeginKeeps
<1>5. ASSUME NEW p \in Caller, WriteUpdate(p) \/ WriteDelete(p) \/ WriteUpsert(p)
      PROVE IInv'
  BY <1>5, WritesKeep
<1>6. ASSUME NEW p \in Caller, Reread(p) PROVE IInv'
  BY <1>6, RereadKeeps
<1>7. ASSUME NEW p \in Caller, Leave(p) PROVE IInv'
  BY <1>7, LeaveKeeps
<1>8. CASE UNCHANGED vars
  <2>1. /\ UNCHANGED <<docs, time, call, calls, disturbed, reader, left, grown>>
        /\ \A c : Rank(c)' = Rank(c)
    BY <1>8 DEF vars, Rank, Live, Stored
  <2>2. TypeOK' /\ PagesMissNobody'
    BY <2>1 DEF IInv, TypeOK, PagesMissNobody, Stored, Ties
  <2>3. ReaderKnown'
    BY <2>1 DEF IInv, ReaderKnown, Reading, Ties, Live, Stored
  <2>4. \A p \in Caller : CallKnown(p)' /\ AnswersTruly(p)'
    BY <2>1 DEF IInv, UpdateAnswersTruly, CallKnown, AnswersTruly, Answer
  <2> QED BY <2>2, <2>3, <2>4 DEF IInv, UpdateAnswersTruly
<1> QED BY <1>1, <1>2, <1>3, <1>4, <1>5, <1>6, <1>7, <1>8 DEF Next

(* The invariant is inductive, for any number of calls, cats and pages.    *)
THEOREM Inductive == Spec => []IInv
<1> QED BY InitIInv, NextKeeps, PTL DEF Spec

(* Every variable keeps its type, every document its identifier, under     *)
(* every interleaving of calls.                                            *)
THEOREM TypeCorrect == Spec => []TypeOK
<1>1. IInv => TypeOK
  BY DEF IInv
<1> QED BY <1>1, Inductive, PTL

(* An update answered with a live cat was written, and unless another call *)
(* came between, the answer is what was read with the input over it        *)
(* (cat-update.ts looks at neither; updateOne of the repository).          *)
THEOREM UpdatesAnswerTruly == Spec => []UpdateAnswersTruly
<1>1. IInv => UpdateAnswersTruly
  BY DEF IInv
<1> QED BY <1>1, Inductive, PTL

(* Who reads all the pages has seen every cat, unless one left meanwhile   *)
(* or two were created at the same time; nobody sees a cat twice unless    *)
(* one joined (paginate of the cats' repository, calculateSkip).           *)
THEOREM ReadersMissNobody == Spec => []PagesMissNobody
<1>1. IInv => PagesMissNobody
  BY DEF IInv
<1> QED BY <1>1, Inductive, PTL

(* A write that evolves the collection, by whom it may be. *)
LEMMA WriteLeavesDeleted ==
  ASSUME IInv, NEW who, NEW new, Writes(who, new) PROVE DeletionStands
<1>1. docs' = new
  BY DEF Writes, Store
<1> QED BY <1>1 DEF Writes, DeletionStands, Evolves, SparesDeleted

(* Where nothing is written nothing is undone. *)
LEMMA QuietLeavesDeleted == ASSUME docs' = docs PROVE DeletionStands
BY DEF DeletionStands

(* A deleted cat keeps its mark and date, and is changed at all only by    *)
(* createOrUpdate (the filters that convert-mongo-filter completes).       *)
THEOREM DeletionsStand == Spec => DeletedStaysDeleted
<1>1. ASSUME IInv, Next PROVE DeletionStands
  <2>1. CASE Create \/ Direct
    BY <1>1, <2>1, CreateWrites, DirectWrites, WriteLeavesDeleted
  <2>2. ASSUME NEW p \in Caller, WriteUpdate(p) \/ WriteDelete(p) \/ WriteUpsert(p)
        PROVE DeletionStands
    <3>1. (\E new : Writes(p, new)) \/ Unstored
      BY <1>1, <2>2, UpdateWrites, DeleteWrites, UpsertWrites
    <3> QED BY <1>1, <3>1, WriteLeavesDeleted, QuietLeavesDeleted DEF Unstored
  <2>3. CASE StartReading \/ ReadPage
    BY <2>3, QuietLeavesDeleted DEF StartReading, ReadPage
  <2>4. ASSUME NEW p \in Caller,
               \/ ReadForUpdate(p) \/ ReadForDelete(p) \/ ReadForUpsert(p)
               \/ Reread(p) \/ Leave(p)
        PROVE DeletionStands
    <3>1. docs' = docs
      BY <2>4 DEF ReadForUpdate, ReadForDelete, ReadForUpsert, Begin, Reread, Leave, Unstored
    <3> QED BY <3>1, QuietLeavesDeleted
  <2> QED BY <1>1, <2>1, <2>2, <2>3, <2>4 DEF Next
<1>2. IInv /\ [Next]_vars => [DeletionStands]_vars
  BY <1>1
<1> QED BY <1>2, Inductive, PTL DEF Spec, DeletedStaysDeleted

----------------------------------------------------------------------------
(* What a request asks for and what it is shown.                           *)

(* Some position is the last: the least of the sets of later ones. *)
LEMMA SomeLast ==
  ASSUME NEW n \in Nat, NEW At, At \subseteq 1..n, At # {}
  PROVE \E i \in At : \A j \in At : j <= i
<1> DEFINE From(i) == {k \in At : k >= i}
           T == {From(i) : i \in At}
<1>0. \A k \in At : k \in Nat /\ k >= k
  OBVIOUS
<1>1. IsFiniteSet(At)
  <2>1. IsFiniteSet(1..n)
    BY FS_Interval
  <2> QED BY <2>1, FS_Subset
<1>2. T \subseteq FiniteSubsetsOf(At) /\ T # {}
  <2>1. FiniteSubsetsOf(At) = SUBSET At
    BY <1>1, FS_FiniteSubsetsOfFinite
  <2>2. \A i \in At : From(i) \in SUBSET At
    OBVIOUS
  <2>3. \A x \in T : x \in SUBSET At
    BY <2>2
  <2>4. T # {}
    OBVIOUS
  <2> HIDE DEF T
  <2> QED BY <2>1, <2>3, <2>4
<1>3. PICK x \in T : \A y \in T : <<y, x>> \notin StrictSubsetOrdering(At)
  BY <1>2, FS_StrictSubsetOrderingWellFounded, WFMin
<1>4. PICK i \in At : x = From(i)
  OBVIOUS
<1>5. ASSUME NEW j \in At PROVE j <= i
  <2> SUFFICES ASSUME j > i PROVE FALSE
    OBVIOUS
  <2>0. From(j) \in T
    OBVIOUS
  <2>a. \A k, l : k \in From(l) <=> k \in At /\ k >= l
    OBVIOUS
  <2>b. \A k \in At : k >= j => k >= i
    BY <1>0
  <2>c. ~(i >= j) /\ i >= i
    BY <1>0
  <2> HIDE DEF From
  <2>1. From(j) \subseteq From(i) /\ i \in From(i) /\ i \notin From(j)
    BY <2>a, <2>b, <2>c
  <2>d. From(j) \in SUBSET At /\ From(i) \in SUBSET At /\ From(j) # From(i)
    BY <2>a, <2>1
  <2>2. <<From(j), From(i)>> \in StrictSubsetOrdering(At)
    BY <2>1, <2>d DEF StrictSubsetOrdering
  <2> QED BY <1>3, <1>4, <2>0, <2>2
<1> QED BY <1>5

(* Of the segments on a field one is taken. *)
LEMMA LastOfIsOne ==
  ASSUME NEW segments, Sequence(segments), NEW f \in FieldsOf(segments)
  PROVE \E i \in DOMAIN segments : segments[i].field = f /\ LastOf(segments, f) = segments[i]
<1> DEFINE At == {i \in DOMAIN segments : segments[i].field = f}
<1>1. Len(segments) \in Nat /\ DOMAIN segments = 1..Len(segments)
  BY DEF Sequence
<1>2. At # {} /\ At \subseteq 1..Len(segments)
  BY <1>1 DEF FieldsOf
<1>3. \E i \in At : \A j \in At : j <= i
  BY <1>1, <1>2, SomeLast
<1>4. LastOf(segments, f) = segments[CHOOSE i \in At : \A j \in At : j <= i]
  BY DEF LastOf
<1>5. (CHOOSE i \in At : \A j \in At : j <= i) \in At
  BY <1>3
<1> QED BY <1>4, <1>5

(* What a search that passes the first check asks for. *)
Askable(search) ==
  /\ Sequence(search) /\ SearchHttpStatus(search) = OK
  /\ \A i \in DOMAIN search : Sequence(search[i].values)

(* Each field asked has a value, and a single one unless several. *)
LEMMA AskedValues ==
  ASSUME NEW search, Askable(search), NEW f \in DOMAIN SearchAsked(search)
  PROVE LET values == SearchAsked(search)[f]
        IN  /\ values[1] \in Range(values)
            /\ ~Several(values) => Range(values) = {values[1]}
<1> DEFINE values == SearchAsked(search)[f]
<1>1. f \in FieldsOf(search) /\ values = LastOf(search, f).values
  BY DEF SearchAsked
<1>2. PICK i \in DOMAIN search : values = search[i].values
  BY <1>1, LastOfIsOne DEF Askable
<1>3. values # <<>> /\ Sequence(values)
  <2> DEFINE Refused == \/ search[1].field = "" /\ search[1].values # <<>>
                        \/ \A j \in DOMAIN search : search[j].values = <<>>
                        \/ \E j \in DOMAIN search : search[j].values = <<Empty>>
                        \/ \E j \in DOMAIN search : search[j].field = "" /\ search[j].values = <<>>
             Fails == \E j \in DOMAIN search : search[j].values = <<>>
  <2>1. search # <<>> /\ Sequence(values)
    BY <1>2 DEF Askable
  <2>2. SearchHttpStatus(search) = IF Refused THEN BadRequest ELSE IF Fails THEN InternalError ELSE OK
    BY <2>1 DEF SearchHttpStatus
  <2>3. values = <<>> => Fails
    BY <1>2
  <2> HIDE DEF Refused, Fails, values
  <2> QED BY <2>1, <2>2, <2>3 DEF Askable, OK, BadRequest, InternalError
<1> HIDE DEF values
<1>4. DOMAIN values = 1..Len(values) /\ Len(values) \in Nat \ {0}
  BY <1>3 DEF Sequence
<1>5. values[1] \in Range(values)
  BY <1>4 DEF Range
<1>6. Len(values) <= 1 => Range(values) = {values[1]}
  <2> SUFFICES ASSUME Len(values) <= 1 PROVE Range(values) = {values[1]}
    OBVIOUS
  <2>1. DOMAIN values = {1}
    BY <1>4
  <2> QED BY <2>1 DEF Range
<1> QED BY <1>4, <1>5, <1>6 DEF Several, values

(* The filter that MongoDB is given. *)
LEMMA FilterParts ==
  ASSUME NEW search
  PROVE LET asked == SearchAsked(search)
            filter == MongoFilter(search)
        IN  /\ filter.id = IF "id" \in DOMAIN asked THEN {asked["id"][1]} ELSE {}
            /\ \A fp : fp \in filter.or <=>
                 \E f \in DOMAIN asked \ {"id"} :
                   Several(asked[f]) /\ \E p \in Range(asked[f]) : fp = <<f, p>>
            /\ \A fp : fp \in filter.and <=>
                 \E f \in DOMAIN asked \ {"id"} :
                   ~Several(asked[f]) /\ \E p \in Range(asked[f]) : fp = <<f, p>>
BY DEF MongoFilter

(* It finds what was asked. *)
LEMMA FilterFindsAsked ==
  ASSUME NEW d, NEW search, Askable(search), OneOfSeveral(search),
         "id" \in DOMAIN SearchAsked(search) => ~Several(SearchAsked(search)["id"])
  PROVE MatchesMongo(d, MongoFilter(search)) <=> Asked(d, search)
<1> DEFINE asked == SearchAsked(search)  filter == MongoFilter(search)
<1>1. /\ filter.id = IF "id" \in DOMAIN asked THEN {asked["id"][1]} ELSE {}
      /\ \A fp : fp \in filter.or <=>
           \E f \in DOMAIN asked \ {"id"} :
             Several(asked[f]) /\ \E p \in Range(asked[f]) : fp = <<f, p>>
      /\ \A fp : fp \in filter.and <=>
           \E f \in DOMAIN asked \ {"id"} :
             ~Several(asked[f]) /\ \E p \in Range(asked[f]) : fp = <<f, p>>
  BY FilterParts
<1>2. \A f \in DOMAIN asked :
        /\ asked[f][1] \in Range(asked[f])
        /\ ~Several(asked[f]) => Range(asked[f]) = {asked[f][1]}
  BY AskedValues
<1>3. \A f, g \in DOMAIN asked : Several(asked[f]) /\ Several(asked[g]) => f = g
  BY DEF OneOfSeveral
<1>5. \A p : Fits(d, "id", p) <=> d["id"] = p
  BY AskingAssumption DEF Fits
<1>6. /\ MatchesMongo(d, filter) <=>
           /\ d.deletedAt = 0
           /\ filter.id # {} => d.id \in filter.id
           /\ filter.or # {} => \E fp \in filter.or : Fits(d, fp[1], fp[2])
           /\ \A fp \in filter.and : Fits(d, fp[1], fp[2])
      /\ Asked(d, search) <=>
           d.deletedAt = 0 /\ \A f \in DOMAIN asked : \E v \in Range(asked[f]) : Fits(d, f, v)
  BY DEF MatchesMongo, Asked
<1>a. "id" \in DOMAIN asked => ~Several(asked["id"])
  OBVIOUS
<1> HIDE DEF asked, filter
<1>4. "id" \in DOMAIN asked => Range(asked["id"]) = {asked["id"][1]}
  BY <1>2, <1>a
<1>7. (filter.id # {} => d.id \in filter.id) <=>
        ("id" \in DOMAIN asked => \E v \in Range(asked["id"]) : Fits(d, "id", v))
  BY <1>1, <1>4, <1>5
<1>8. ASSUME NEW f \in DOMAIN asked \ {"id"}, Several(asked[f])
      PROVE (filter.or # {} => \E fp \in filter.or : Fits(d, fp[1], fp[2])) <=>
              \E v \in Range(asked[f]) : Fits(d, f, v)
  <2>1. \A fp : fp \in filter.or <=> \E p \in Range(asked[f]) : fp = <<f, p>>
    BY <1>1, <1>3, <1>8
  <2>2. filter.or # {}
    <3>1. asked[f][1] \in Range(asked[f])
      BY <1>2
    <3> QED BY <2>1, <3>1
  <2>3. (\E fp \in filter.or : Fits(d, fp[1], fp[2])) <=> \E v \in Range(asked[f]) : Fits(d, f, v)
    <3>1. \A p : <<f, p>>[1] = f /\ <<f, p>>[2] = p
      OBVIOUS
    <3>2. ASSUME NEW fp \in filter.or, Fits(d, fp[1], fp[2])
          PROVE \E v \in Range(asked[f]) : Fits(d, f, v)
      <4>1. PICK p \in Range(asked[f]) : fp = <<f, p>>
        BY <2>1
      <4> QED BY <3>2, <4>1
    <3>3. ASSUME NEW v \in Range(asked[f]), Fits(d, f, v)
          PROVE \E fp \in filter.or : Fits(d, fp[1], fp[2])
      <4>1. <<f, v>> \in filter.or
        BY <2>1
      <4> QED BY <3>1, <3>3, <4>1
    <3> QED BY <3>2, <3>3
  <2> QED BY <2>2, <2>3
<1>9. ASSUME NEW f \in DOMAIN asked \ {"id"}, ~Several(asked[f])
      PROVE (\A fp \in filter.and : fp[1] = f => Fits(d, fp[1], fp[2])) <=>
              \E v \in Range(asked[f]) : Fits(d, f, v)
  <2>1. Range(asked[f]) = {asked[f][1]}
    BY <1>2, <1>9
  <2> DEFINE v == asked[f][1]
  <2>2. Range(asked[f]) = {v}
    BY <2>1
  <2> HIDE DEF v
  <2>3. ASSUME NEW fp \in filter.and, fp[1] = f PROVE fp[2] = v
    <3>1. PICK g \in DOMAIN asked : \E p \in Range(asked[g]) : fp = <<g, p>>
      BY <1>1
    <3>2. g = f
      BY <2>3, <3>1
    <3> QED BY <2>2, <3>1, <3>2
  <2>4. <<f, v>> \in filter.and /\ <<f, v>>[1] = f /\ <<f, v>>[2] = v
    BY <1>1, <1>9, <2>2
  <2> QED BY <2>2, <2>3, <2>4
<1>10. ASSUME MatchesMongo(d, filter), NEW f \in DOMAIN asked
       PROVE \E v \in Range(asked[f]) : Fits(d, f, v)
  <2>1. CASE f = "id"
    BY <1>6, <1>7, <1>10, <2>1
  <2>2. CASE f # "id" /\ Several(asked[f])
    BY <1>6, <1>8, <1>10, <2>2
  <2>3. CASE f # "id" /\ ~Several(asked[f])
    BY <1>6, <1>9, <1>10, <2>3
  <2> QED BY <2>1, <2>2, <2>3
<1>11. ASSUME \A f \in DOMAIN asked : \E v \in Range(asked[f]) : Fits(d, f, v)
       PROVE /\ filter.id # {} => d.id \in filter.id
             /\ filter.or # {} => \E fp \in filter.or : Fits(d, fp[1], fp[2])
             /\ \A fp \in filter.and : Fits(d, fp[1], fp[2])
  <2>1. filter.id # {} => d.id \in filter.id
    BY <1>7, <1>11
  <2>2. ASSUME filter.or # {} PROVE \E fp \in filter.or : Fits(d, fp[1], fp[2])
    <3>1. PICK f \in DOMAIN asked \ {"id"} : Several(asked[f])
      BY <1>1, <2>2
    <3> QED BY <1>8, <1>11, <2>2, <3>1
  <2>3. ASSUME NEW fp \in filter.and PROVE Fits(d, fp[1], fp[2])
    <3>1. PICK f \in DOMAIN asked \ {"id"} : ~Several(asked[f]) /\ fp[1] = f
      BY <1>1
    <3> QED BY <1>9, <1>11, <3>1
  <2> QED BY <2>1, <2>2, <2>3
<1> QED BY <1>6, <1>10, <1>11 DEF asked, filter

(* A request is answered with a list when no check fails. *)
LEMMA NoFailure ==
  ASSUME NEW a, NEW b, NEW c, NEW d, NEW e, NEW f, FirstFailure(<<a, b, c, d, e, f>>) = OK
  PROVE a = OK /\ b = OK /\ c = OK /\ d = OK /\ e = OK /\ f = OK
<1> DEFINE statuses == <<a, b, c, d, e, f>>
<1>1. DOMAIN statuses = 1..6
  OBVIOUS
<1> DEFINE failed == {i \in DOMAIN statuses : statuses[i] # OK}
<1>2. failed \subseteq 1..6
  BY <1>1
<1>3. ASSUME failed # {} PROVE \E i \in failed : \A j \in failed : i <= j
  <2> HIDE DEF failed
  <2>1. CASE 1 \in failed
    BY <1>2, <2>1
  <2>2. CASE 1 \notin failed /\ 2 \in failed
    BY <1>2, <2>2
  <2>3. CASE 1 \notin failed /\ 2 \notin failed /\ 3 \in failed
    BY <1>2, <2>3
  <2>4. CASE 1 \notin failed /\ 2 \notin failed /\ 3 \notin failed /\ 4 \in failed
    BY <1>2, <2>4
  <2>5. CASE failed \subseteq {5, 6} /\ 5 \in failed
    BY <2>5
  <2>6. CASE failed = {6}
    BY <2>6
  <2>7. \A i \in failed : i = 1 \/ i = 2 \/ i = 3 \/ i = 4 \/ i = 5 \/ i = 6
    BY <1>2
  <2> QED BY <1>3, <2>1, <2>2, <2>3, <2>4, <2>5, <2>6, <2>7
<1>4. ASSUME failed # {} PROVE FALSE
  <2>1. (CHOOSE i \in failed : \A j \in failed : i <= j) \in failed
    BY <1>3, <1>4
  <2>2. FirstFailure(statuses) = statuses[CHOOSE i \in failed : \A j \in failed : i <= j]
    BY <1>4 DEF FirstFailure
  <2> QED BY <2>1, <2>2
<1>5. \A i \in 1..6 : statuses[i] = OK
  BY <1>1, <1>4
<1>6. statuses[1] = OK /\ statuses[2] = OK /\ statuses[3] = OK /\ statuses[4] = OK
      /\ statuses[5] = OK /\ statuses[6] = OK
  <2> HIDE DEF statuses
  <2> QED BY <1>5
<1> QED BY <1>6

(* Of the checks of the cats' list, *)
LEMMA MongoListed ==
  ASSUME NEW q, MongoStatus(q) = OK
  PROVE /\ SearchHttpStatus(q.search) = OK /\ PaginationStatus(q) = OK
        /\ "id" \in DOMAIN SearchAsked(q.search) => ~Several(SearchAsked(q.search)["id"])
<1> DEFINE named == IF "" \in DOMAIN SortAsked(q.sort) THEN BadRequest ELSE OK
<1>1. FirstFailure(<<SortHttpStatus(q.sort), SearchHttpStatus(q.search), PaginationStatus(q),
                     named, SortStatus(q.sort), MongoSearchStatus(q.search)>>) = OK
  BY DEF MongoStatus
<1> HIDE DEF named
<1>2. SearchHttpStatus(q.search) = OK /\ PaginationStatus(q) = OK /\ MongoSearchStatus(q.search) = OK
  BY <1>1, NoFailure
<1>3. "id" \in DOMAIN SearchAsked(q.search) => ~Several(SearchAsked(q.search)["id"])
  BY <1>2 DEF MongoSearchStatus, OK, InternalError
<1> QED BY <1>2, <1>3

(* and of the users'. *)
LEMMA SqlListed ==
  ASSUME NEW q, SqlStatus(q) = OK
  PROVE /\ SearchHttpStatus(q.search) = OK
        /\ DOMAIN SearchAsked(q.search) \subseteq LikeAllowed \cup EqualAllowed
<1> DEFINE named == IF "" \in DOMAIN SortAsked(q.sort) THEN BadRequest ELSE OK
<1>1. FirstFailure(<<SortHttpStatus(q.sort), SearchHttpStatus(q.search), PaginationStatus(q),
                     named, SqlSearchStatus(q.search), SortStatus(q.sort)>>) = OK
  BY DEF SqlStatus
<1> HIDE DEF named
<1>2. SearchHttpStatus(q.search) = OK /\ SqlSearchStatus(q.search) = OK
  BY <1>1, NoFailure
<1> QED BY <1>2 DEF SqlSearchStatus, OK, BadRequest

(* No place is on two pages. *)
LEMMA PagesApart ==
  ASSUME NEW L \in Nat \ {0}, NEW m \in Nat \ {0}, NEW n \in Nat \ {0}, NEW i \in Nat,
         Skip(m, L) < i, i <= Skip(m, L) + L, Skip(n, L) < i, i <= Skip(n, L) + L
  PROVE m = n
<1>1. ASSUME NEW h \in Nat \ {0}, NEW k \in Nat \ {0}, h < k
      PROVE Skip(h, L) \in Nat /\ Skip(k, L) \in Nat /\ Skip(h, L) + L <= Skip(k, L)
  <2>1. PICK x \in Nat, y \in Nat : h = x + 1 /\ k = x + 1 + y + 1
    <3>1. h - 1 \in Nat /\ k - h - 1 \in Nat /\ h = (h - 1) + 1
          /\ k = (h - 1) + 1 + (k - h - 1) + 1
      BY <1>1
    <3> QED BY <3>1
  <2>2. x * L \in Nat /\ y * L \in Nat /\ (x + 1 + y) * L = x * L + L + y * L
    OBVIOUS
  <2>3. h - 1 = x /\ k - 1 = x + 1 + y
    BY <2>1
  <2> QED BY <2>2, <2>3 DEF Skip
<1>2. ~(m < n) /\ ~(n < m)
  BY <1>1
<1> QED BY <1>2

(* The collection is finite. *)
LEMMA DocumentsAreFinite == ASSUME TypeOK PROVE IsFiniteSet(Documents)
<1> DEFINE f == [c \in Stored(docs) |-> docs[c]]
<1>1. IsFiniteSet(Stored(docs))
  <2>1. Stored(docs) \subseteq Cat
    BY DEF TypeOK, Stored
  <2> QED BY <2>1, FS_Subset, CatsAssumption
<1>2. f \in Surjection(Stored(docs), Documents)
  BY DEF Surjection, Documents
<1> QED BY <1>1, <1>2, FS_Surjection

(* A sorted list holds every element once. *)
LEMMA SortedIsList ==
  ASSUME NEW S, IsFiniteSet(S), NEW sort, NEW s \in Sorted(S, sort)
  PROVE /\ Cardinality(S) \in Nat /\ s \in [1..Cardinality(S) -> S]
        /\ \A i, j \in 1..Cardinality(S) : i # j => s[i] # s[j]
        /\ \A d \in S : \E i \in 1..Cardinality(S) : s[i] = d
<1> DEFINE N == Cardinality(S)
<1>1. N \in Nat
  BY FS_CardinalityType
<1>2. s \in [1..N -> S] /\ \A i, j \in 1..N : i # j => s[i] # s[j]
  BY DEF Sorted, SetToSeqs
<1> HIDE DEF N
<1>3. s \in Injection(1..N, S)
  BY <1>2 DEF Injection, IsInjective
<1>4. Cardinality(1..N) = N
  BY <1>1, FS_Interval
<1>5. s \in Surjection(1..N, S)
  BY <1>3, <1>4, FS_Injection DEF N
<1> QED BY <1>1, <1>2, <1>5 DEF Surjection, N

(* In every order a document comes after those before it and before those  *)
(* after it; among its ties it may have any place.                         *)
LEMMA PlaceAmongTies ==
  ASSUME NEW S, IsFiniteSet(S), NEW sort, NEW s \in Sorted(S, sort), NEW i \in 1..Cardinality(S)
  PROVE LET ahead == {e \in S : Before(e, s[i], sort)}
            others == {e \in S : ~Before(s[i], e, sort)}
        IN  /\ Cardinality(ahead) \in Nat /\ Cardinality(others) \in Nat
            /\ Cardinality(ahead) + 1 <= i /\ i <= Cardinality(others)
<1> DEFINE N == Cardinality(S)
           ahead == {e \in S : Before(e, s[i], sort)}
           others == {e \in S : ~Before(s[i], e, sort)}
<1>1. /\ N \in Nat /\ s \in [1..N -> S] /\ (\A j, k \in 1..N : j # k => s[j] # s[k])
      /\ \A d \in S : \E j \in 1..N : s[j] = d
  BY SortedIsList
<1>2. \A j, k \in 1..N : Before(s[j], s[k], sort) => j < k
  BY <1>1 DEF Sorted
<1>3. IsFiniteSet(ahead) /\ IsFiniteSet(others)
      /\ Cardinality(ahead) \in Nat /\ Cardinality(others) \in Nat
  BY FS_Subset, FS_CardinalityType
<1> HIDE DEF N
<1>4. i \in 1..N
  BY DEF N
<1>5. Cardinality(ahead) <= i - 1
  <2> DEFINE before == {j \in 1..i - 1 : Before(s[j], s[i], sort)}
             f == [j \in before |-> s[j]]
  <2>1. \A j \in before : j \in 1..N
    BY <1>1, <1>4
  <2>2. f \in [before -> ahead]
    BY <1>1, <2>1
  <2>3. ASSUME NEW e \in ahead PROVE \E j \in before : f[j] = e
    <3>1. PICK j \in 1..N : s[j] = e
      BY <1>1
    <3>2. j \in 1..i - 1
      BY <1>1, <1>2, <1>4, <3>1
    <3> QED BY <3>1, <3>2
  <2>4. f \in Surjection(before, ahead)
    BY <2>2, <2>3 DEF Surjection
  <2>5. IsFiniteSet(1..i - 1) /\ Cardinality(1..i - 1) = i - 1
    <3>1. i - 1 \in Nat /\ 1 \in Int /\ i - 1 \in Int
      BY <1>1, <1>4
    <3>2. IsFiniteSet(1..i - 1)
          /\ Cardinality(1..i - 1) = IF 1 > i - 1 THEN 0 ELSE (i - 1) - 1 + 1
      BY <3>1, FS_Interval
    <3> QED BY <3>1, <3>2
  <2>6. /\ IsFiniteSet(before) /\ Cardinality(before) <= i - 1
        /\ Cardinality(before) \in Nat
    BY <2>5, FS_Subset, FS_CardinalityType
  <2> HIDE DEF before, f, ahead
  <2>7. Cardinality(ahead) <= Cardinality(before)
    BY <2>4, <2>6, FS_Surjection
  <2> QED BY <1>1, <1>3, <1>4, <2>6, <2>7
<1>6. i <= Cardinality(others)
  <2> DEFINE f == [j \in 1..i |-> s[j]]
  <2>1. \A j \in 1..i : j \in 1..N /\ ~(i < j)
    BY <1>1, <1>4
  <2>2. f \in [1..i -> others]
    BY <1>1, <1>2, <1>4, <2>1
  <2>3. f \in Injection(1..i, others)
    BY <1>1, <2>1, <2>2 DEF Injection, IsInjective
  <2>4. Cardinality(1..i) = i
    BY <1>1, <1>4, FS_Interval
  <2> HIDE DEF f, others
  <2> QED BY <1>3, <2>3, <2>4, FS_Injection
<1>7. Cardinality(ahead) + 1 <= i
  BY <1>1, <1>3, <1>4, <1>5
<1> QED BY <1>3, <1>6, <1>7

(* A limit that passes is a whole number within bounds. *)
LEMMA SizeIsWhole ==
  ASSUME NEW q \in Queries, PaginationStatus(q) = OK PROVE Limit(q.limit) \div 2 \in 1..MaxLimit
<1>1. q.limit \in Int \cup {NaN} /\ MaxLimit \in Nat \ {0} /\ DefaultLimit \in 1..MaxLimit
  BY LimitAssumption, AskingAssumption
<1>2. Limit(q.limit) \in 1..2 * MaxLimit
  BY <1>1 DEF Limit
<1>3. Limit(q.limit) % 2 = 0
  BY DEF PaginationStatus, OK, BadRequest
<1> QED BY <1>1, <1>2, <1>3

(* The list is what was asked, *)
LEMMA ListsIt == ASSUME TypeOK, NEW q \in Queries PROVE ListsWhatWasAsked(q)
<1> SUFFICES ASSUME MongoStatus(q) = OK, OneOfSeveral(q.search) PROVE ListsWhatWasAsked(q)
  BY DEF ListsWhatWasAsked
<1> DEFINE shown == {d \in Documents : MatchesMongo(d, MongoFilter(q.search))}
           size == Limit(q.limit) \div 2
           N == Cardinality(shown)
           first(d) == Cardinality({e \in shown : Before(e, d, q.sort)}) + 1
           last(d) == Cardinality({e \in shown : ~Before(d, e, q.sort)})
           within(n, d) == Skip(n, size) < first(d) /\ last(d) <= Skip(n, size) + size
<1>1. size \in 1..MaxLimit
  BY MongoListed, SizeIsWhole
<1>2. size \in Nat \ {0}
  BY <1>1, LimitAssumption
<1>3. IsFiniteSet(shown)
  BY DocumentsAreFinite, FS_Subset
<1>4. Askable(q.search)
  BY MongoListed, AskingAssumption DEF Askable
<1>5. \A d \in Documents : d \in shown <=> Asked(d, q.search)
  BY <1>4, MongoListed, FilterFindsAsked
<1>6. shown \subseteq Documents
  OBVIOUS
<1> HIDE DEF shown, size
<1>7. ASSUME NEW s \in Sorted(shown, q.sort)
      PROVE /\ \A n \in 1..N + 1 : \A d \in Range(PageOf(s, n, size)) : Asked(d, q.search)
            /\ \A d \in Documents, n \in 1..N + 1 :
                 Asked(d, q.search) /\ within(n, d) =>
                   \A m \in 1..N + 1 : d \in Range(PageOf(s, m, size)) <=> m = n
  <2>1. /\ N \in Nat /\ s \in [1..N -> shown] /\ (\A i, j \in 1..N : i # j => s[i] # s[j])
        /\ \A d \in shown : \E i \in 1..N : s[i] = d
    BY <1>3, SortedIsList
  <2>2. ASSUME NEW n \in 1..N + 1
        PROVE \A d : d \in Range(PageOf(s, n, size)) <=>
                \E i \in 1..N : Skip(n, size) < i /\ i <= Skip(n, size) + size /\ d = s[i]
    <3>1. Cut(s, N, n, size)
      <4> HIDE DEF N
      <4>1. n \in Nat \ {0}
        BY <2>1
      <4> QED BY <1>2, <2>1, <4>1, PageOfRange
    <3> QED BY <3>1 DEF Cut, Places
  <2>3. ASSUME NEW n \in 1..N + 1, NEW d \in Range(PageOf(s, n, size)) PROVE Asked(d, q.search)
    BY <1>5, <1>6, <2>1, <2>2
  <2>4. ASSUME NEW d \in Documents, NEW n \in 1..N + 1, Asked(d, q.search), within(n, d),
               NEW m \in 1..N + 1
        PROVE d \in Range(PageOf(s, m, size)) <=> m = n
    <3>1. PICK i \in 1..N : s[i] = d
      BY <1>5, <2>1, <2>4
    <3>2. first(d) - 1 \in Nat /\ last(d) \in Nat /\ first(d) <= i /\ i <= last(d)
      BY <1>3, <3>1, PlaceAmongTies
    <3>3. m \in Nat \ {0} /\ n \in Nat \ {0} /\ i \in Nat /\ first(d) \in Nat
      <4> HIDE DEF N
      <4>1. N \in Nat /\ i \in 1..N /\ m \in 1..N + 1 /\ n \in 1..N + 1
        BY <2>1
      <4>2. first(d) = Cardinality({e \in shown : Before(e, d, q.sort)}) + 1
            /\ Cardinality({e \in shown : Before(e, d, q.sort)}) \in Nat
        <5>1. IsFiniteSet({e \in shown : Before(e, d, q.sort)})
          BY <1>3, FS_Subset
        <5> QED BY <5>1, FS_CardinalityType
      <4>3. first(d) \in Nat
        BY <4>2
      <4> QED BY <4>1, <4>3
    <3> HIDE DEF N, first, last
    <3>4. Skip(n, size) \in Nat
      <4>1. n - 1 \in Nat /\ \A x \in Nat : x * size \in Nat
        BY <1>2, <3>3
      <4> QED BY <4>1 DEF Skip
    <3>5. Skip(n, size) < i /\ i <= Skip(n, size) + size
      BY <1>2, <2>4, <3>2, <3>3, <3>4
    <3>6. d \in Range(PageOf(s, n, size))
      BY <2>2, <3>1, <3>5
    <3>7. ASSUME d \in Range(PageOf(s, m, size)) PROVE m = n
      <4>1. Skip(m, size) < i /\ i <= Skip(m, size) + size
        BY <2>1, <2>2, <3>1, <3>7
      <4> QED BY <1>2, <3>3, <3>5, <4>1, PagesApart
    <3> QED BY <3>6, <3>7
  <2> QED BY <2>3, <2>4
<1> QED BY <1>1, <1>7 DEF ListsWhatWasAsked, shown, size

(* PostgreSQL's no more, *)
LEMMA SqlIsNoWider == ASSUME NEW q \in Queries, SqlStatus(q) = OK PROVE SqlShowsNoMore(q.search)
<1> SUFFICES ASSUME OneOfSeveral(q.search), NEW d \in Documents, MatchesSql(d, SqlFilter(q.search))
             PROVE MatchesMongo(d, MongoFilter(q.search))
  BY DEF SqlShowsNoMore
<1> DEFINE asked == SearchAsked(q.search)
<1>1. Askable(q.search) /\ "id" \notin DOMAIN asked
  BY SqlListed, AskingAssumption DEF Askable
<1>2. d.deletedAt = 0 /\ \A f \in DOMAIN asked : d[f] \in Range(asked[f])
  BY DEF MatchesSql, SqlFilter, SearchAsked
<1>3. \A f : Fits(d, f, d[f])
  BY DEF Fits, Like
<1>4. Asked(d, q.search)
  BY <1>2, <1>3 DEF Asked
<1> QED BY <1>1, <1>4, FilterFindsAsked

(* and commands find what they say. *)
LEMMA CommandsFindIt ==
  ASSUME NEW commands, Sequence(commands) PROVE FindsWhatIsCommanded(commands)
<1> SUFFICES ASSUME \A i, j \in DOMAIN commands : commands[i].property = commands[j].property => i = j
             PROVE FindByCommands(docs, commands, Part) =
                     {c \in Live(docs) : \A i \in DOMAIN commands : Satisfies(docs[c], commands[i], Part)}
  BY DEF FindsWhatIsCommanded
<1>1. \A i \in DOMAIN commands : i \in Nat
  BY DEF Sequence
<1>2. ASSUME NEW i \in DOMAIN commands PROVE LastOn(commands, commands[i].property) = commands[i]
  <2> DEFINE On == {j \in DOMAIN commands : commands[j].property = commands[i].property}
  <2>1. On = {i} /\ i <= i
    BY <1>1
  <2>2. (CHOOSE k \in On : \A j \in On : j <= k) = i
    BY <2>1
  <2> QED BY <2>2 DEF LastOn
<1>3. /\ DOMAIN SearchList(commands) = {commands[i].property : i \in DOMAIN commands}
      /\ \A i \in DOMAIN commands : SearchList(commands)[commands[i].property] = commands[i]
  BY <1>2 DEF SearchList
<1> QED BY <1>3 DEF FindByCommands

(* In every reachable collection, whatever the requests: the pages of an   *)
(* admitted list show only live cats that fit, and each whose ties fall on *)
(* one page there and nowhere else, though every page may order ties anew; *)
(* commands on distinct fields find what they say; PostgreSQL's filter     *)
(* shows no more (convert-mongoose-filter, pagination, findByCommands).    *)
THEOREM ReadsFind == Spec => []ReadsFindWhatWasAsked
<1>1. TypeOK => ReadsFindWhatWasAsked
  BY ListsIt, SqlIsNoWider, CommandsFindIt, AskingAssumption DEF ReadsFindWhatWasAsked
<1> QED BY <1>1, TypeCorrect, PTL
=============================================================================
