-------------------------- MODULE MongoRepository --------------------------
(***************************************************************************)
(* infra/repository/mongo: what the adapter's operations find in a         *)
(* collection and leave in it.  A collection maps every identifier to its  *)
(* document, or to None.  deletedAt is 0 for null.                         *)
(***************************************************************************)
EXTENDS Integers, Sequences, FiniteSets, SequencesExt

CONSTANT None

Stored(docs) == {i \in DOMAIN docs : docs[i] # None}
Live(docs) == {i \in Stored(docs) : docs[i].deletedAt = 0}

----------------------------------------------------------------------------
(* Filters.                                                                *)

(* Fault: the filter is passed on as it came.                              *)
FilterAsGiven(filter) == filter

(* { ...old, ...new }                                                      *)
Spread(old, new) ==
  [f \in DOMAIN old \cup DOMAIN new |-> IF f \in DOMAIN new THEN new[f] ELSE old[f]]

(* @ConvertMongoFilterToBaseRepository: what was deleted is left out.      *)
Converted(filter) == Spread(filter, [deletedAt |-> 0])

(* findById takes no filter: it finds deleted documents too.               *)
FindById(docs, id) == docs[id]

Found(docs, filter) ==
  {i \in Stored(docs) : \A f \in DOMAIN filter : docs[i][f] = filter[f]}

----------------------------------------------------------------------------
(* Commands: [property, command, value], value a set; Prefix: <<p, v>>.    *)

CommandsOn(commands, p) == SelectSeq(commands, LAMBDA c : c.property = p)

(* validateFindByCommandsFilter: two of a kind on one property are refused *)
(* (three are not).                                                        *)
Admitted(commands) ==
  \A i \in DOMAIN commands :
    LET on == CommandsOn(commands, commands[i].property)
        Count(kind) == Len(SelectSeq(on, LAMBDA c : c.command \in kind))
    IN  Count({"contains", "not_contains"}) # 2 /\ Count({"equal", "not_equal"}) # 2

(* Object.assign: of the commands on one property the last one stays.      *)
LastOn(commands, p) ==
  LET On == {i \in DOMAIN commands : commands[i].property = p}
  IN  commands[CHOOSE i \in On : \A j \in On : j <= i]
SearchList(commands) ==
  [p \in {commands[i].property : i \in DOMAIN commands} |-> LastOn(commands, p)]

(* contains is translated to a regular expression for the beginning.       *)
Satisfies(doc, c, prefix) ==
  LET v == doc[c.property]
      begins == \E p \in c.value : p = v \/ <<p, v>> \in prefix
  IN  CASE c.command = "equal" -> v \in c.value
        [] c.command = "not_equal" -> v \notin c.value
        [] c.command = "contains" -> begins
        [] c.command = "not_contains" -> ~begins

FindByCommands(docs, commands, prefix) ==
  {i \in Live(docs) :
     \A p \in DOMAIN SearchList(commands) : Satisfies(docs[i], SearchList(commands)[p], prefix)}

----------------------------------------------------------------------------
(* Writes: each gives the collections it may leave behind.                 *)

(* $set: mongoose keeps the identifier and the time of creation.           *)
Assigned(doc, changes) ==
  [f \in DOMAIN doc |->
     IF f \in DOMAIN changes \ {"id", "createdAt"} THEN changes[f] ELSE doc[f]]

(* save of a new document; a second one with the identifier is refused.    *)
CanInsert(docs, ids) == ids \cap Stored(docs) = {}

InsertMany(docs, new) ==
  [i \in DOMAIN docs |-> IF i \in DOMAIN new THEN new[i] ELSE docs[i]]

UpdateAll(docs, ids, changes) ==
  [i \in DOMAIN docs |-> IF i \in ids THEN Assigned(docs[i], changes) ELSE docs[i]]

UpdateMany(docs, filter, changes) == UpdateAll(docs, Found(docs, Converted(filter)), changes)

(* updateOne and findOneAndUpdate: one of the documents that match, if any.*)
UpdateOne(docs, filter, changes) ==
  LET ids == Found(docs, Converted(filter))
  IN  IF ids = {} THEN {docs} ELSE {UpdateAll(docs, {i}, changes) : i \in ids}

(* The update of createOrUpdate names the identifier alone.                *)
UpdateById(docs, id, changes) == UpdateAll(docs, {id} \cap Stored(docs), changes)
=============================================================================
