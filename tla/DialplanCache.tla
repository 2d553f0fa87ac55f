--------------------------- MODULE DialplanCache ---------------------------
(***************************************************************************)
(* The dialplan in PostgreSQL and the copy of it that answers FreeSWITCH:  *)
(* contexts of extensions, extensions of conditions, conditions of regexes,*)
(* actions and antiactions.  A request of an administrator changes the     *)
(* table, then the objects in memory and the maps that lead to them, and   *)
(* then renders its context again; the process may stop in between and     *)
(* reads everything back when it starts.  One request is handled at a time;*)
(* the calls that are matched meanwhile also write to the objects.         *)
(***************************************************************************)
EXTENDS Integers, FiniteSets, FiniteSetsExt, Functions, Positions

CONSTANTS
  Names,        \* names of contexts and extensions
  Contents,     \* what an item says: field, expression, application, data
  Loaded,       \* dialplans in the database at the start
  Targets,      \* positions that a client may ask an item to be moved to
  Clears,       \* <<says, s>>: matching a condition may leave s of its says
  Dayless,      \* what has a day of the month -> the same without it
  MaxId,        \* the last id of the tables (bound)
  MaxRequests,  \* requests of a behaviour (bound)
  NoName

VARIABLES
  disk,         \* the tables: id -> row
  heap,         \* the objects in memory: id -> fields
  live,         \* ids in the maps of the whole dialplan (byId)
  listed,       \* ids in the map of the object above them (byId)
  contextNames, \* Dialplans.Contexts.byName
  allNames,     \* Dialplans.Extensions.byName
  ownNames,     \* a context's Extensions.byName
  noProceed,    \* is a context's whole XML served?
  full,         \* a context's FullXMLCache
  job,          \* the request whose statement has been executed
  requests,     \* bound: MaxRequests
  clashed,      \* history: have two extensions had one name?
  strays        \* history: lists of which one was sent to a negative position

maps == <<live, listed, contextNames, allNames, ownNames>>
vars == <<disk, heap, maps, noProceed, full, job, requests, clashed, strays>>

Kinds == {"context", "extension", "condition", "regex", "action", "antiaction"}
Named   == {"context", "extension"}
Ordered == {"extension", "condition", "action", "antiaction"}
Above == [context |-> "dialplan", extension |-> "context", condition |-> "extension",
          regex |-> "condition", action |-> "condition", antiaction |-> "condition"]

Ids == 1 .. MaxId
Top == 0
NoJob == [op |-> "none"]

Item(kind, up, name, pos, says) ==
  [kind |-> kind, up |-> up, name |-> name, pos |-> pos, on |-> TRUE, says |-> says]

Items == [kind : Kinds, up : Ids \cup {Top}, name : Names \cup {NoName}, pos : Int,
          on : BOOLEAN, says : Contents \cup BOOLEAN \cup {NoName}]
IsTable(items) == DOMAIN items \subseteq Ids /\ items \in [DOMAIN items -> Items]

Of(kind, items) == {n \in DOMAIN items : items[n].kind = kind}

\* The items of one kind under one parent are a list: of four kinds, an ordered one.
ListOf(item) == <<item.kind, item.up>>

Siblings(items, n) ==
  {m \in DOMAIN items : items[m].kind = items[n].kind /\ items[m].up = items[n].up}

\* An item and what is below it: an item has at most three above it.
Under(items, n) ==
  LET below(ns) == {m \in DOMAIN items : items[m].up \in ns}
  IN {n} \cup below({n}) \cup below(below({n})) \cup below(below(below({n})))

(* What the references and the UNIQUE constraints of the tables say.  No   *)
(* constraint keeps the positions of conditions and of actions apart; that *)
(* they are is what the statements below keep, from empty tables on.       *)
Rooted(items) ==
  \A n \in DOMAIN items :
    IF items[n].kind = "context" THEN items[n].up = Top
    ELSE items[n].up \in DOMAIN items /\ items[items[n].up].kind = Above[items[n].kind]

InOrder(items, odd) ==
  \A n \in DOMAIN items : items[n].kind \in Ordered =>
    /\ items[n].pos >= 0
    /\ ListOf(items[n]) \notin odd =>
         /\ items[n].pos > 0
         /\ \A m \in Siblings(items, n) : items[m].pos = items[n].pos => m = n

Called(items) ==
  \A n \in DOMAIN items : items[n].kind \in Named =>
    /\ items[n].name \in Names
    /\ \A m \in Siblings(items, n) : items[m].name = items[n].name => m = n

Dialplan(items, odd) == Rooted(items) /\ InOrder(items, odd) /\ Called(items)

ASSUME LoadedAssumption ==
  /\ MaxId \in Nat /\ MaxRequests \in Nat
  /\ \A items \in Loaded : IsTable(items) /\ Dialplan(items, {})

\* The handlers refuse only position 0.  What has been cleared can be cleared on.
ASSUME RequestsAssumption ==
  /\ Targets \subseteq Int \ {0}
  /\ Clears \subseteq Contents \X Contents
  /\ \A p, q \in Clears : p[2] = q[1] => <<p[1], q[2]>> \in Clears
  /\ Dayless \in [DOMAIN Dayless -> Contents]

Without(items, gone) == [n \in DOMAIN items \ gone |-> items[n]]
With(items, n, item) == [m \in DOMAIN items \cup {n} |-> IF m = n THEN item ELSE items[m]]

(***************************************************************************)
(* The statements.                                                         *)
(***************************************************************************)
\* Mutants: an order that starts at 0; a position that is the number of items.
LastFromMinusOne(kind, up) ==
  Max({-1} \cup {disk[m].pos : m \in {k \in Of(kind, disk) : disk[k].up = up}})

CountOfItems(kind, up) == Cardinality({k \in Of(kind, disk) : disk[k].up = up})

\* INSERT ... position = the last one of its siblings + 1.
LastPosition(kind, up) ==
  Max({0} \cup {disk[m].pos : m \in {k \in Of(kind, disk) : disk[k].up = up}})

Place(items, n) == [m \in Siblings(items, n) |-> items[m].pos]

Placed(items, places) ==
  [m \in DOMAIN items |-> IF m \in DOMAIN places THEN [items[m] EXCEPT !.pos = places[m]]
                                                  ELSE items[m]]

\* Mutant: the rows in between stay where they are.
OnlyTheRow(n, to) == [disk EXCEPT ![n].pos = to]

(* The transaction takes the old position from the object in memory.       *)
MovedRows(n, to) == Placed(disk, MoveRows(Place(disk, n), n, heap[n].pos, to))

(***************************************************************************)
(* A request: the guards of the handler, its statement, and what is left   *)
(* to be done in memory.  An item is found in the maps of the dialplan.    *)
(***************************************************************************)
Ask(statement, rest, lists) ==
  /\ requests' = requests + 1
  /\ disk' = statement
  /\ job' = rest
  /\ strays' = strays \cup lists
  /\ UNCHANGED <<heap, maps, noProceed, full, clashed>>

Request(statement, rest) == Ask(statement, rest, {})

Found(kind) == live \cap Of(kind, heap)

NewId(n) == n \in Ids /\ \A m \in DOMAIN disk \cup DOMAIN heap : m < n
            /\ n = Max({0} \cup DOMAIN disk \cup DOMAIN heap) + 1

SetContext(name, n) ==
  /\ NewId(n)
  /\ contextNames[name] = Top
  /\ LET row == Item("context", Top, name, 0, NoName)
     IN Request(With(disk, n, row), [op |-> "set", id |-> n, item |-> row])

\* The name is looked for in the context's own map; the table has
\* UNIQUE (context_id, name).
SetContextExtension(c, name, says, n) ==
  /\ NewId(n)
  /\ c \in Found("context")
  /\ ownNames[c][name] = Top
  /\ \A m \in Of("extension", disk) : disk[m].up = c => disk[m].name # name
  /\ LET row == Item("extension", c, name, LastPosition("extension", c) + 1, says)
     IN Request(With(disk, n, row), [op |-> "set", id |-> n, item |-> row])

SetInner(kind, up, says, n) ==
  /\ NewId(n)
  /\ kind \in Kinds \ Named
  /\ up \in Found(Above[kind])
  /\ LET pos == IF kind \in Ordered THEN LastPosition(kind, up) + 1 ELSE 0
         row == Item(kind, up, NoName, pos, says)
     IN Request(With(disk, n, row), [op |-> "set", id |-> n, item |-> row])

(* The client names the position it believes the item to have.  The tables *)
(* of extensions and of antiactions have UNIQUE (parent, position): the     *)
(* transaction fails when a negative place, flipped, is another row's.      *)
MoveItem(n, previous, to) ==
  LET moved == MovedRows(n, to)
  IN /\ n \in UNION {Found(kind) : kind \in Ordered}
     /\ heap[n].pos = previous /\ previous # 0 /\ to # 0
     /\ heap[n].kind \in {"extension", "antiaction"} => IsInjective(Place(moved, n))
     /\ Ask(moved, [op |-> "move", id |-> n, to |-> to],
            IF to < 0 THEN {ListOf(heap[n])} ELSE {})

DeleteItem(n) ==
  /\ n \in live
  /\ Request(Without(disk, Under(disk, n)), [op |-> "delete", id |-> n])

UpdateItem(n, says) ==
  /\ n \in UNION {Found(kind) : kind \in Kinds \ {"context"}}
  /\ Request([disk EXCEPT ![n].says = says], [op |-> "update", id |-> n, says |-> says])

(* The statement for a regex writes to its field, not to enabled.          *)
SwitchItem(n, on) ==
  /\ n \in UNION {Found(kind) : kind \in Kinds \ Named}
  /\ Request(IF heap[n].kind = "regex" THEN [disk EXCEPT ![n].says = on]
                                       ELSE [disk EXCEPT ![n].on = on],
             [op |-> "switch", id |-> n, on |-> on])

RenameContext(n, name) ==
  /\ n \in Found("context")
  /\ contextNames[name] = Top
  /\ Request([disk EXCEPT ![n].name = name], [op |-> "rename", id |-> n, name |-> name])

\* The name must be new to the map of all contexts, and in the table to its own.
RenameExtension(n, name) ==
  /\ n \in Found("extension")
  /\ allNames[name] = Top
  /\ \A m \in Of("extension", disk) :
       disk[m].up = heap[n].up /\ disk[m].name = name => m = n
  /\ Request([disk EXCEPT ![n].name = name], [op |-> "rename", id |-> n, name |-> name])

Clash(items) == \E m, n \in Of("extension", items) : m # n /\ items[m].name = items[n].name

(***************************************************************************)
(* In memory.                                                              *)
(***************************************************************************)
\* Mutant: the old name stays.
BothNames(names, old, new) ==
  IF names[old] = Top THEN names ELSE [names EXCEPT ![new] = names[old]]

\* Extensions.Rename: the object that the map has under the old name.
Renamed(names, old, new) ==
  IF names[old] = Top THEN names
  ELSE [[names EXCEPT ![new] = names[old]] EXCEPT ![old] = Top]

\* clearUp: a kind at a time, what has no parent in the dialplan's maps.
ClearUp(left) ==
  LET rest(kinds, ids) ==
        {n \in ids : heap[n].kind \in kinds => heap[n].up \in ids}
  IN rest({"regex", "action", "antiaction"},
          rest({"condition"}, rest({"extension"}, left)))

\* The loop after the transaction goes over the items in the parent's map.
Shifted(n, to) ==
  LET group == Restrict(Place(heap, n), Siblings(heap, n) \cap listed)
  IN Placed(heap, MoveObjects(group, n, to))

(* The lists of a context: what is enabled and reached through the maps of *)
(* the parents, in the order of the positions.                             *)
Shown(objects, inMaps, c) ==
  LET enabled(ns) == {n \in inMaps : objects[n].up \in ns /\ objects[n].on}
  IN enabled({c}) \cup enabled(enabled({c})) \cup enabled(enabled(enabled({c})))

Line(item) == [kind |-> item.kind, up |-> item.up, name |-> item.name,
               pos |-> item.pos, says |-> item.says]

(* Every field of a condition is copied but the day of the month (the line *)
(* for it copies the day of the year again).                               *)
Written(line) ==
  IF line.kind = "condition" /\ line.says \in DOMAIN Dayless
  THEN [line EXCEPT !.says = Dayless[line.says]] ELSE line

Rendered(objects, inMaps, c) ==
  [name |-> objects[c].name,
   items |-> {Written(Line(objects[n])) : n \in Shown(objects, inMaps, c)}]

ContextOf(objects, n) ==
  CASE objects[n].kind = "context"   -> n
    [] objects[n].kind = "extension" -> objects[n].up
    [] objects[n].kind = "condition" -> objects[objects[n].up].up
    [] OTHER                         -> objects[objects[objects[n].up].up].up

\* Mutant: rendered only once.
CacheOnce(c) ==
  full' = IF noProceed /\ c \notin DOMAIN full
          THEN With(full, c, Rendered(heap', listed', c)) ELSE full

\* CacheFullXML, of the context of the object that was changed.
CacheFullXML(c) ==
  full' = IF noProceed THEN With(full, c, Rendered(heap', listed', c)) ELSE full

ApplySet ==
  /\ job.op = "set"
  /\ LET n == job.id
         item == job.item
     IN /\ heap' = With(heap, n, item)
        /\ live' = live \cup {n}
        /\ listed' = IF item.kind = "context" THEN listed ELSE listed \cup {n}
        /\ contextNames' = IF item.kind = "context"
                           THEN [contextNames EXCEPT ![item.name] = n] ELSE contextNames
        /\ allNames' = IF item.kind = "extension"
                       THEN [allNames EXCEPT ![item.name] = n] ELSE allNames
        /\ ownNames' = CASE item.kind = "context" -> With(ownNames, n, [x \in Names |-> Top])
                         [] item.kind = "extension" -> [ownNames EXCEPT ![item.up][item.name] = n]
                         [] OTHER -> ownNames
        /\ CacheFullXML(ContextOf(heap', n))

ApplyMove ==
  /\ job.op = "move"
  /\ heap' = Shifted(job.id, job.to)
  /\ UNCHANGED maps
  /\ CacheFullXML(ContextOf(heap, job.id))

ApplyUpdate ==
  /\ job.op \in {"update", "switch"}
  /\ heap' = IF job.op = "update" THEN [heap EXCEPT ![job.id].says = job.says]
                                  ELSE [heap EXCEPT ![job.id].on = job.on]
  /\ UNCHANGED maps
  /\ CacheFullXML(ContextOf(heap, job.id))

(* The dialplan's map is renamed first, and with it the object: the map of *)
(* the context is then asked to rename the new name.                       *)
ApplyRename ==
  /\ job.op = "rename"
  /\ LET n == job.id
         old == heap[n].name
         hit == IF heap[n].kind = "context" THEN contextNames[old] ELSE allNames[old]
         objects == IF hit = Top THEN heap ELSE [heap EXCEPT ![hit].name = job.name]
     IN IF heap[n].kind = "context"
        THEN /\ contextNames' = Renamed(contextNames, old, job.name)
             /\ heap' = objects
             /\ UNCHANGED <<live, listed, allNames, ownNames>>
             /\ CacheFullXML(n)
        ELSE LET c == heap[n].up
                 own == ownNames[c]
                 again == objects[n].name
             IN /\ allNames' = Renamed(allNames, old, job.name)
                /\ ownNames' = [ownNames EXCEPT ![c] = Renamed(own, again, job.name)]
                /\ heap' = IF own[again] = Top THEN objects
                           ELSE [objects EXCEPT ![own[again]].name = job.name]
                /\ UNCHANGED <<live, listed, contextNames>>
                /\ CacheFullXML(c)

(* Deleting takes the item out of the maps and then everything below it,   *)
(* a kind at a time; the names are deleted whatever they lead to.          *)
ApplyDelete ==
  /\ job.op = "delete"
  /\ LET n == job.id
         left == ClearUp(live \ {n})
         gone == live \ left
         goneExtensions == {heap[m].name : m \in gone \cap Of("extension", heap)}
     IN /\ live' = left
        /\ listed' = listed \ {n}
        /\ allNames' = [x \in Names |-> IF x \in goneExtensions THEN Top ELSE allNames[x]]
        /\ heap' = heap
        /\ IF heap[n].kind = "context"
           THEN /\ contextNames' = [contextNames EXCEPT ![heap[n].name] = Top]
                /\ UNCHANGED <<ownNames, full>>
           ELSE /\ ownNames' = IF heap[n].kind = "extension"
                               THEN [ownNames EXCEPT ![heap[n].up][heap[n].name] = Top]
                               ELSE ownNames
                /\ UNCHANGED contextNames
                /\ CacheFullXML(ContextOf(heap, n))

Apply ==
  /\ ApplySet \/ ApplyMove \/ ApplyUpdate \/ ApplyRename \/ ApplyDelete
  /\ job' = NoJob
  /\ clashed' = (clashed \/ Clash(Restrict(heap', live')))
  /\ UNCHANGED <<disk, noProceed, requests, strays>>

(***************************************************************************)
(* A call is matched with the objects, unless its context's whole XML is   *)
(* served.  checkCondition clears the fields of time that match, year,     *)
(* month and so on, in the object itself, also of a condition of which     *)
(* another field then does not match.                                      *)
(***************************************************************************)
Hunt ==
  /\ ~noProceed
  /\ \E x \in Names, n \in listed, says \in Contents :
       /\ contextNames[x] # Top
       /\ n \in Shown(heap, listed, contextNames[x]) /\ heap[n].kind = "condition"
       /\ <<heap[n].says, says>> \in Clears
       /\ heap' = [heap EXCEPT ![n].says = says]
  /\ UNCHANGED <<disk, maps, noProceed, full, job, requests, clashed, strays>>

(***************************************************************************)
(* CustomPBX stops and reads the dialplan again.  Of two extensions with   *)
(* one name in different contexts the one read last stays in the map.      *)
(***************************************************************************)
InMap(names, items) ==
  \A x \in Names : LET called == {n \in DOMAIN items : items[n].name = x}
                   IN IF called = {} THEN names[x] = Top ELSE names[x] \in called

InitDialplanCache(items) ==
  LET read(kind) == Restrict(items, Of(kind, items))
  IN /\ heap' = items
     /\ live' = DOMAIN items
     /\ listed' = DOMAIN items \ Of("context", items)
     /\ contextNames' \in {f \in [Names -> {Top} \cup Of("context", items)] : InMap(f, read("context"))}
     /\ allNames' \in {f \in [Names -> {Top} \cup Of("extension", items)] : InMap(f, read("extension"))}
     /\ ownNames' = [c \in Of("context", items) |->
          [x \in Names |-> LET called == {n \in Of("extension", items) :
                                           items[n].up = c /\ items[n].name = x}
                           IN IF called = {} THEN Top ELSE CHOOSE n \in called : TRUE]]
     /\ full' = IF noProceed THEN [c \in Of("context", items) |-> Rendered(items, DOMAIN items, c)]
                             ELSE <<>>

Restart ==
  /\ requests > 0
  /\ InitDialplanCache(disk)
  /\ job' = NoJob
  /\ clashed' = (clashed \/ Clash(disk))
  /\ UNCHANGED <<disk, noProceed, requests, strays>>

(* The cache is empty at first, and read once.                             *)
Init ==
  /\ disk \in Loaded
  /\ heap = <<>> /\ live = {} /\ listed = {} /\ ownNames = <<>> /\ full = <<>>
  /\ contextNames = [x \in Names |-> Top] /\ allNames = [x \in Names |-> Top]
  /\ noProceed \in BOOLEAN
  /\ job = [op |-> "load"] /\ requests = 0 /\ clashed = FALSE /\ strays = {}

Start ==
  /\ job.op = "load"
  /\ InitDialplanCache(disk)
  /\ job' = NoJob
  /\ clashed' = Clash(disk)
  /\ UNCHANGED <<disk, noProceed, requests, strays>>

\* A request is handled when the one before it has been.
Free == job = NoJob /\ requests < MaxRequests

Administer ==
  /\ Free
  /\ \/ \E x \in Names, n \in Ids : SetContext(x, n)
     \/ \E c \in live, x \in Names, says \in Contents, n \in Ids : SetContextExtension(c, x, says, n)
     \/ \E up \in live, kind \in Kinds, says \in Contents, n \in Ids : SetInner(kind, up, says, n)
     \/ \E n \in live : \/ \E to \in Targets : MoveItem(n, heap[n].pos, to)
                         \/ DeleteItem(n)
                         \/ \E says \in Contents : UpdateItem(n, says)
                         \/ \E on \in BOOLEAN : SwitchItem(n, on)
                         \/ \E x \in Names : RenameContext(n, x) \/ RenameExtension(n, x)

Next == Start \/ Administer \/ Apply \/ Hunt \/ Restart

Spec == Init /\ [][Next]_vars

-----------------------------------------------------------------------------
Idle == job = NoJob

(* Every item is of a known kind, and what has an order a position from 1, *)
(* in the lists that nothing was sent to a negative position of.           *)
TypeOK ==
  /\ IsTable(disk) /\ IsTable(heap)
  /\ live \subseteq DOMAIN heap /\ listed \subseteq DOMAIN heap
  /\ \A n \in DOMAIN disk : disk[n].kind \in Ordered =>
       disk[n].pos > 0 \/ (disk[n].pos = 0 /\ ListOf(disk[n]) \in strays)
  /\ \A c \in DOMAIN ownNames : ownNames[c] \in [Names -> {Top} \cup Ids]
  /\ contextNames \in [Names -> {Top} \cup Ids] /\ allNames \in [Names -> {Top} \cup Ids]
  /\ requests \in 0 .. MaxRequests

(* What the code is known to let drift (see the hazards): the positions of *)
(* a list that something was sent to a negative position of, which the     *)
(* table turns positive and the memory keeps; the fields of time that a    *)
(* call cleared, unless whole XML is served; a switched regex, whose row   *)
(* is not switched but has its field overwritten; and the names of         *)
(* extensions once two have had the same one, in two contexts or, after a  *)
(* context's map kept the name before a renaming, in one.                  *)
IsRow(object, row) ==
  /\ object.kind = row.kind /\ object.up = row.up
  /\ object.pos = row.pos \/ ListOf(object) \in strays
  /\ object.name = row.name \/ (object.kind = "extension" /\ clashed)
  /\ object.kind # "regex" =>
       /\ object.on = row.on
       /\ \/ object.says = row.says
          \/ /\ object.kind = "condition" /\ ~noProceed
             /\ <<row.says, object.says>> \in Clears

(* When no request is under way, the dialplan that calls are matched with  *)
(* is the one in the database, but for what is said above: a restart would *)
(* change nothing else.                                                    *)
MemoryIsDatabase ==
  Idle => /\ live = DOMAIN disk
          /\ \A n \in live : IsRow(heap[n], disk[n])
          /\ \A n \in live : heap[n].kind # "context" => n \in listed

(* No two items of one list have the same position: the order in which     *)
(* FreeSWITCH sees them is the administrators' and not the map's.  (Of a   *)
(* list that something was sent to a negative position of, it may not be.) *)
OrderIsGiven ==
  Idle => \A n \in live : heap[n].kind \in Ordered /\ ListOf(heap[n]) \notin strays =>
            \A m \in Siblings(heap, n) \cap live : heap[m].pos = heap[n].pos => m = n

Unnamed(line) ==
  IF line.kind = "extension" /\ clashed THEN [line EXCEPT !.name = NoName] ELSE line

(* The XML that is served whole is that of the objects in memory, which an *)
(* extension-by-extension answer would be made from, but for the days of   *)
(* the month, which are not written: such a condition is served as one of  *)
(* any day.                                                                *)
FullXMLIsCurrent ==
  Idle /\ noProceed => \A c \in Of("context", heap) \cap live :
    LET now == {Line(heap[n]) : n \in Shown(heap, listed, c)}
    IN /\ full[c].name = heap[c].name
       /\ {Unnamed(i) : i \in full[c].items} = {Unnamed(Written(i)) : i \in now}

(* A context answers to its name, and to no other.                         *)
ContextsAreFound ==
  Idle => \A x \in Names : \A c \in Of("context", heap) \cap live :
            contextNames[x] = c <=> heap[c].name = x
=============================================================================
