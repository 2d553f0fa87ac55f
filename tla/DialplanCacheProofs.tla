------------------------ MODULE DialplanCacheProofs -------------------------
(***************************************************************************)
(* For any dialplans, names and contents, any number of requests and any   *)
(* stops between a statement and the memory: the tables keep what their    *)
(* constraints say, the objects in memory are the rows, in a well-defined  *)
(* order, a context is found by its name, and the XML kept whole is that   *)
(* of the objects.  The argument: while a request is under way memory is   *)
(* still what the tables were, and the tables are what its statement made  *)
(* of that; what is left to be done in memory makes the two equal again,   *)
(* but for the differences that IsRow and Written name.                    *)
(***************************************************************************)
EXTENDS DialplanCache, PositionsProofs, FiniteSetTheorems, WellFoundedInduction,
        TLAPS

-----------------------------------------------------------------------------
(***************************************************************************)
(* The tables.                                                             *)
(***************************************************************************)
LEMMA MaxExists ==
  ASSUME NEW S \in SUBSET Int, IsFiniteSet(S), S # {}
  PROVE  Max(S) \in S /\ \A x \in S : Max(S) >= x
<1> DEFINE above(x) == {z \in S : z >= x}
           T == {above(x) : x \in S}
<1>1. T \subseteq FiniteSubsetsOf(S) /\ T # {}
  <2>1. \A x \in S : above(x) \in FiniteSubsetsOf(S)
    BY FS_Subset DEF FiniteSubsetsOf
  <2> QED BY <2>1
<1>2. IsWellFoundedOn(StrictSubsetOrdering(S), FiniteSubsetsOf(S))
  BY FS_StrictSubsetOrderingWellFounded
<1> HIDE DEF T
<1>3. PICK a \in T : \A b \in T : ~ (<<b, a>> \in StrictSubsetOrdering(S))
  BY <1>1, <1>2, WFMin
<1>4. PICK x \in S : a = above(x)
  BY <1>3 DEF T
<1>5. \A y \in S : x >= y
  <2> SUFFICES ASSUME NEW y \in S, ~(x >= y) PROVE FALSE
    OBVIOUS
  <2>1. x \in Int /\ y \in Int /\ \A z \in S : z \in Int
    OBVIOUS
  <2>2. x \in above(x) /\ x \notin above(y)
    BY <2>1
  <2>3. \A z \in S : z >= y => z >= x
    BY <2>1
  <2>4. above(y) \subseteq above(x)
    BY <2>3
  <2>5. above(y) \in T
    BY DEF T
  <2>6. <<above(y), a>> \in StrictSubsetOrdering(S)
    BY <2>2, <2>4, <1>4 DEF StrictSubsetOrdering
  <2> QED BY <2>5, <2>6, <1>3
<1>6. QED BY <1>5 DEF Max

(* INSERT puts an item behind all of its siblings.                         *)
LEMMA LastIsLast ==
  ASSUME IsTable(disk), NEW kind, NEW up
  PROVE  /\ LastPosition(kind, up) \in Nat
         /\ \A m \in Of(kind, disk) : disk[m].up = up => disk[m].pos <= LastPosition(kind, up)
<1> DEFINE S == {k \in Of(kind, disk) : disk[k].up = up}
           P == {0} \cup {disk[m].pos : m \in S}
<1>0. MaxId \in Int /\ IsFiniteSet(Ids)
  BY FS_Interval, LoadedAssumption DEF Ids
<1>1. DOMAIN disk \subseteq Ids /\ S \subseteq DOMAIN disk
  BY DEF IsTable, Of
<1>2. IsFiniteSet(S)
  BY <1>0, <1>1, FS_Subset
<1>3. \A m \in S : disk[m].pos \in Int
  BY <1>1 DEF IsTable, Items
<1>4. P # {} /\ P \in SUBSET Int /\ 0 \in P
  BY <1>3
<1> DEFINE f == [m \in S |-> disk[m].pos]
           Q == {disk[m].pos : m \in S}
<1>5. f \in Surjection(S, Q)
  BY DEF Surjection
<1>6. IsFiniteSet(Q)
  BY <1>2, <1>5, FS_Surjection
<1>7. IsFiniteSet(P)
  BY <1>6, FS_Singleton, FS_Union
<1>8. LastPosition(kind, up) = Max(P)
  BY DEF LastPosition
<1> HIDE DEF P
<1>9. Max(P) \in P /\ \A x \in P : Max(P) >= x
  BY <1>4, <1>7, MaxExists
<1>10. \A m \in S : disk[m].pos \in P
  BY DEF P
<1>11. Max(P) \in Int
  BY <1>9, <1>4
<1>12. Max(P) >= 0
  BY <1>9, <1>4
<1>13. \A m \in S : disk[m].pos <= Max(P)
  BY <1>9, <1>10, <1>11, <1>3
<1>14. Max(P) \in Nat
  BY <1>11, <1>12
<1> QED BY <1>8, <1>13, <1>14 DEF Of

LEMMA Fields ==
  ASSUME NEW items, IsTable(items), NEW n \in DOMAIN items
  PROVE  items[n] \in Items /\ n \in Ids /\ n # Top /\ items[n].kind \in Kinds
<1>1. items[n] \in Items /\ n \in Ids
  BY DEF IsTable
<1> QED BY <1>1, LoadedAssumption DEF Ids, Top, Items

LEMMA Parents ==
  ASSUME NEW items, IsTable(items), Rooted(items), NEW n \in DOMAIN items
  PROVE  /\ items[n].kind = "context" => items[n].up \notin DOMAIN items
         /\ items[n].kind # "context" => items[n].up \in DOMAIN items
         /\ items[n].kind = "extension" => items[items[n].up].kind = "context"
         /\ items[n].kind = "condition" => items[items[n].up].kind = "extension"
         /\ items[n].kind \in {"regex", "action", "antiaction"}
              => items[items[n].up].kind = "condition"
<1>1. /\ Above["extension"] = "context" /\ Above["condition"] = "extension"
      /\ Above["regex"] = "condition" /\ Above["action"] = "condition"
      /\ Above["antiaction"] = "condition"
  BY DEF Above
<1>2. Top \notin DOMAIN items
  BY Fields
<1> QED BY <1>1, <1>2 DEF Rooted

(* What follows, for each item, from the same about the item above it, is  *)
(* so of all: a dialplan has four levels.                                  *)
LEMMA FromTheTop ==
  ASSUME NEW items, IsTable(items), Rooted(items), NEW A,
         \A m \in DOMAIN items :
           (items[m].kind # "context" => items[m].up \in A) => m \in A
  PROVE  DOMAIN items \subseteq A
<1> DEFINE of(kind) == \A m \in DOMAIN items : items[m].kind = kind => m \in A
<1>1. of("context")
  OBVIOUS
<1>2. of("extension")
  BY <1>1, Parents
<1>3. of("condition")
  BY <1>2, Parents
<1>4. of("regex") /\ of("action") /\ of("antiaction")
  BY <1>3, Parents
<1>5. \A m \in DOMAIN items : items[m].kind \in Kinds
  BY Fields
<1> QED BY <1>1, <1>2, <1>3, <1>4, <1>5 DEF Kinds

LEMMA SameFromTheTop ==
  ASSUME NEW items, IsTable(items), Rooted(items),
         NEW A \in SUBSET DOMAIN items, NEW B \in SUBSET DOMAIN items,
         \A m \in DOMAIN items :
           (items[m].kind # "context" => (items[m].up \in A <=> items[m].up \in B))
             => (m \in A <=> m \in B)
  PROVE  A = B
<1> DEFINE C == {m \in DOMAIN items : m \in A <=> m \in B}
<1>1. \A m \in DOMAIN items :
        (items[m].kind # "context" => items[m].up \in C) => m \in C
  OBVIOUS
<1> HIDE DEF C
<1>2. DOMAIN items \subseteq C
  BY <1>1, FromTheTop
<1> QED BY <1>2 DEF C

(* The three levels below an item are everything below it.                 *)
LEMMA UnderIsClosed ==
  ASSUME NEW items, IsTable(items), Rooted(items), NEW n \in DOMAIN items
  PROVE  /\ Under(items, n) \subseteq DOMAIN items
         /\ \A m \in DOMAIN items :
              m \in Under(items, n) <=> m = n \/ items[m].up \in Under(items, n)
<1> DEFINE below(ns) == {m \in DOMAIN items : items[m].up \in ns}
           b1 == below({n})
           b2 == below(b1)
           b3 == below(b2)
<1>1. Under(items, n) = {n} \cup b1 \cup b2 \cup b3
  BY DEF Under
<1>2. \A m \in b1 : items[m].kind # "context"
  BY Parents
<1>3. \A m \in b2 : items[m].kind \notin {"context", "extension"}
  <2>1. \A m \in b2 : items[m].up \in DOMAIN items /\ items[items[m].up].kind # "context"
    BY <1>2
  <2> QED BY <2>1, Parents
<1>4. \A m \in b3 : items[m].kind \notin {"context", "extension", "condition"}
  <2>1. \A m \in b3 : items[m].up \in DOMAIN items
                      /\ items[items[m].up].kind \notin {"context", "extension"}
    BY <1>3
  <2> QED BY <2>1, Parents
<1>5. \A m \in DOMAIN items : items[m].up \notin b3
  <2> SUFFICES ASSUME NEW m \in DOMAIN items, items[m].up \in b3 PROVE FALSE
    OBVIOUS
  <2>1. items[m].kind # "context"
    BY Parents
  <2>2. items[items[m].up].kind \in {"context", "extension", "condition"}
    BY <2>1, Parents, Fields DEF Kinds
  <2> QED BY <2>2, <1>4
<1> QED BY <1>1, <1>5

(* A context, and everything below it, has it as its context.              *)
LEMMA ContextOfStep ==
  ASSUME NEW items, IsTable(items), Rooted(items), NEW n \in DOMAIN items
  PROVE  /\ items[n].kind = "context" => ContextOf(items, n) = n
         /\ items[n].kind # "context" => ContextOf(items, n) = ContextOf(items, items[n].up)
<1>1. CASE items[n].kind = "context"
  BY <1>1 DEF ContextOf
<1>2. CASE items[n].kind = "extension"
  BY <1>2, Parents DEF ContextOf
<1>3. CASE items[n].kind = "condition"
  BY <1>3, Parents DEF ContextOf
<1>4. CASE items[n].kind \in {"regex", "action", "antiaction"}
  BY <1>4, Parents DEF ContextOf
<1> QED BY <1>1, <1>2, <1>3, <1>4, Fields DEF Kinds

LEMMA ContextIsThere ==
  ASSUME NEW items, IsTable(items), Rooted(items), NEW n \in DOMAIN items
  PROVE  ContextOf(items, n) \in Of("context", items)
<1> DEFINE A == {m \in DOMAIN items : ContextOf(items, m) \in Of("context", items)}
<1>1. \A m \in DOMAIN items :
        (items[m].kind # "context" => items[m].up \in A) => m \in A
  BY ContextOfStep DEF Of
<1> HIDE DEF A
<1>2. DOMAIN items \subseteq A
  BY <1>1, FromTheTop
<1> QED BY <1>2 DEF A

(* What is shown is enabled and below what is shown, up to the context.    *)
LEMMA ShownStep ==
  ASSUME NEW items, IsTable(items), Rooted(items), NEW inMaps \in SUBSET DOMAIN items,
         NEW c \in Of("context", items)
  PROVE  \A m \in DOMAIN items : m \in Shown(items, inMaps, c)
           <=> /\ m \in inMaps /\ items[m].on
               /\ items[m].up = c \/ items[m].up \in Shown(items, inMaps, c)
<1> DEFINE enabled(ns) == {m \in inMaps : items[m].up \in ns /\ items[m].on}
           e1 == enabled({c})
           e2 == enabled(e1)
           e3 == enabled(e2)
<1>1. Shown(items, inMaps, c) = e1 \cup e2 \cup e3
  BY DEF Shown
<1>2. \A m \in e1 : items[m].kind # "context"
  BY Parents DEF Of
<1>3. \A m \in e2 : items[m].kind \notin {"context", "extension"}
  <2>1. \A m \in e2 : items[m].up \in DOMAIN items /\ items[items[m].up].kind # "context"
    BY <1>2
  <2> QED BY <2>1, Parents
<1>4. \A m \in e3 : items[m].kind \notin {"context", "extension", "condition"}
  <2>1. \A m \in e3 : items[m].up \in DOMAIN items
                      /\ items[items[m].up].kind \notin {"context", "extension"}
    BY <1>3
  <2> QED BY <2>1, Parents
<1>5. \A m \in DOMAIN items : items[m].up \notin e3
  <2> SUFFICES ASSUME NEW m \in DOMAIN items, items[m].up \in e3 PROVE FALSE
    OBVIOUS
  <2>1. items[m].kind # "context"
    BY Parents
  <2>2. items[items[m].up].kind \in {"context", "extension", "condition"}
    BY <2>1, Parents, Fields DEF Kinds
  <2> QED BY <2>2, <1>4
<1> QED BY <1>1, <1>5

LEMMA ShownIsOfContext ==
  ASSUME NEW items, IsTable(items), Rooted(items), NEW inMaps \in SUBSET DOMAIN items,
         NEW c \in Of("context", items), NEW n \in Shown(items, inMaps, c)
  PROVE  n \in inMaps /\ ContextOf(items, n) = c
<1> DEFINE A == {m \in DOMAIN items :
                   m \in Shown(items, inMaps, c) => ContextOf(items, m) = c}
<1>1. n \in inMaps /\ n \in DOMAIN items
  BY DEF Shown
<1>2. \A m \in DOMAIN items :
        (items[m].kind # "context" => items[m].up \in A) => m \in A
  <2>1. Shown(items, inMaps, c) \subseteq DOMAIN items /\ c \in DOMAIN items
    BY DEF Shown, Of
  <2>2. ContextOf(items, c) = c
    BY <2>1, ContextOfStep DEF Of
  <2> SUFFICES ASSUME NEW m \in DOMAIN items, m \in Shown(items, inMaps, c),
                      items[m].kind # "context" => items[m].up \in A
               PROVE  ContextOf(items, m) = c
    OBVIOUS
  <2>3. items[m].up = c \/ items[m].up \in Shown(items, inMaps, c)
    BY ShownStep
  <2>4. items[m].kind # "context"
    BY <2>1, <2>3, Parents
  <2>5. ContextOf(items, m) = ContextOf(items, items[m].up)
    BY <2>4, ContextOfStep
  <2> QED BY <2>2, <2>3, <2>4, <2>5
<1> HIDE DEF A
<1>3. DOMAIN items \subseteq A
  BY <1>2, FromTheTop
<1> QED BY <1>1, <1>3 DEF A

(* A row that is inserted where its kind belongs, with a position and a    *)
(* name of its own.                                                        *)
LEMMA InsertKeeps ==
  ASSUME NEW items, IsTable(items), NEW odd, Dialplan(items, odd),
         NEW n \in Ids \ DOMAIN items, NEW item \in Items,
         IF item.kind = "context" THEN item.up = Top
         ELSE item.up \in DOMAIN items /\ items[item.up].kind = Above[item.kind],
         item.kind \in Ordered =>
           /\ item.pos > 0
           /\ \A m \in Of(item.kind, items) : items[m].up = item.up => items[m].pos # item.pos,
         item.kind \in Named =>
           /\ item.name \in Names
           /\ \A m \in Of(item.kind, items) : items[m].up = item.up => items[m].name # item.name
  PROVE  IsTable(With(items, n, item)) /\ Dialplan(With(items, n, item), odd)
<1> DEFINE new == With(items, n, item)
<1>1. /\ DOMAIN new = DOMAIN items \cup {n} /\ new[n] = item
      /\ \A m \in DOMAIN items : new[m] = items[m]
      /\ new = [m \in DOMAIN new |-> new[m]]
  BY DEF With
<1> HIDE DEF new
<1>2. IsTable(new)
  <2>1. \A m \in DOMAIN new : new[m] \in Items
    BY <1>1, Fields
  <2>2. DOMAIN new \subseteq Ids
    BY <1>1 DEF IsTable
  <2> QED BY <1>1, <2>1, <2>2 DEF IsTable
<1>3. Rooted(new)
  <2> SUFFICES ASSUME NEW m \in DOMAIN new
               PROVE  IF new[m].kind = "context" THEN new[m].up = Top
                      ELSE /\ new[m].up \in DOMAIN new
                           /\ new[new[m].up].kind = Above[new[m].kind]
    BY DEF Rooted
  <2>1. CASE m = n
    BY <2>1, <1>1
  <2>2. CASE m \in DOMAIN items
    BY <2>2, <1>1 DEF Dialplan, Rooted
  <2> QED BY <2>1, <2>2, <1>1
<1>4. InOrder(new, odd)
  <2>1. ASSUME NEW m \in DOMAIN new, new[m].kind \in Ordered
        PROVE  new[m].pos >= 0 /\ (ListOf(new[m]) \notin odd => new[m].pos > 0)
    <3>1. CASE m = n
      <4>1. item.pos \in Int /\ item.pos > 0
        BY <2>1, <3>1, <1>1 DEF Items
      <4> QED BY <3>1, <4>1, <1>1
    <3>2. CASE m \in DOMAIN items
      BY <2>1, <3>2, <1>1 DEF Dialplan, InOrder
    <3> QED BY <3>1, <3>2, <1>1
  <2>2. ASSUME NEW m \in DOMAIN new, new[m].kind \in Ordered, ListOf(new[m]) \notin odd,
               NEW k \in Siblings(new, m), new[k].pos = new[m].pos
        PROVE  k = m
    <3>1. k \in DOMAIN new /\ new[k].kind = new[m].kind /\ new[k].up = new[m].up
      BY DEF Siblings
    <3>2. CASE k \in DOMAIN items /\ m \in DOMAIN items
      BY <3>1, <3>2, <2>2, <1>1 DEF Dialplan, InOrder, Siblings
    <3>3. CASE k = n /\ m # n
      BY <3>1, <3>3, <2>2, <1>1 DEF Of
    <3>4. CASE m = n /\ k # n
      BY <3>1, <3>4, <2>2, <1>1 DEF Of
    <3> QED BY <3>1, <3>2, <3>3, <3>4, <1>1
  <2> QED BY <2>1, <2>2 DEF InOrder
<1>5. Called(new)
  <2> SUFFICES ASSUME NEW m \in DOMAIN new, new[m].kind \in Named
               PROVE  /\ new[m].name \in Names
                      /\ \A k \in Siblings(new, m) : new[k].name = new[m].name => k = m
    BY DEF Called
  <2>1. new[m].name \in Names
    BY <1>1 DEF Dialplan, Called
  <2>2. ASSUME NEW k \in Siblings(new, m), new[k].name = new[m].name PROVE k = m
    <3>1. k \in DOMAIN new /\ new[k].kind = new[m].kind /\ new[k].up = new[m].up
      BY DEF Siblings
    <3>2. CASE k \in DOMAIN items /\ m \in DOMAIN items
      BY <3>1, <3>2, <2>2, <1>1 DEF Dialplan, Called, Siblings
    <3>3. CASE k = n /\ m # n
      BY <3>1, <3>3, <2>2, <1>1 DEF Of
    <3>4. CASE m = n /\ k # n
      BY <3>1, <3>4, <2>2, <1>1 DEF Of
    <3> QED BY <3>1, <3>2, <3>3, <3>4, <1>1
  <2> QED BY <2>1, <2>2
<1> QED BY <1>2, <1>3, <1>4, <1>5 DEF Dialplan, new

(* The rows of an item and of what is below it are deleted.                *)
LEMMA DeleteKeeps ==
  ASSUME NEW items, IsTable(items), NEW odd, Dialplan(items, odd), NEW n \in DOMAIN items
  PROVE  /\ IsTable(Without(items, Under(items, n)))
         /\ Dialplan(Without(items, Under(items, n)), odd)
<1> DEFINE new == Without(items, Under(items, n))
<1>1. /\ DOMAIN new = DOMAIN items \ Under(items, n)
      /\ \A m \in DOMAIN new : new[m] = items[m]
      /\ new = [m \in DOMAIN new |-> new[m]]
  BY DEF Without
<1> HIDE DEF new
<1>2. IsTable(new)
  <2>1. \A m \in DOMAIN new : new[m] \in Items
    BY <1>1, Fields
  <2>2. DOMAIN new \subseteq Ids
    BY <1>1 DEF IsTable
  <2> QED BY <1>1, <2>1, <2>2 DEF IsTable
<1>3. Rooted(new)
  <2>1. Rooted(items)
    BY DEF Dialplan
  <2>2. \A m \in DOMAIN new : items[m].up \notin Under(items, n)
    BY <1>1, <2>1, UnderIsClosed
  <2> QED BY <1>1, <2>1, <2>2 DEF Rooted
<1>4. InOrder(new, odd)
  BY <1>1 DEF Dialplan, InOrder, Siblings
<1>5. Called(new)
  BY <1>1 DEF Dialplan, Called, Siblings
<1> QED BY <1>2, <1>3, <1>4, <1>5 DEF Dialplan, new

(* A row whose contents or switch changes.                                 *)
LEMMA UpdateKeeps ==
  ASSUME NEW items, IsTable(items), NEW odd, Dialplan(items, odd), NEW n \in DOMAIN items,
         NEW says \in Contents \cup BOOLEAN \cup {NoName}, NEW on \in BOOLEAN
  PROVE  /\ IsTable([items EXCEPT ![n].says = says]) /\ Dialplan([items EXCEPT ![n].says = says], odd)
         /\ IsTable([items EXCEPT ![n].on = on]) /\ Dialplan([items EXCEPT ![n].on = on], odd)
<1>1. ASSUME NEW new, new = [items EXCEPT ![n].says = says] \/ new = [items EXCEPT ![n].on = on]
      PROVE  IsTable(new) /\ Dialplan(new, odd)
  <2>1. DOMAIN new = DOMAIN items /\ new = [m \in DOMAIN new |-> new[m]]
    BY <1>1
  <2>2. \A m \in DOMAIN items : items[m] \in Items
    BY Fields
  <2>3. \A m \in DOMAIN items : /\ new[m] \in Items
                                /\ new[m].kind = items[m].kind /\ new[m].up = items[m].up
                                /\ new[m].name = items[m].name /\ new[m].pos = items[m].pos
    BY <1>1, <2>2 DEF Items
  <2>4. IsTable(new)
    BY <2>1, <2>3 DEF IsTable
  <2>5. Rooted(new) /\ InOrder(new, odd) /\ Called(new)
    BY <2>1, <2>3 DEF Dialplan, Rooted, InOrder, ListOf, Called, Siblings
  <2> QED BY <2>4, <2>5 DEF Dialplan
<1> QED BY <1>1

(* A context or an extension with a name that is new beside it.            *)
LEMMA RenameKeeps ==
  ASSUME NEW items, IsTable(items), NEW odd, Dialplan(items, odd), NEW n \in DOMAIN items, NEW name \in Names,
         \A m \in Siblings(items, n) : items[m].name = name => m = n
  PROVE  IsTable([items EXCEPT ![n].name = name]) /\ Dialplan([items EXCEPT ![n].name = name], odd)
<1> DEFINE new == [items EXCEPT ![n].name = name]
<1>1. DOMAIN new = DOMAIN items /\ new = [m \in DOMAIN new |-> new[m]]
  OBVIOUS
<1>2. \A m \in DOMAIN items : items[m] \in Items
  BY Fields
<1>3. \A m \in DOMAIN items : /\ new[m] \in Items
                              /\ new[m].kind = items[m].kind /\ new[m].up = items[m].up
                              /\ new[m].name = (IF m = n THEN name ELSE items[m].name)
                              /\ new[m].pos = items[m].pos
  BY <1>2 DEF Items
<1> HIDE DEF new
<1>4. IsTable(new)
  BY <1>1, <1>3 DEF IsTable
<1>5. Rooted(new) /\ InOrder(new, odd)
  BY <1>1, <1>3 DEF Dialplan, Rooted, InOrder, ListOf, Siblings
<1>6. Called(new)
  <2>1. Called(items) /\ \A m \in DOMAIN items : Siblings(new, m) = Siblings(items, m)
    BY <1>1, <1>3 DEF Dialplan, Siblings
  <2>2. \A m, k \in DOMAIN items : m \in Siblings(items, k) <=> k \in Siblings(items, m)
    BY DEF Siblings
  <2>3. \A m \in DOMAIN items : \A k \in Siblings(items, m) : k \in DOMAIN items
    BY DEF Siblings
  <2> QED BY <1>1, <1>3, <2>1, <2>2, <2>3 DEF Called
<1> QED BY <1>4, <1>5, <1>6 DEF Dialplan, new

(* The positions of an item's siblings, which are what a move changes.     *)
LEMMA PlaceIsDistinct ==
  ASSUME NEW items, IsTable(items), NEW odd, Dialplan(items, odd), NEW n \in DOMAIN items,
         items[n].kind \in Ordered
  PROVE  /\ Place(items, n) \in [Siblings(items, n) -> Nat]
         /\ n \in Siblings(items, n)
         /\ ListOf(items[n]) \notin odd =>
              /\ Place(items, n) \in [Siblings(items, n) -> Nat \ {0}]
              /\ Distinct(Place(items, n))
<1>1. \A m \in Siblings(items, n) : /\ m \in DOMAIN items /\ items[m].pos \in Int
                                    /\ items[m].kind = items[n].kind
                                    /\ ListOf(items[m]) = ListOf(items[n])
                                    /\ Siblings(items, m) = Siblings(items, n)
  BY Fields DEF Siblings, ListOf, Items
<1>2. \A m \in Siblings(items, n) :
        items[m].pos >= 0 /\ (ListOf(items[n]) \notin odd => items[m].pos > 0)
  BY <1>1 DEF Dialplan, InOrder
<1>3. ListOf(items[n]) \notin odd =>
        \A m, k \in Siblings(items, n) : items[m].pos = items[k].pos => m = k
  BY <1>1 DEF Dialplan, InOrder
<1>4. \A m \in Siblings(items, n) :
        items[m].pos \in Nat /\ (ListOf(items[n]) \notin odd => items[m].pos \in Nat \ {0})
  BY <1>1, <1>2
<1> QED BY <1>3, <1>4 DEF Place, Distinct, Siblings

(* New positions for the siblings of an item, which are apart unless their *)
(* list is an odd one.                                                     *)
LEMMA PlacedKeeps ==
  ASSUME NEW items, IsTable(items), NEW odd, Dialplan(items, odd), NEW n \in DOMAIN items,
         NEW P \in [Siblings(items, n) -> Nat],
         ListOf(items[n]) \notin odd => P \in [Siblings(items, n) -> Nat \ {0}] /\ Distinct(P)
  PROVE  IsTable(Placed(items, P)) /\ Dialplan(Placed(items, P), odd)
<1> DEFINE S == Siblings(items, n)
           new == Placed(items, P)
<1>2. S \subseteq DOMAIN items /\ DOMAIN new = DOMAIN items /\ new = [m \in DOMAIN new |-> new[m]]
  BY DEF Placed, Siblings
<1>3. \A m \in DOMAIN items : items[m] \in Items
  BY Fields
<1>4. \A m \in DOMAIN items : new[m] = IF m \in S THEN [items[m] EXCEPT !.pos = P[m]] ELSE items[m]
  BY DEF Placed
<1> HIDE DEF new
<1>5. \A m \in DOMAIN items : /\ new[m] \in Items
                              /\ new[m].kind = items[m].kind /\ new[m].up = items[m].up
                              /\ new[m].name = items[m].name
                              /\ m \in S => new[m].pos = P[m]
                              /\ m \notin S => new[m].pos = items[m].pos
  <2> SUFFICES ASSUME NEW m \in DOMAIN items
               PROVE  /\ new[m] \in Items
                      /\ new[m].kind = items[m].kind /\ new[m].up = items[m].up
                      /\ new[m].name = items[m].name
                      /\ m \in S => new[m].pos = P[m]
                      /\ m \notin S => new[m].pos = items[m].pos
    OBVIOUS
  <2>1. CASE m \in S
    <3>1. P[m] \in Int
      BY <2>1
    <3> QED BY <2>1, <3>1, <1>3, <1>4 DEF Items
  <2>2. CASE m \notin S
    BY <2>2, <1>3, <1>4
  <2> QED BY <2>1, <2>2
<1>6. IsTable(new)
  BY <1>2, <1>5 DEF IsTable
<1>7. Rooted(new) /\ Called(new)
  BY <1>2, <1>5 DEF Dialplan, Rooted, Called, Siblings
<1>8. InOrder(new, odd)
  <2>1. \A m \in DOMAIN items : /\ Siblings(new, m) = Siblings(items, m)
                                /\ ListOf(new[m]) = ListOf(items[m])
    BY <1>2, <1>5 DEF Siblings, ListOf
  <2>2. \A m \in DOMAIN items : \A k \in Siblings(items, m) :
          k \in DOMAIN items /\ (m \in S <=> k \in S)
    BY DEF Siblings
  <2>3. \A m \in S : /\ new[m].pos >= 0 /\ ListOf(items[m]) = ListOf(items[n])
                     /\ ListOf(items[m]) \notin odd =>
                          new[m].pos > 0 /\ \A k \in S : new[k].pos = new[m].pos => k = m
    <3>1. ASSUME NEW m \in S
          PROVE  new[m].pos >= 0 /\ ListOf(items[m]) = ListOf(items[n])
      BY <1>2, <1>5 DEF Siblings, ListOf
    <3>2. ASSUME ListOf(items[n]) \notin odd, NEW m \in S
          PROVE  new[m].pos > 0 /\ \A k \in S : new[k].pos = new[m].pos => k = m
      BY <1>2, <1>5, <3>2 DEF Distinct
    <3> QED BY <3>1, <3>2
  <2>4. InOrder(items, odd)
    BY DEF Dialplan
  <2> SUFFICES ASSUME NEW m \in DOMAIN items, items[m].kind \in Ordered
               PROVE  /\ new[m].pos >= 0
                      /\ ListOf(items[m]) \notin odd =>
                           /\ new[m].pos > 0
                           /\ \A k \in Siblings(items, m) : new[k].pos = new[m].pos => k = m
    BY <1>2, <1>5, <2>1 DEF InOrder
  <2>5. CASE m \in S
    BY <2>2, <2>3, <2>5
  <2>6. CASE m \notin S
    BY <2>2, <2>4, <2>6, <1>5 DEF InOrder
  <2> QED BY <2>5, <2>6
<1> QED BY <1>6, <1>7, <1>8 DEF Dialplan, new

(* What is in order but for some lists is in order but for more.           *)
LEMMA MoreOdd ==
  ASSUME NEW items, NEW odd, NEW odd2, odd \subseteq odd2, Dialplan(items, odd)
  PROVE  Dialplan(items, odd2)
BY DEF Dialplan, InOrder

-----------------------------------------------------------------------------
(***************************************************************************)
(* The invariant.                                                          *)
(***************************************************************************)
\* An object is its row; loose: the names of extensions are left out; odd: the
\* lists of which the positions are; whole: no call has cleared anything.
Like(a, b, loose, odd, whole) ==
  /\ a.kind = b.kind /\ a.up = b.up
  /\ ListOf(a) \notin odd => a.pos = b.pos
  /\ ~(a.kind = "extension" /\ loose) => a.name = b.name
  /\ a.kind # "regex" =>
       /\ a.on = b.on
       /\ a.says # b.says => a.kind = "condition" /\ ~whole /\ <<b.says, a.says>> \in Clears

MemoryIs(items) ==
  /\ live = DOMAIN items
  /\ \A n \in live : Like(heap[n], items[n], clashed, strays, noProceed)
  /\ \A n \in live : heap[n].kind # "context" => n \in listed

\* Objects are never lost; what stays in the map of an item that was deleted
\* is below it.
HeapOK ==
  /\ IsTable(heap) /\ Rooted(heap)
  /\ live \subseteq DOMAIN heap /\ listed \subseteq DOMAIN heap
  /\ \A n \in listed : heap[n].kind # "context" /\ (heap[n].up \in live => n \in live)
  /\ \A n \in DOMAIN heap : heap[n].kind \in Named => heap[n].name \in Names

\* The map of contexts is exact; that of the extensions as long as no two had
\* one name; a context's own may also lead to what was renamed or deleted.
NamesOK ==
  /\ contextNames \in [Names -> {Top} \cup (Of("context", heap) \cap live)]
  /\ \A x \in Names, c \in Of("context", heap) \cap live :
       contextNames[x] = c <=> heap[c].name = x
  /\ allNames \in [Names -> {Top} \cup Of("extension", heap)]
  /\ ~clashed => \A x \in Names :
       /\ allNames[x] \in {Top} \cup live
       /\ \A n \in Of("extension", heap) \cap live : allNames[x] = n <=> heap[n].name = x
  /\ ownNames \in [Of("context", heap) -> [Names -> {Top} \cup Of("extension", heap)]]

Text(i) == Written(Line(i))

Masked(i, loose) ==
  IF i.kind = "extension" /\ loose THEN [i EXCEPT !.name = NoName] ELSE i

Fresh(objects, inMaps, xml, loose, c) ==
  LET now == Rendered(objects, inMaps, c)
  IN /\ xml.name = now.name
     /\ {Masked(i, loose) : i \in xml.items} = {Masked(i, loose) : i \in now.items}

ServedOK ==
  noProceed => \A c \in Of("context", heap) \cap live :
                 c \in DOMAIN full /\ Fresh(heap, listed, full[c], clashed, c)

\* The tables are what the statement of the request under way made of items.
Pending(items) ==
  LET n == job.id
  IN \/ job = NoJob /\ disk = items
     \/ /\ job.op = "set" /\ n \in Ids \ DOMAIN heap /\ job.item \in Items
        /\ job.item.kind = "context" => contextNames[job.item.name] = Top
        /\ disk = With(items, n, job.item)
     \/ /\ job.op = "move" /\ n \in live /\ heap[n].kind \in Ordered
        /\ job.to \in Int \ {0}
        /\ \E P \in [Siblings(items, n) -> Nat] :
             /\ disk = Placed(items, P)
             /\ ListOf(heap[n]) \notin strays =>
                  job.to > 0 /\ P = MoveObjects(Place(items, n), n, job.to)
     \/ /\ job.op = "update" /\ n \in live /\ job.says \in Contents
        /\ disk = [items EXCEPT ![n].says = job.says]
     \/ /\ job.op = "switch" /\ n \in live /\ job.on \in BOOLEAN
        /\ disk = IF items[n].kind = "regex" THEN [items EXCEPT ![n].says = job.on]
                                             ELSE [items EXCEPT ![n].on = job.on]
     \/ /\ job.op = "rename" /\ n \in live /\ heap[n].kind \in Named /\ job.name \in Names
        /\ IF heap[n].kind = "context" THEN contextNames[job.name] = Top
                                       ELSE allNames[job.name] = Top
        /\ disk = [items EXCEPT ![n].name = job.name]
     \/ /\ job.op = "delete" /\ n \in live
        /\ disk = Without(items, Under(items, n))

Underway ==
  \/ job.op = "load"
  \/ \E items : IsTable(items) /\ Dialplan(items, strays) /\ MemoryIs(items) /\ Pending(items)

Inv ==
  /\ IsTable(disk) /\ Dialplan(disk, strays)
  /\ HeapOK /\ NamesOK /\ ServedOK
  /\ Underway
  /\ requests \in 0 .. MaxRequests /\ clashed \in BOOLEAN /\ noProceed \in BOOLEAN

-----------------------------------------------------------------------------
(***************************************************************************)
(* The requests.                                                           *)
(***************************************************************************)
LEMMA AskKeeps ==
  ASSUME Inv, Free, NEW items, items = disk, MemoryIs(items), NEW statement, NEW rest, NEW lists,
         Ask(statement, rest, lists), IsTable(statement),
         Dialplan(statement, strays \cup lists), Pending(items)'
  PROVE  Inv'
<1>1. /\ UNCHANGED <<heap, live, listed, contextNames, allNames, ownNames, noProceed, full, clashed>>
      /\ disk' = statement /\ requests' = requests + 1 /\ requests < MaxRequests
      /\ strays' = strays \cup lists
  BY DEF Ask, Free, maps
<1>2. HeapOK' /\ NamesOK' /\ ServedOK'
  BY <1>1 DEF Inv, HeapOK, NamesOK, ServedOK
<1>3. MemoryIs(items)'
  BY <1>1 DEF MemoryIs, Like
<1>4. Dialplan(items, strays')
  BY <1>1, MoreOdd DEF Inv
<1>5. Underway'
  BY <1>3, <1>4 DEF Underway, Inv
<1>6. requests' \in 0 .. MaxRequests
  BY <1>1, LoadedAssumption DEF Inv
<1> QED BY <1>1, <1>2, <1>5, <1>6 DEF Inv

LEMMA RequestKeeps ==
  ASSUME Inv, Free, NEW items, items = disk, MemoryIs(items), NEW statement, NEW rest,
         Request(statement, rest), IsTable(statement), Dialplan(statement, strays), Pending(items)'
  PROVE  Inv'
<1>1. Ask(statement, rest, {}) /\ Dialplan(statement, strays \cup {})
  BY MoreOdd DEF Request
<1> QED BY <1>1, AskKeeps

LEMMA IdleIsInStep ==
  ASSUME Inv, job = NoJob
  PROVE  /\ MemoryIs(disk)
         /\ \A n \in live : /\ n \in DOMAIN disk /\ n \in DOMAIN heap
                            /\ disk[n].kind = heap[n].kind /\ disk[n].up = heap[n].up
                            /\ (ListOf(heap[n]) \notin strays => disk[n].pos = heap[n].pos)
                            /\ heap[n].kind = "context" => disk[n].name = heap[n].name
<1>1. MemoryIs(disk)
  BY DEF Inv, Underway, Pending, NoJob
<1> QED BY <1>1 DEF MemoryIs, Like, Inv, HeapOK

LEMMA NewIdIsNew ==
  ASSUME Inv, NEW n, NewId(n)
  PROVE  n \in Ids \ DOMAIN disk /\ n \in Ids \ DOMAIN heap
<1>1. n \in Ids /\ n \in Nat /\ \A m \in DOMAIN disk \cup DOMAIN heap : m < n
  BY LoadedAssumption DEF NewId, Ids
<1> QED BY <1>1

LEMMA SetContextKeeps ==
  ASSUME Inv, Free, NEW x \in Names, NEW n \in Ids, SetContext(x, n)
  PROVE  Inv'
<1> DEFINE row == Item("context", Top, x, 0, NoName)
<1>1. PICK items : items = disk
  OBVIOUS
<1>2. /\ job = NoJob /\ contextNames[x] = Top
      /\ Request(With(disk, n, row), [op |-> "set", id |-> n, item |-> row])
  BY DEF SetContext, Free
<1>3. /\ row \in Items /\ row.kind = "context" /\ row.up = Top /\ row.name = x
      /\ row.kind \in Named /\ row.kind \notin Ordered
  BY DEF Item, Items, Kinds, Named, Ordered
<1> HIDE DEF row
<1>4. \A m \in Of("context", disk) : disk[m].name # x
  <2>1. \A m \in Of("context", disk) : m \in Of("context", heap) \cap live /\ disk[m].name = heap[m].name
    BY <1>2, IdleIsInStep DEF MemoryIs, Of
  <2>2. \A m \in Of("context", heap) : m # Top
    BY Fields DEF Inv, HeapOK, Of
  <2> QED BY <1>2, <2>1, <2>2 DEF Inv, NamesOK
<1>5. IsTable(With(disk, n, row)) /\ Dialplan(With(disk, n, row), strays)
  <2>1. n \in Ids \ DOMAIN disk
    BY NewIdIsNew DEF SetContext
  <2>2. IsTable(disk) /\ Dialplan(disk, strays)
    BY DEF Inv
  <2> QED BY <2>1, <2>2, <1>3, <1>4, InsertKeeps
<1>6. Pending(items)'
  <2>1. n \in Ids \ DOMAIN heap
    BY NewIdIsNew DEF SetContext
  <2>2. /\ job'.op = "set" /\ job'.id = n /\ job'.item = row
        /\ heap' = heap /\ contextNames' = contextNames /\ disk' = With(items, n, row)
    BY <1>1, <1>2 DEF Request, Ask, maps
  <2> QED BY <1>2, <1>3, <2>1, <2>2 DEF Pending
<1> QED BY <1>1, <1>2, <1>5, <1>6, IdleIsInStep, RequestKeeps

LEMMA SetContextExtensionKeeps ==
  ASSUME Inv, Free, NEW c \in live, NEW x \in Names, NEW says \in Contents, NEW n \in Ids,
         SetContextExtension(c, x, says, n)
  PROVE  Inv'
<1> DEFINE pos == LastPosition("extension", c) + 1
           row == Item("extension", c, x, pos, says)
<1>1. PICK items : items = disk
  OBVIOUS
<1>2. /\ job = NoJob /\ c \in Found("context")
      /\ \A m \in Of("extension", disk) : disk[m].up = c => disk[m].name # x
      /\ Request(With(disk, n, row), [op |-> "set", id |-> n, item |-> row])
  BY DEF SetContextExtension, Free
<1>3. c \in DOMAIN disk /\ disk[c].kind = "context" /\ c \in Ids
  <2>1. c \in DOMAIN disk /\ disk[c].kind = "context"
    BY <1>2, IdleIsInStep DEF Found, Of
  <2> QED BY <2>1 DEF Inv, IsTable
<1>4. /\ LastPosition("extension", c) \in Nat
      /\ \A m \in Of("extension", disk) :
           disk[m].up = c => disk[m].pos <= LastPosition("extension", c)
  BY LastIsLast DEF Inv
<1> HIDE DEF pos
<1>5. /\ pos \in Nat /\ pos > 0
      /\ \A m \in Of("extension", disk) : disk[m].up = c => disk[m].pos # pos
  <2>1. \A m \in Of("extension", disk) : disk[m].pos \in Int
    BY Fields DEF Inv, Of, Items
  <2> QED BY <1>4, <2>1 DEF pos
<1>6. /\ row \in Items /\ row.kind = "extension" /\ row.up = c /\ row.name = x /\ row.pos = pos
      /\ row.kind \in Named /\ row.kind \in Ordered
      /\ Above[row.kind] = "context"
  BY <1>3, <1>5 DEF Item, Items, Kinds, Named, Ordered, Above
<1> HIDE DEF row
<1>7. IsTable(With(disk, n, row)) /\ Dialplan(With(disk, n, row), strays)
  <2>1. n \in Ids \ DOMAIN disk
    BY NewIdIsNew DEF SetContextExtension
  <2>2. IsTable(disk) /\ Dialplan(disk, strays)
    BY DEF Inv
  <2> QED BY <2>1, <2>2, <1>2, <1>3, <1>5, <1>6, InsertKeeps
<1>8. Pending(items)'
  <2>1. n \in Ids \ DOMAIN heap
    BY NewIdIsNew DEF SetContextExtension
  <2>2. /\ job'.op = "set" /\ job'.id = n /\ job'.item = row
        /\ heap' = heap /\ contextNames' = contextNames /\ disk' = With(items, n, row)
    BY <1>1, <1>2 DEF Request, Ask, maps
  <2> QED BY <1>6, <2>1, <2>2 DEF Pending
<1> QED BY <1>1, <1>2, <1>7, <1>8, IdleIsInStep, RequestKeeps

LEMMA SetInnerKeeps ==
  ASSUME Inv, Free, NEW up \in live, NEW kind \in Kinds, NEW says \in Contents, NEW n \in Ids,
         SetInner(kind, up, says, n)
  PROVE  Inv'
<1> DEFINE pos == IF kind \in Ordered THEN LastPosition(kind, up) + 1 ELSE 0
           row == Item(kind, up, NoName, pos, says)
<1>1. PICK items : items = disk
  OBVIOUS
<1>2. /\ job = NoJob /\ kind \in Kinds \ Named /\ up \in Found(Above[kind])
      /\ Request(With(disk, n, row), [op |-> "set", id |-> n, item |-> row])
  BY DEF SetInner, Free
<1>3. up \in DOMAIN disk /\ disk[up].kind = Above[kind] /\ up \in Ids
  <2>1. up \in DOMAIN disk /\ disk[up].kind = Above[kind]
    BY <1>2, IdleIsInStep DEF Found, Of
  <2> QED BY <2>1 DEF Inv, IsTable
<1>4. /\ LastPosition(kind, up) \in Nat
      /\ \A m \in Of(kind, disk) : disk[m].up = up => disk[m].pos <= LastPosition(kind, up)
  BY LastIsLast DEF Inv
<1> HIDE DEF pos
<1>5. /\ pos \in Nat
      /\ kind \in Ordered => /\ pos > 0
                             /\ \A m \in Of(kind, disk) : disk[m].up = up => disk[m].pos # pos
  <2>1. \A m \in Of(kind, disk) : disk[m].pos \in Int
    BY Fields DEF Inv, Of, Items
  <2> QED BY <1>4, <2>1 DEF pos
<1>6. /\ row \in Items /\ row.kind = kind /\ row.up = up /\ row.pos = pos
      /\ row.kind \notin Named /\ row.kind # "context"
  BY <1>2, <1>3, <1>5 DEF Item, Items, Named
<1> HIDE DEF row
<1>7. IsTable(With(disk, n, row)) /\ Dialplan(With(disk, n, row), strays)
  <2>1. n \in Ids \ DOMAIN disk
    BY NewIdIsNew DEF SetInner
  <2>2. IsTable(disk) /\ Dialplan(disk, strays)
    BY DEF Inv
  <2> QED BY <2>1, <2>2, <1>3, <1>5, <1>6, InsertKeeps
<1>8. Pending(items)'
  <2>1. n \in Ids \ DOMAIN heap
    BY NewIdIsNew DEF SetInner
  <2>2. /\ job'.op = "set" /\ job'.id = n /\ job'.item = row
        /\ heap' = heap /\ contextNames' = contextNames /\ disk' = With(items, n, row)
    BY <1>1, <1>2 DEF Request, Ask, maps
  <2> QED BY <1>6, <2>1, <2>2 DEF Pending
<1> QED BY <1>1, <1>2, <1>7, <1>8, IdleIsInStep, RequestKeeps

LEMMA MoveItemKeeps ==
  ASSUME Inv, Free, NEW n \in live, NEW to \in Targets, MoveItem(n, heap[n].pos, to)
  PROVE  Inv'
<1> DEFINE lists == IF to < 0 THEN {ListOf(heap[n])} ELSE {}
           S == Siblings(disk, n)
           P == MoveRows(Place(disk, n), n, heap[n].pos, to)
           moved == Placed(disk, P)
<1>1. PICK items : items = disk
  OBVIOUS
<1>2. /\ job = NoJob /\ heap[n].kind \in Ordered
      /\ Ask(moved, [op |-> "move", id |-> n, to |-> to], lists)
  BY DEF MoveItem, MovedRows, Free, Found, Of
<1>3. to \in Int \ {0}
  BY RequestsAssumption
<1>4. /\ n \in DOMAIN disk /\ n \in DOMAIN heap
      /\ disk[n].kind \in Ordered /\ ListOf(disk[n]) = ListOf(heap[n])
      /\ ListOf(heap[n]) \notin strays => disk[n].pos = heap[n].pos
  BY <1>2, IdleIsInStep DEF ListOf
<1>5. IsTable(disk) /\ Dialplan(disk, strays)
  BY DEF Inv
<1>6. P \in [S -> Nat]
  <2>1. Place(disk, n) \in [S -> Int] /\ n \in S
    BY <1>4, <1>5, PlaceIsDistinct
  <2>2. heap[n].pos \in Int
    BY <1>4, Fields DEF Inv, HeapOK, Items
  <2> QED BY <1>3, <2>1, <2>2, RowsArePositive
<1>7. ASSUME ListOf(heap[n]) \notin strays \cup lists
      PROVE  /\ to \in Nat \ {0} /\ P = MoveObjects(Place(disk, n), n, to)
             /\ P \in [S -> Nat \ {0}] /\ Distinct(P)
  <2>1. to \in Nat \ {0}
    BY <1>3, <1>7
  <2>2. Place(disk, n) \in [S -> Nat \ {0}] /\ Distinct(Place(disk, n)) /\ n \in S
    BY <1>4, <1>5, <1>7, PlaceIsDistinct
  <2>3. Place(disk, n)[n] = heap[n].pos
    BY <1>4, <1>7, <2>2 DEF Place
  <2> HIDE DEF S
  <2>4. P = MoveObjects(Place(disk, n), n, to)
    BY <2>1, <2>2, <2>3, MovesAgree
  <2> QED BY <2>1, <2>2, <2>4, MoveKeepsApart
<1> HIDE DEF P, lists
<1>8. IsTable(moved) /\ Dialplan(moved, strays \cup lists)
  <2>1. Dialplan(disk, strays \cup lists)
    BY <1>5, MoreOdd
  <2> QED BY <1>4, <1>5, <1>6, <1>7, <2>1, PlacedKeeps
<1> HIDE DEF moved
<1>9. Pending(items)'
  <2>1. /\ job'.op = "move" /\ job'.id = n /\ job'.to = to
        /\ heap' = heap /\ live' = live /\ disk' = moved /\ strays' = strays \cup lists
    BY <1>2 DEF Ask, maps
  <2>2. ListOf(heap[n]) \notin strays \cup lists =>
          to > 0 /\ P = MoveObjects(Place(items, n), n, to)
    BY <1>1, <1>7
  <2> QED BY <1>1, <1>2, <1>3, <1>6, <2>1, <2>2 DEF Pending, moved
<1> QED BY <1>1, <1>2, <1>8, <1>9, IdleIsInStep, AskKeeps

LEMMA DeleteItemKeeps ==
  ASSUME Inv, Free, NEW n \in live, DeleteItem(n)
  PROVE  Inv'
<1> DEFINE left == Without(disk, Under(disk, n))
<1>1. PICK items : items = disk
  OBVIOUS
<1>2. job = NoJob /\ Request(left, [op |-> "delete", id |-> n])
  BY DEF DeleteItem, Free
<1>3. IsTable(left) /\ Dialplan(left, strays)
  BY <1>2, IdleIsInStep, DeleteKeeps DEF Inv
<1> HIDE DEF left
<1>4. Pending(items)'
  <2>1. job'.op = "delete" /\ job'.id = n /\ live' = live /\ disk' = left
    BY <1>2 DEF Request, Ask, maps
  <2> QED BY <1>1, <2>1 DEF Pending, left
<1> QED BY <1>1, <1>2, <1>3, <1>4, IdleIsInStep, RequestKeeps

LEMMA UpdateItemKeeps ==
  ASSUME Inv, Free, NEW n \in live, NEW says \in Contents, UpdateItem(n, says)
  PROVE  Inv'
<1> DEFINE new == [disk EXCEPT ![n].says = says]
<1>1. PICK items : items = disk
  OBVIOUS
<1>2. job = NoJob /\ Request(new, [op |-> "update", id |-> n, says |-> says])
  BY DEF UpdateItem, Free
<1>3. IsTable(new) /\ Dialplan(new, strays)
  BY <1>2, IdleIsInStep, UpdateKeeps DEF Inv
<1> HIDE DEF new
<1>4. Pending(items)'
  <2>1. job'.op = "update" /\ job'.id = n /\ job'.says = says /\ live' = live /\ disk' = new
    BY <1>2 DEF Request, Ask, maps
  <2> QED BY <1>1, <2>1 DEF Pending, new
<1> QED BY <1>1, <1>2, <1>3, <1>4, IdleIsInStep, RequestKeeps

LEMMA SwitchItemKeeps ==
  ASSUME Inv, Free, NEW n \in live, NEW on \in BOOLEAN, SwitchItem(n, on)
  PROVE  Inv'
<1> DEFINE new == IF disk[n].kind = "regex" THEN [disk EXCEPT ![n].says = on]
                                            ELSE [disk EXCEPT ![n].on = on]
<1>1. PICK items : items = disk
  OBVIOUS
<1>2. job = NoJob
  BY DEF SwitchItem, Free
<1>3. n \in DOMAIN disk /\ disk[n].kind = heap[n].kind
  BY <1>2, IdleIsInStep
<1>4. Request(new, [op |-> "switch", id |-> n, on |-> on])
  BY <1>3 DEF SwitchItem
<1>5. IsTable(new) /\ Dialplan(new, strays)
  BY <1>3, UpdateKeeps DEF Inv
<1> HIDE DEF new
<1>6. Pending(items)'
  <2>1. job'.op = "switch" /\ job'.id = n /\ job'.on = on /\ live' = live /\ disk' = new
    BY <1>4 DEF Request, Ask, maps
  <2> QED BY <1>1, <2>1 DEF Pending, new
<1> QED BY <1>1, <1>2, <1>4, <1>5, <1>6, IdleIsInStep, RequestKeeps

LEMMA RenameItemKeeps ==
  ASSUME Inv, Free, NEW n \in live, NEW x \in Names, RenameContext(n, x) \/ RenameExtension(n, x)
  PROVE  Inv'
<1> DEFINE new == [disk EXCEPT ![n].name = x]
<1>1. PICK items : items = disk
  OBVIOUS
<1>2. job = NoJob /\ Request(new, [op |-> "rename", id |-> n, name |-> x])
  BY DEF RenameContext, RenameExtension, Free
<1>3. /\ heap[n].kind \in Named
      /\ IF heap[n].kind = "context" THEN contextNames[x] = Top ELSE allNames[x] = Top
  BY DEF RenameContext, RenameExtension, Found, Of, Named
<1>4. n \in DOMAIN disk /\ disk[n].kind = heap[n].kind /\ disk[n].up = heap[n].up
  BY <1>2, IdleIsInStep
<1>5. \A m \in Siblings(disk, n) : disk[m].name = x => m = n
  <2>1. CASE heap[n].kind = "context"
    <3>1. \A m \in Of("context", disk) : /\ m \in Of("context", heap) \cap live
                                         /\ disk[m].name = heap[m].name
      BY <1>2, IdleIsInStep DEF MemoryIs, Of
    <3>2. \A m \in Of("context", heap) : m # Top
      BY Fields DEF Inv, HeapOK, Of
    <3>3. \A m \in Of("context", disk) : disk[m].name # x
      BY <1>3, <2>1, <3>1, <3>2 DEF Inv, NamesOK
    <3> QED BY <1>4, <2>1, <3>3 DEF Siblings, Of
  <2>2. CASE heap[n].kind = "extension"
    <3>1. \A m \in Of("extension", disk) : disk[m].up = heap[n].up /\ disk[m].name = x => m = n
      BY <2>2 DEF RenameContext, RenameExtension, Found, Of
    <3> QED BY <1>4, <2>2, <3>1 DEF Siblings, Of
  <2> QED BY <1>3, <2>1, <2>2 DEF Named
<1>6. IsTable(new) /\ Dialplan(new, strays)
  BY <1>4, <1>5, RenameKeeps DEF Inv
<1> HIDE DEF new
<1>7. Pending(items)'
  <2>1. /\ job'.op = "rename" /\ job'.id = n /\ job'.name = x /\ live' = live /\ disk' = new
        /\ heap' = heap /\ contextNames' = contextNames /\ allNames' = allNames
    BY <1>2 DEF Request, Ask, maps
  <2> QED BY <1>1, <1>3, <2>1 DEF Pending, new
<1> QED BY <1>1, <1>2, <1>6, <1>7, IdleIsInStep, RequestKeeps

LEMMA AdministerKeeps ==
  ASSUME Inv, Administer
  PROVE  Inv'
<1>0. Free
  BY DEF Administer
<1>1. ASSUME NEW x \in Names, NEW n \in Ids, SetContext(x, n) PROVE Inv'
  BY <1>0, <1>1, SetContextKeeps
<1>2. ASSUME NEW c \in live, NEW x \in Names, NEW says \in Contents, NEW n \in Ids,
             SetContextExtension(c, x, says, n) PROVE Inv'
  BY <1>0, <1>2, SetContextExtensionKeeps
<1>3. ASSUME NEW up \in live, NEW kind \in Kinds, NEW says \in Contents, NEW n \in Ids,
             SetInner(kind, up, says, n) PROVE Inv'
  BY <1>0, <1>3, SetInnerKeeps
<1>4. ASSUME NEW n \in live, NEW to \in Targets, MoveItem(n, heap[n].pos, to) PROVE Inv'
  BY <1>0, <1>4, MoveItemKeeps
<1>5. ASSUME NEW n \in live, DeleteItem(n) PROVE Inv'
  BY <1>0, <1>5, DeleteItemKeeps
<1>6. ASSUME NEW n \in live, NEW says \in Contents, UpdateItem(n, says) PROVE Inv'
  BY <1>0, <1>6, UpdateItemKeeps
<1>7. ASSUME NEW n \in live, NEW on \in BOOLEAN, SwitchItem(n, on) PROVE Inv'
  BY <1>0, <1>7, SwitchItemKeeps
<1>8. ASSUME NEW n \in live, NEW x \in Names, RenameContext(n, x) \/ RenameExtension(n, x)
      PROVE Inv'
  BY <1>0, <1>8, RenameItemKeeps
<1> QED BY <1>1, <1>2, <1>3, <1>4, <1>5, <1>6, <1>7, <1>8 DEF Administer

-----------------------------------------------------------------------------
(***************************************************************************)
(* Reading the tables.                                                     *)
(***************************************************************************)
\* Contexts are never shown: it does not matter whether they are in a map.
LEMMA ContextsAreNotShown ==
  ASSUME NEW items, IsTable(items), Rooted(items), NEW c \in Of("context", items)
  PROVE  Shown(items, DOMAIN items, c) = Shown(items, DOMAIN items \ Of("context", items), c)
<1> DEFINE L == DOMAIN items \ Of("context", items)
           A == Shown(items, DOMAIN items, c)
           B == Shown(items, L, c)
<1>1. A \in SUBSET DOMAIN items /\ B \in SUBSET DOMAIN items /\ c \in DOMAIN items
  BY DEF Shown, Of
<1>2. \A m \in DOMAIN items :
        m \in A <=> items[m].on /\ (items[m].up = c \/ items[m].up \in A)
  BY ShownStep
<1>3. \A m \in DOMAIN items :
        m \in B <=> m \in L /\ items[m].on /\ (items[m].up = c \/ items[m].up \in B)
  BY ShownStep
<1> HIDE DEF A, B
<1>4. \A m \in DOMAIN items :
        (items[m].kind # "context" => (items[m].up \in A <=> items[m].up \in B))
          => (m \in A <=> m \in B)
  <2> SUFFICES ASSUME NEW m \in DOMAIN items,
                      items[m].kind # "context" => (items[m].up \in A <=> items[m].up \in B)
               PROVE  m \in A <=> m \in B
    OBVIOUS
  <2>1. CASE items[m].kind = "context"
    <3>1. items[m].up \notin DOMAIN items
      BY <2>1, Parents
    <3> QED BY <3>1, <1>1, <1>2, <1>3
  <2>2. CASE items[m].kind # "context"
    BY <2>2, <1>2, <1>3 DEF Of
  <2> QED BY <2>1, <2>2
<1>5. A = B
  BY <1>1, <1>4, SameFromTheTop
<1> QED BY <1>5 DEF A, B

\* A map that was read leads from a name to the item that has it, if only
\* one has it.
LEMMA ReadIsExact ==
  ASSUME NEW items, NEW ids \in SUBSET DOMAIN items, Top \notin ids,
         NEW names, InMap(names, Restrict(items, ids)),
         \A m, n \in ids : items[m].name = items[n].name => m = n
  PROVE  \A x \in Names : /\ names[x] \in {Top} \cup ids
                          /\ \A n \in ids : names[x] = n <=> items[n].name = x
<1> DEFINE R == Restrict(items, ids)
<1>1. DOMAIN R = ids /\ \A n \in ids : R[n] = items[n]
  BY DEF Restrict
<1> HIDE DEF R
<1> TAKE x \in Names
<1> DEFINE called == {n \in DOMAIN R : R[n].name = x}
<1>2. IF called = {} THEN names[x] = Top ELSE names[x] \in called
  BY DEF InMap, R
<1> QED BY <1>1, <1>2

LEMMA LoadKeeps ==
  ASSUME IsTable(disk), Dialplan(disk, strays), InitDialplanCache(disk), job' = NoJob,
         clashed' \in BOOLEAN, Clash(disk) => clashed',
         noProceed \in BOOLEAN, requests \in 0 .. MaxRequests,
         UNCHANGED <<disk, noProceed, requests, strays>>
  PROVE  Inv'
<1> DEFINE C == Of("context", disk)
           E == Of("extension", disk)
<1>1. /\ heap' = disk /\ live' = DOMAIN disk /\ listed' = DOMAIN disk \ C
      /\ contextNames' \in [Names -> {Top} \cup C] /\ InMap(contextNames', Restrict(disk, C))
      /\ allNames' \in [Names -> {Top} \cup E] /\ InMap(allNames', Restrict(disk, E))
      /\ ownNames' = [c \in C |->
           [x \in Names |-> LET called == {n \in E : disk[n].up = c /\ disk[n].name = x}
                            IN IF called = {} THEN Top ELSE CHOOSE n \in called : TRUE]]
      /\ noProceed => full' = [c \in C |-> Rendered(disk, DOMAIN disk, c)]
  BY DEF InitDialplanCache
<1>2. C \subseteq DOMAIN disk /\ E \subseteq DOMAIN disk /\ Top \notin DOMAIN disk
  BY Fields DEF Of
<1>3. HeapOK'
  <2>1. \A n \in DOMAIN disk : disk[n].kind \in Named => disk[n].name \in Names
    BY DEF Dialplan, Called
  <2> QED BY <1>1, <2>1 DEF HeapOK, Dialplan, Of
<1>4. NamesOK'
  <2>1. \A m, n \in C : disk[m].name = disk[n].name => m = n
    <3>1. \A m, n \in C : m \in Siblings(disk, n)
      BY DEF Dialplan, Rooted, Siblings, Of
    <3> QED BY <3>1 DEF Dialplan, Called, Of, Named
  <2>2. \A x \in Names : /\ contextNames'[x] \in {Top} \cup C
                         /\ \A n \in C : contextNames'[x] = n <=> disk[n].name = x
    BY <1>1, <1>2, <2>1, ReadIsExact
  <2>3. ~clashed' => \A x \in Names :
          /\ allNames'[x] \in {Top} \cup E
          /\ \A n \in E : allNames'[x] = n <=> disk[n].name = x
    <3> SUFFICES ASSUME ~clashed' PROVE \A x \in Names :
          /\ allNames'[x] \in {Top} \cup E
          /\ \A n \in E : allNames'[x] = n <=> disk[n].name = x
      OBVIOUS
    <3>1. \A m, n \in E : disk[m].name = disk[n].name => m = n
      BY DEF Clash
    <3> QED BY <1>1, <1>2, <3>1, ReadIsExact
  <2>4. ownNames' \in [C -> [Names -> {Top} \cup E]]
    <3>1. ASSUME NEW c \in C, NEW x \in Names PROVE ownNames'[c][x] \in {Top} \cup E
      <4> DEFINE called == {n \in E : disk[n].up = c /\ disk[n].name = x}
      <4>1. ownNames'[c][x] = IF called = {} THEN Top ELSE CHOOSE n \in called : TRUE
        BY <1>1
      <4> QED BY <4>1
    <3>2. /\ DOMAIN ownNames' = C /\ ownNames' = [c \in C |-> ownNames'[c]]
          /\ \A c \in C : ownNames'[c] = [x \in Names |-> ownNames'[c][x]]
      BY <1>1
    <3> QED BY <3>1, <3>2
  <2>5. C \cap DOMAIN disk = C /\ E \cap DOMAIN disk = E
    BY <1>2
  <2>6. /\ Of("context", heap)' = C /\ Of("extension", heap)' = E
    BY <1>1 DEF Of
  <2> QED BY <1>1, <1>2, <2>2, <2>3, <2>4, <2>5, <2>6 DEF NamesOK
<1>5. ServedOK'
  <2> SUFFICES ASSUME noProceed, NEW c \in C
               PROVE  c \in DOMAIN full' /\ Fresh(disk, listed', full'[c], clashed', c)
    BY <1>1 DEF ServedOK, Of
  <2>1. c \in DOMAIN full' /\ full'[c] = Rendered(disk, DOMAIN disk, c)
    BY <1>1
  <2>2. Shown(disk, DOMAIN disk, c) = Shown(disk, listed', c)
    BY <1>1, ContextsAreNotShown DEF Dialplan
  <2>3. full'[c] = Rendered(disk, listed', c)
    BY <2>1, <2>2 DEF Rendered
  <2> QED BY <2>1, <2>3 DEF Fresh
<1>6. MemoryIs(disk)'
  BY <1>1 DEF MemoryIs, Like, Of
<1>7. Underway'
  BY <1>6 DEF Underway, Pending, NoJob
<1> QED BY <1>3, <1>4, <1>5, <1>7 DEF Inv

LEMMA StartKeeps ==
  ASSUME Inv, Start
  PROVE  Inv'
<1>1. /\ InitDialplanCache(disk) /\ job' = NoJob /\ clashed' = Clash(disk)
      /\ UNCHANGED <<disk, noProceed, requests, strays>>
  BY DEF Start
<1>2. Clash(disk) \in BOOLEAN
  BY DEF Clash
<1> QED BY <1>1, <1>2, LoadKeeps DEF Inv

LEMMA RestartKeeps ==
  ASSUME Inv, Restart
  PROVE  Inv'
<1>1. /\ InitDialplanCache(disk) /\ job' = NoJob /\ clashed' = (clashed \/ Clash(disk))
      /\ UNCHANGED <<disk, noProceed, requests, strays>>
  BY DEF Restart
<1> QED BY <1>1, LoadKeeps DEF Inv

-----------------------------------------------------------------------------
(***************************************************************************)
(* What is left to be done in memory: lemmas about the objects.            *)
(***************************************************************************)
LEMMA SameShape ==
  ASSUME NEW h1, IsTable(h1), Rooted(h1), NEW h2,
         DOMAIN h2 = DOMAIN h1, h2 = [m \in DOMAIN h1 |-> h2[m]],
         \A m \in DOMAIN h1 : /\ h2[m] \in Items
                              /\ h2[m].kind = h1[m].kind /\ h2[m].up = h1[m].up
  PROVE  IsTable(h2) /\ Rooted(h2)
<1>1. IsTable(h2)
  BY DEF IsTable
<1>2. Rooted(h2)
  BY DEF Rooted
<1> QED BY <1>1, <1>2

LEMMA SameContextOf ==
  ASSUME NEW h1, IsTable(h1), Rooted(h1), NEW h2,
         \A m \in DOMAIN h1 : h2[m].kind = h1[m].kind /\ h2[m].up = h1[m].up,
         NEW m \in DOMAIN h1
  PROVE  ContextOf(h2, m) = ContextOf(h1, m)
<1>1. CASE h1[m].kind = "context"
  BY <1>1 DEF ContextOf
<1>2. CASE h1[m].kind = "extension"
  BY <1>2 DEF ContextOf
<1>3. CASE h1[m].kind = "condition"
  BY <1>3, Parents DEF ContextOf
<1>4. CASE h1[m].kind \in {"regex", "action", "antiaction"}
  <2>1. /\ h1[m].up \in DOMAIN h1 /\ h1[h1[m].up].kind = "condition"
    BY <1>4, Parents
  <2>2. h1[h1[m].up].up \in DOMAIN h1
    BY <2>1, Parents
  <2> QED BY <1>4, <2>1, <2>2 DEF ContextOf
<1> QED BY <1>1, <1>2, <1>3, <1>4, Fields DEF Kinds

(* A context in which nothing is enabled, disabled, added or taken out of  *)
(* a map shows the same items.                                             *)
LEMMA ShownStays ==
  ASSUME NEW h1, IsTable(h1), Rooted(h1), NEW L1 \in SUBSET DOMAIN h1,
         NEW h2, IsTable(h2), Rooted(h2), NEW L2 \in SUBSET DOMAIN h2,
         DOMAIN h1 \subseteq DOMAIN h2, NEW c \in Of("context", h1),
         \A m \in DOMAIN h1 : h2[m].kind = h1[m].kind /\ h2[m].up = h1[m].up,
         \A m \in DOMAIN h1 : ContextOf(h1, m) = c =>
           h2[m].on = h1[m].on /\ (m \in L1 <=> m \in L2),
         \A m \in DOMAIN h2 \ DOMAIN h1 : ContextOf(h2, m) # c
  PROVE  Shown(h1, L1, c) = Shown(h2, L2, c)
<1> DEFINE A == Shown(h1, L1, c)
           B == Shown(h2, L2, c)
<1>1. c \in DOMAIN h1 /\ c \in Of("context", h2)
  BY DEF Of
<1>2. /\ \A m \in DOMAIN h1 :
           m \in A <=> m \in L1 /\ h1[m].on /\ (h1[m].up = c \/ h1[m].up \in A)
      /\ \A m \in DOMAIN h2 :
           m \in B <=> m \in L2 /\ h2[m].on /\ (h2[m].up = c \/ h2[m].up \in B)
  BY <1>1, ShownStep
<1>3. \A m \in A : m \in DOMAIN h1 /\ ContextOf(h1, m) = c
  BY ShownIsOfContext
<1>4. \A m \in B : m \in DOMAIN h2 /\ ContextOf(h2, m) = c
  BY <1>1, ShownIsOfContext
<1>5. A \in SUBSET DOMAIN h1 /\ B \in SUBSET DOMAIN h1
  BY <1>3, <1>4
<1>6. \A m \in DOMAIN h1 : ContextOf(h2, m) = ContextOf(h1, m)
  BY SameContextOf
<1> HIDE DEF A, B
<1>7. \A m \in DOMAIN h1 :
        (h1[m].kind # "context" => (h1[m].up \in A <=> h1[m].up \in B)) => (m \in A <=> m \in B)
  <2> SUFFICES ASSUME NEW m \in DOMAIN h1,
                      h1[m].kind # "context" => (h1[m].up \in A <=> h1[m].up \in B)
               PROVE  m \in A <=> m \in B
    OBVIOUS
  <2>1. CASE ContextOf(h1, m) # c
    BY <2>1, <1>3, <1>4, <1>6
  <2>2. CASE ContextOf(h1, m) = c
    <3>1. h1[m].kind = "context" => h1[m].up \notin A /\ h1[m].up \notin B
      BY <1>5, Parents
    <3>2. m \in DOMAIN h2 /\ h2[m].up = h1[m].up /\ h2[m].on = h1[m].on /\ (m \in L1 <=> m \in L2)
      BY <2>2
    <3> QED BY <3>1, <3>2, <1>2
  <2> QED BY <2>1, <2>2
<1>8. A = B
  BY <1>5, <1>7, SameFromTheTop
<1> QED BY <1>8 DEF A, B

LEMMA LinesAlike ==
  ASSUME NEW a \in Items, NEW b \in Items, NEW loose \in BOOLEAN,
         a.kind = b.kind, a.up = b.up, a.pos = b.pos, a.says = b.says,
         a.name = b.name \/ (a.kind = "extension" /\ loose)
  PROVE  Masked(Text(a), loose) = Masked(Text(b), loose)
<1>1. CASE a.name = b.name
  BY <1>1 DEF Text, Line
<1>2. CASE a.kind = "extension" /\ loose
  BY <1>2 DEF Text, Line, Written, Masked
<1> QED BY <1>1, <1>2

(* XML that was current is still, if its context shows the same lines; the *)
(* names of extensions may have begun not to count.                        *)
LEMMA FreshStays ==
  ASSUME NEW h1, NEW L1, NEW h2, NEW L2, NEW c, NEW xml,
         NEW l1 \in BOOLEAN, NEW l2 \in BOOLEAN, l1 => l2,
         Shown(h1, L1, c) = Shown(h2, L2, c), h1[c].name = h2[c].name,
         \A m \in Shown(h1, L1, c) : Masked(Text(h1[m]), l2) = Masked(Text(h2[m]), l2),
         Fresh(h1, L1, xml, l1, c)
  PROVE  Fresh(h2, L2, xml, l2, c)
<1> DEFINE S == Shown(h1, L1, c)
           Y1 == {Text(h1[m]) : m \in S}
           Y2 == {Text(h2[m]) : m \in S}
<1>1. /\ Rendered(h1, L1, c).items = Y1 /\ Rendered(h2, L2, c).items = Y2
      /\ Rendered(h1, L1, c).name = h1[c].name /\ Rendered(h2, L2, c).name = h2[c].name
  BY DEF Rendered, Text
<1> DEFINE X == xml.items
<1>2. xml.name = h1[c].name /\ {Masked(i, l1) : i \in X} = {Masked(i, l1) : i \in Y1}
  BY <1>1 DEF Fresh
<1>3. {Masked(i, l2) : i \in X} = {Masked(i, l2) : i \in Y1}
  <2>1. CASE l1 = l2
    BY <2>1, <1>2
  <2>2. CASE ~l1
    <3>1. \A i : Masked(i, l1) = i
      BY <2>2 DEF Masked
    <3>2. X = Y1
      BY <3>1, <1>2
    <3> QED BY <3>2
  <2> QED BY <2>1, <2>2
<1>4. {Masked(i, l2) : i \in Y1} = {Masked(i, l2) : i \in Y2}
  <2>1. /\ {Masked(i, l2) : i \in Y1} = {Masked(Text(h1[m]), l2) : m \in S}
        /\ {Masked(i, l2) : i \in Y2} = {Masked(Text(h2[m]), l2) : m \in S}
    OBVIOUS
  <2> QED BY <2>1
<1> QED BY <1>1, <1>2, <1>3, <1>4 DEF Fresh

(* The context of what was changed is rendered again, unless it is gone;   *)
(* the others show what they did.                                          *)
LEMMA ServedKeeps ==
  ASSUME Inv, NEW c0, NEW h, heap' = h, IsTable(h), Rooted(h), HeapOK',
         clashed' \in BOOLEAN, clashed => clashed', noProceed' = noProceed,
         DOMAIN heap \subseteq DOMAIN h,
         \A m \in DOMAIN heap : h[m].kind = heap[m].kind /\ h[m].up = heap[m].up,
         \A m \in DOMAIN h \ DOMAIN heap : ContextOf(h, m) = c0,
         Of("context", h) \cap live' \subseteq (Of("context", heap) \cap live) \cup {c0},
         \A c \in Of("context", heap) \cap live' : c # c0 => h[c].name = heap[c].name,
         \A m \in DOMAIN heap : ContextOf(heap, m) \in live' \ {c0} =>
           /\ h[m].on = heap[m].on /\ (m \in listed <=> m \in listed')
           /\ m \in listed => Masked(Text(h[m]), clashed') = Masked(Text(heap[m]), clashed'),
         noProceed => \/ full' = With(full, c0, Rendered(h, listed', c0))
                      \/ full' = full /\ c0 \notin live'
  PROVE  ServedOK'
<1> SUFFICES ASSUME noProceed, NEW c \in Of("context", h) \cap live'
             PROVE  c \in DOMAIN full' /\ Fresh(h, listed', full'[c], clashed', c)
  BY DEF ServedOK
<1>1. CASE c = c0
  <2>1. full' = With(full, c, Rendered(h, listed', c))
    BY <1>1
  <2>2. c \in DOMAIN full' /\ full'[c] = Rendered(h, listed', c)
    BY <2>1 DEF With
  <2> QED BY <2>2 DEF Fresh
<1>2. CASE c # c0
  <2>1. c \in Of("context", heap) \cap live /\ c \in DOMAIN full /\ Fresh(heap, listed, full[c], clashed, c)
    BY <1>2 DEF Inv, ServedOK
  <2>2. c \in DOMAIN full' /\ full'[c] = full[c]
    BY <1>2, <2>1 DEF With
  <2>3. listed \in SUBSET DOMAIN heap /\ listed' \in SUBSET DOMAIN h /\ IsTable(heap) /\ Rooted(heap)
    BY DEF Inv, HeapOK
  <2>4. Shown(heap, listed, c) = Shown(h, listed', c)
    <3>1. \A m \in DOMAIN heap : ContextOf(heap, m) = c =>
            h[m].on = heap[m].on /\ (m \in listed <=> m \in listed')
      BY <1>2
    <3>2. \A m \in DOMAIN h \ DOMAIN heap : ContextOf(h, m) # c
      BY <1>2
    <3> QED BY <2>1, <2>3, <3>1, <3>2, ShownStays
  <2>5. \A m \in Shown(heap, listed, c) : m \in listed /\ ContextOf(heap, m) = c
    BY <2>1, <2>3, ShownIsOfContext
  <2>6. \A m \in Shown(heap, listed, c) : Masked(Text(heap[m]), clashed') = Masked(Text(h[m]), clashed')
    BY <1>2, <2>3, <2>5
  <2>7. h[c].name = heap[c].name
    BY <1>2, <2>1
  <2> QED BY <2>1, <2>2, <2>4, <2>6, <2>7, FreshStays DEF Inv
<1> QED BY <1>1, <1>2

(* A change of the objects that leaves kinds, places and names.            *)
LEMMA ObjectsChange ==
  ASSUME HeapOK, NamesOK, NEW h, heap' = h, DOMAIN h = DOMAIN heap,
         h = [m \in DOMAIN heap |-> h[m]],
         \A m \in DOMAIN heap :
           /\ h[m] \in Items /\ h[m].kind = heap[m].kind /\ h[m].up = heap[m].up
           /\ h[m].name = heap[m].name,
         UNCHANGED maps, clashed => clashed'
  PROVE  HeapOK' /\ NamesOK'
<1>1. UNCHANGED <<live, listed, contextNames, allNames, ownNames>>
  BY DEF maps
<1>2. IsTable(h) /\ Rooted(h)
  BY SameShape DEF HeapOK
<1>3. HeapOK'
  BY <1>1, <1>2 DEF HeapOK
<1>4. Of("context", h) = Of("context", heap) /\ Of("extension", h) = Of("extension", heap)
  BY DEF Of
<1>5. /\ \A n \in Of("context", heap) : h[n].name = heap[n].name
      /\ \A n \in Of("extension", heap) : h[n].name = heap[n].name
  BY DEF Of
<1>6. NamesOK'
  BY <1>1, <1>4, <1>5 DEF NamesOK
<1> QED BY <1>3, <1>6

LEMMA ApplyCloses ==
  ASSUME Inv, Apply, HeapOK', NamesOK', ServedOK', MemoryIs(disk)'
  PROVE  Inv'
<1>1. /\ job' = NoJob /\ clashed' = (clashed \/ Clash(Restrict(heap', live')))
      /\ UNCHANGED <<disk, noProceed, requests, strays>>
  BY DEF Apply
<1>2. clashed' \in BOOLEAN
  BY <1>1 DEF Inv, Clash
<1>3. Underway'
  BY <1>1 DEF Inv, Underway, Pending, NoJob
<1> QED BY <1>1, <1>2, <1>3 DEF Inv

LEMMA ApplyFacts ==
  ASSUME Inv, Apply
  PROVE  /\ clashed \in BOOLEAN /\ clashed' \in BOOLEAN /\ (clashed => clashed')
         /\ Clash(Restrict(heap', live')) => clashed'
         /\ noProceed' = noProceed /\ disk' = disk /\ strays' = strays
         /\ IsTable(heap) /\ Rooted(heap)
         /\ \A m \in DOMAIN heap : heap[m] \in Items /\ m # Top
         /\ job.op # "load" /\ job # NoJob
<1>1. /\ job' = NoJob /\ clashed' = (clashed \/ Clash(Restrict(heap', live')))
      /\ UNCHANGED <<disk, noProceed, requests, strays>>
  BY DEF Apply
<1>2. clashed' \in BOOLEAN /\ clashed \in BOOLEAN
  BY <1>1 DEF Inv, Clash
<1>3. IsTable(heap) /\ Rooted(heap)
  BY DEF Inv, HeapOK
<1>4. \A m \in DOMAIN heap : heap[m] \in Items /\ m # Top
  BY <1>3, Fields
<1>5. job.op # "load" /\ job # NoJob
  <2>1. job.op \in {"set", "move", "update", "switch", "rename", "delete"}
    BY DEF Apply, ApplySet, ApplyMove, ApplyUpdate, ApplyRename, ApplyDelete
  <2>2. NoJob.op = "none"
    BY DEF NoJob
  <2> QED BY <2>1, <2>2
<1> QED BY <1>1, <1>2, <1>3, <1>4, <1>5

\* What two tables agree on when a request is under way.
LEMMA InStep ==
  ASSUME Inv, NEW items, IsTable(items), Dialplan(items, strays), MemoryIs(items)
  PROVE  /\ live = DOMAIN items /\ live \subseteq DOMAIN heap
         /\ \A n \in live : /\ heap[n].kind = items[n].kind /\ heap[n].up = items[n].up
                            /\ ListOf(heap[n]) \notin strays => heap[n].pos = items[n].pos
                            /\ heap[n].kind \in Kinds
                            /\ heap[n].kind # "context" => heap[n].up \in live /\ n \in listed
<1>1. \A n \in DOMAIN items : items[n].kind # "context" => items[n].up \in DOMAIN items
  BY DEF Dialplan, Rooted
<1>2. \A n \in DOMAIN items : items[n].kind \in Kinds
  BY Fields
<1>3. live = DOMAIN items /\ live \subseteq DOMAIN heap
  BY DEF MemoryIs, Inv, HeapOK
<1>4. \A n \in live : /\ Like(heap[n], items[n], clashed, strays, noProceed)
                      /\ heap[n].kind # "context" => n \in listed
  BY DEF MemoryIs
<1>5. \A n \in live : /\ heap[n].kind = items[n].kind /\ heap[n].up = items[n].up
                      /\ ListOf(heap[n]) \notin strays => heap[n].pos = items[n].pos
  <2> TAKE n \in live
  <2>1. Like(heap[n], items[n], clashed, strays, noProceed)
    BY <1>4
  <2> QED BY <2>1 DEF Like
<1>6. ASSUME NEW n \in live
      PROVE  /\ heap[n].kind \in Kinds
             /\ heap[n].kind # "context" => heap[n].up \in live /\ n \in listed
  <2>1. heap[n].kind = items[n].kind /\ heap[n].up = items[n].up /\ n \in DOMAIN items
    BY <1>3, <1>5
  <2> QED BY <1>1, <1>2, <1>3, <1>4, <2>1
<1> QED BY <1>3, <1>5, <1>6

(* The context of an item that is served is served.                        *)
LEMMA ContextIsLive ==
  ASSUME Inv, NEW items, IsTable(items), Dialplan(items, strays), MemoryIs(items), NEW n \in live
  PROVE  ContextOf(heap, n) \in Of("context", heap) \cap live
<1>1. \A m \in DOMAIN items : heap[m].kind = items[m].kind /\ heap[m].up = items[m].up
  BY InStep
<1>2. n \in DOMAIN items /\ Rooted(items)
  BY InStep DEF Dialplan
<1>3. ContextOf(heap, n) = ContextOf(items, n)
  BY <1>1, <1>2, SameContextOf
<1>4. ContextOf(items, n) \in Of("context", items)
  BY <1>2, ContextIsThere
<1> QED BY <1>1, <1>3, <1>4, InStep DEF Of

-----------------------------------------------------------------------------
(***************************************************************************)
(* What is left to be done in memory: one lemma for each request.          *)
(***************************************************************************)
LEMMA ApplyUpdateKeeps ==
  ASSUME Inv, Apply, ApplyUpdate
  PROVE  Inv'
<1> DEFINE n == job.id
           h == IF job.op = "update" THEN [heap EXCEPT ![n].says = job.says]
                                     ELSE [heap EXCEPT ![n].on = job.on]
<1>1. /\ job.op \in {"update", "switch"} /\ heap' = h /\ UNCHANGED maps
      /\ CacheFullXML(ContextOf(heap, n))
  BY DEF ApplyUpdate
<1>2. PICK items : IsTable(items) /\ Dialplan(items, strays) /\ MemoryIs(items) /\ Pending(items)
  BY ApplyFacts DEF Inv, Underway
<1>3. /\ n \in live
      /\ job.op = "update" => job.says \in Contents /\ disk = [items EXCEPT ![n].says = job.says]
      /\ job.op = "switch" =>
           /\ job.on \in BOOLEAN
           /\ disk = IF items[n].kind = "regex" THEN [items EXCEPT ![n].says = job.on]
                                                ELSE [items EXCEPT ![n].on = job.on]
  <2>1. job # NoJob
    BY ApplyFacts
  <2> QED BY <1>1, <1>2, <2>1 DEF Pending
<1>4. n \in DOMAIN heap /\ n \in DOMAIN items /\ live = DOMAIN items
  BY <1>2, <1>3, InStep
<1>5. UNCHANGED <<live, listed, contextNames, allNames, ownNames>>
  BY <1>1 DEF maps
<1>6. DOMAIN h = DOMAIN heap /\ h = [m \in DOMAIN heap |-> h[m]]
  OBVIOUS
<1>7. \A m \in DOMAIN heap :
        /\ h[m] \in Items /\ h[m].kind = heap[m].kind /\ h[m].up = heap[m].up
        /\ h[m].name = heap[m].name /\ h[m].pos = heap[m].pos
        /\ m # n => h[m] = heap[m]
  <2>1. job.op = "switch" => job.on \in BOOLEAN
    BY <1>3
  <2>2. job.op = "update" => job.says \in Contents
    BY <1>3
  <2> QED BY <1>1, <2>1, <2>2, ApplyFacts DEF Items
<1>8. MemoryIs(disk)'
  <2>1. \A m \in DOMAIN items : items[m] \in Items /\ heap[m] \in Items
    BY <1>2, <1>4, Fields, ApplyFacts, InStep
  <2>2. DOMAIN disk = DOMAIN items
    BY <1>1, <1>3
  <2>3. \A m \in live : Like(heap[m], items[m], clashed, strays, noProceed)
    BY <1>2 DEF MemoryIs
  <2>4. ASSUME NEW m \in live PROVE Like(h[m], disk[m], clashed', strays, noProceed)
    <3>1. Like(heap[m], items[m], clashed, strays, noProceed) /\ heap[m] \in Items /\ items[m] \in Items
      BY <1>4, <2>1, <2>3
    <3>2. Like(heap[m], items[m], clashed', strays, noProceed)
      BY <3>1, ApplyFacts DEF Like
    <3>3. CASE m # n
      <4>1. disk[m] = items[m]
        BY <1>1, <1>3, <1>4, <3>3
      <4> QED BY <1>4, <1>7, <3>2, <3>3, <4>1, InStep, <1>2
    <3>4. CASE m = n /\ job.op = "update"
      <4>1. h[m] = [heap[m] EXCEPT !.says = job.says] /\ disk[m] = [items[m] EXCEPT !.says = job.says]
        BY <1>3, <1>4, <3>4
      <4> QED BY <3>1, <3>2, <4>1 DEF Like, Items, ListOf
    <3>5. CASE m = n /\ job.op = "switch"
      <4>1. /\ h[m] = [heap[m] EXCEPT !.on = job.on]
            /\ disk[m] = IF items[m].kind = "regex" THEN [items[m] EXCEPT !.says = job.on]
                                                    ELSE [items[m] EXCEPT !.on = job.on]
        BY <1>3, <1>4, <3>5
      <4> QED BY <3>1, <3>2, <4>1 DEF Like, Items, ListOf
    <3> QED BY <1>1, <3>3, <3>4, <3>5
  <2> HIDE DEF h
  <2>5. \A m \in live : h[m].kind # "context" => m \in listed
    BY <1>2, <1>7, InStep
  <2>6. disk' = disk /\ strays' = strays /\ noProceed' = noProceed
    BY ApplyFacts
  <2> QED BY <1>1, <1>4, <1>5, <2>2, <2>4, <2>5, <2>6 DEF MemoryIs
<1> HIDE DEF h
<1>9. HeapOK' /\ NamesOK'
  BY <1>1, <1>6, <1>7, ObjectsChange, ApplyFacts DEF Inv
<1>10. ServedOK'
  <2> DEFINE c0 == ContextOf(heap, n)
  <2>1. IsTable(h) /\ Rooted(h)
    BY <1>6, <1>7, SameShape, ApplyFacts
  <2>2. \A m \in DOMAIN heap : ContextOf(heap, m) # c0 => h[m] = heap[m]
    BY <1>7
  <2>3. Of("context", h) = Of("context", heap)
    BY <1>6, <1>7 DEF Of
  <2>4. noProceed => full' = With(full, c0, Rendered(h, listed', c0))
    BY <1>1 DEF CacheFullXML
  <2>5. \A c \in Of("context", heap) \cap live' : h[c].name = heap[c].name
    BY <1>7 DEF Of
  <2>6. DOMAIN heap \subseteq DOMAIN h /\ DOMAIN h \ DOMAIN heap = {}
    BY <1>6
  <2> HIDE DEF c0
  <2>7. Of("context", h) \cap live' \subseteq (Of("context", heap) \cap live) \cup {c0}
    BY <2>3, <1>5
  <2>8. \A m \in DOMAIN heap : ContextOf(heap, m) \in live' \ {c0} =>
          /\ h[m].on = heap[m].on /\ (m \in listed <=> m \in listed')
          /\ m \in listed => Masked(Text(h[m]), clashed') = Masked(Text(heap[m]), clashed')
    BY <2>2, <1>5
  <2>9. \A m \in DOMAIN heap : h[m].kind = heap[m].kind /\ h[m].up = heap[m].up
    BY <1>7
  <2> QED BY <1>1, <1>9, <2>1, <2>4, <2>5, <2>6, <2>7, <2>8, <2>9, ServedKeeps, ApplyFacts
<1> QED BY <1>8, <1>9, <1>10, ApplyCloses

LEMMA ApplyMoveKeeps ==
  ASSUME Inv, Apply, ApplyMove
  PROVE  Inv'
<1> DEFINE n == job.id
           to == job.to
           h == Shifted(n, to)
<1>1. job.op = "move" /\ heap' = h /\ UNCHANGED maps /\ CacheFullXML(ContextOf(heap, n))
  BY DEF ApplyMove
<1>2. PICK items : IsTable(items) /\ Dialplan(items, strays) /\ MemoryIs(items) /\ Pending(items)
  BY ApplyFacts DEF Inv, Underway
<1> DEFINE S == Siblings(items, n)
           stray == ListOf(heap[n]) \in strays
<1>3. /\ n \in live /\ heap[n].kind \in Ordered /\ to \in Int \ {0}
      /\ \E P \in [S -> Nat] :
           /\ disk = Placed(items, P)
           /\ ~stray => to > 0 /\ P = MoveObjects(Place(items, n), n, to)
  <2>1. job # NoJob
    BY ApplyFacts
  <2> QED BY <1>1, <1>2, <2>1 DEF Pending
<1>4. /\ n \in DOMAIN heap /\ n \in DOMAIN items /\ live = DOMAIN items
      /\ live \subseteq DOMAIN heap
      /\ \A m \in live : /\ heap[m].kind = items[m].kind /\ heap[m].up = items[m].up
                         /\ ListOf(heap[m]) \notin strays => heap[m].pos = items[m].pos
                         /\ heap[m].kind # "context" => heap[m].up \in live /\ m \in listed
  BY <1>2, <1>3, InStep
<1>5. UNCHANGED <<live, listed, contextNames, allNames, ownNames>>
  BY <1>1 DEF maps
<1>6. Siblings(heap, n) \cap listed = S /\ S \subseteq live /\ n \in S
  <2>1. heap[n].kind # "context" /\ heap[n].up \in live
    BY <1>3, <1>4 DEF Ordered
  <2>2. \A m \in listed : heap[m].up = heap[n].up => m \in live
    BY <2>1 DEF Inv, HeapOK
  <2> QED BY <1>3, <1>4, <2>1, <2>2 DEF Siblings
<1>7. PICK P \in [S -> Nat] :
        /\ disk = Placed(items, P)
        /\ ~stray => to > 0 /\ P = MoveObjects(Place(items, n), n, to)
  BY <1>3
<1> DEFINE group == Restrict(Place(heap, n), Siblings(heap, n) \cap listed)
           Q == MoveObjects(group, n, to)
<1>8. h = Placed(heap, Q)
  BY DEF Shifted
<1>8a. \A m \in S : ListOf(heap[m]) = ListOf(heap[n])
  BY <1>4, <1>6 DEF Siblings, ListOf
<1>8b. group = [m \in S |-> heap[m].pos]
  BY <1>6 DEF Restrict, Place
<1>8c. Q \in [S -> Int]
  <2>1. \A m \in S : heap[m].pos \in Int
    BY <1>4, <1>6, ApplyFacts DEF Items
  <2> HIDE DEF group
  <2>2. group \in [S -> Int]
    BY <1>8b, <2>1
  <2> QED BY <1>3, <1>6, <2>2 DEF MoveObjects
<1>8d. ~stray => Q = P
  <2>1. ~stray => group = Place(items, n)
    BY <1>4, <1>6, <1>8a, <1>8b DEF Place
  <2> QED BY <1>7, <2>1
<1> HIDE DEF S, h, group, Q, stray
<1>9. DOMAIN h = DOMAIN heap /\ h = [m \in DOMAIN heap |-> h[m]]
  BY <1>8 DEF Placed
<1>10. \A m \in DOMAIN heap : h[m] = IF m \in S THEN [heap[m] EXCEPT !.pos = Q[m]] ELSE heap[m]
  BY <1>8, <1>8c DEF Placed
<1>11. /\ DOMAIN disk = DOMAIN items
       /\ \A m \in DOMAIN items :
            disk[m] = IF m \in S THEN [items[m] EXCEPT !.pos = P[m]] ELSE items[m]
  BY <1>7 DEF Placed
<1>12. \A m \in S : Q[m] \in Int
  BY <1>8c
<1>13. \A m \in DOMAIN heap :
         /\ h[m] \in Items /\ h[m].kind = heap[m].kind /\ h[m].up = heap[m].up
         /\ h[m].name = heap[m].name /\ h[m].on = heap[m].on
         /\ m \notin S => h[m] = heap[m]
  <2> SUFFICES ASSUME NEW m \in DOMAIN heap
               PROVE  /\ h[m] \in Items /\ h[m].kind = heap[m].kind /\ h[m].up = heap[m].up
                      /\ h[m].name = heap[m].name /\ h[m].on = heap[m].on
                      /\ m \notin S => h[m] = heap[m]
    OBVIOUS
  <2>1. heap[m] \in Items
    BY ApplyFacts
  <2>2. CASE m \in S
    BY <1>10, <1>12, <2>1, <2>2 DEF Items
  <2>3. CASE m \notin S
    BY <1>10, <2>1, <2>3
  <2> QED BY <2>2, <2>3
<1>14. MemoryIs(disk)'
  <2>1. ASSUME NEW m \in live PROVE Like(h[m], disk[m], clashed', strays, noProceed)
    <3>1. Like(heap[m], items[m], clashed, strays, noProceed)
      BY <1>2 DEF MemoryIs
    <3>2. heap[m] \in Items /\ items[m] \in Items
      BY <1>2, <1>4, Fields, ApplyFacts
    <3>3. Like(heap[m], items[m], clashed', strays, noProceed)
      BY <3>1, ApplyFacts DEF Like
    <3>4. CASE m \notin S
      BY <1>4, <1>10, <1>11, <3>3, <3>4
    <3>5. CASE m \in S
      <4>1. h[m] = [heap[m] EXCEPT !.pos = Q[m]] /\ disk[m] = [items[m] EXCEPT !.pos = P[m]]
        BY <1>4, <1>10, <1>11, <3>5
      <4>2. ListOf(h[m]) \notin strays => Q[m] = P[m]
        BY <1>4, <1>8a, <1>8d, <1>13, <3>5 DEF ListOf, stray
      <4> QED BY <3>2, <3>3, <4>1, <4>2 DEF Like, Items, ListOf
    <3> QED BY <3>4, <3>5
  <2>2. \A m \in live : h[m].kind # "context" => m \in listed
    BY <1>4, <1>13
  <2>3. disk' = disk /\ strays' = strays /\ noProceed' = noProceed
    BY ApplyFacts
  <2> QED BY <1>1, <1>4, <1>5, <1>11, <2>1, <2>2, <2>3 DEF MemoryIs
<1>15. HeapOK' /\ NamesOK'
  BY <1>1, <1>9, <1>13, ObjectsChange, ApplyFacts DEF Inv
<1>16. ServedOK'
  <2> DEFINE c0 == ContextOf(heap, n)
  <2>1. IsTable(h) /\ Rooted(h)
    BY <1>9, <1>13, SameShape, ApplyFacts
  <2>2. \A m \in S : ContextOf(heap, m) = c0
    <3>1. n \in DOMAIN heap /\ heap[n].kind # "context"
      BY <1>3, <1>4 DEF Ordered
    <3>2. \A m \in S : m \in DOMAIN heap /\ heap[m].kind = heap[n].kind /\ heap[m].up = heap[n].up
      BY <1>6 DEF Siblings, S
    <3> QED BY <3>1, <3>2, ContextOfStep, ApplyFacts
  <2>3. \A m \in DOMAIN heap : ContextOf(heap, m) # c0 => h[m] = heap[m]
    BY <1>13, <2>2
  <2>4. Of("context", h) = Of("context", heap)
    BY <1>9, <1>13 DEF Of
  <2>5. noProceed => full' = With(full, c0, Rendered(h, listed', c0))
    BY <1>1 DEF CacheFullXML
  <2>6. \A c \in Of("context", heap) \cap live' : h[c].name = heap[c].name
    BY <1>13 DEF Of
  <2>7. DOMAIN heap \subseteq DOMAIN h /\ DOMAIN h \ DOMAIN heap = {}
    BY <1>9
  <2> HIDE DEF c0
  <2>8. Of("context", h) \cap live' \subseteq (Of("context", heap) \cap live) \cup {c0}
    BY <2>4, <1>5
  <2>9. \A m \in DOMAIN heap : ContextOf(heap, m) \in live' \ {c0} =>
          /\ h[m].on = heap[m].on /\ (m \in listed <=> m \in listed')
          /\ m \in listed => Masked(Text(h[m]), clashed') = Masked(Text(heap[m]), clashed')
    BY <2>3, <1>5
  <2>10. \A m \in DOMAIN heap : h[m].kind = heap[m].kind /\ h[m].up = heap[m].up
    BY <1>13
  <2> QED BY <1>1, <1>15, <2>1, <2>5, <2>6, <2>7, <2>8, <2>9, <2>10, ServedKeeps, ApplyFacts
<1> QED BY <1>14, <1>15, <1>16, ApplyCloses

LEMMA ApplySetKeeps ==
  ASSUME Inv, Apply, ApplySet
  PROVE  Inv'
<1> DEFINE n == job.id
           item == job.item
           h == With(heap, n, item)
<1>1. /\ job.op = "set" /\ heap' = h
      /\ live' = live \cup {n}
      /\ listed' = IF item.kind = "context" THEN listed ELSE listed \cup {n}
      /\ contextNames' = IF item.kind = "context"
                         THEN [contextNames EXCEPT ![item.name] = n] ELSE contextNames
      /\ allNames' = IF item.kind = "extension"
                     THEN [allNames EXCEPT ![item.name] = n] ELSE allNames
      /\ ownNames' = CASE item.kind = "context" -> With(ownNames, n, [x \in Names |-> Top])
                       [] item.kind = "extension" -> [ownNames EXCEPT ![item.up][item.name] = n]
                       [] OTHER -> ownNames
      /\ CacheFullXML(ContextOf(h, n))
  BY DEF ApplySet
<1>2. PICK items : IsTable(items) /\ Dialplan(items, strays) /\ MemoryIs(items) /\ Pending(items)
  BY ApplyFacts DEF Inv, Underway
<1>3. /\ n \in Ids \ DOMAIN heap /\ item \in Items
      /\ item.kind = "context" => contextNames[item.name] = Top
      /\ disk = With(items, n, item)
  <2>1. job # NoJob
    BY ApplyFacts
  <2> QED BY <1>1, <1>2, <2>1 DEF Pending
<1>4. /\ live = DOMAIN items /\ live \subseteq DOMAIN heap /\ n \notin live /\ n # Top
      /\ \A m \in live : /\ heap[m].kind = items[m].kind /\ heap[m].up = items[m].up
                         /\ heap[m].kind # "context" => m \in listed
  BY <1>2, <1>3, InStep, LoadedAssumption DEF Ids, Top
<1>5. /\ DOMAIN h = DOMAIN heap \cup {n} /\ h[n] = item /\ h = [m \in DOMAIN h |-> h[m]]
      /\ \A m \in DOMAIN heap : h[m] = heap[m]
      /\ DOMAIN disk = DOMAIN items \cup {n} /\ disk[n] = item
      /\ \A m \in DOMAIN items : disk[m] = items[m]
  BY <1>3, <1>4 DEF With
<1> HIDE DEF h, item, n
\* Where it belongs: what the constraints of the tables say of the new row.
<1>6. /\ item.kind = "context" => item.up = Top
      /\ item.kind # "context" =>
           item.up \in live /\ heap[item.up].kind = Above[item.kind]
      /\ item.kind \in Named => item.name \in Names
  <2>1. Rooted(disk) /\ Called(disk)
    BY DEF Inv, Dialplan
  <2>2. n \in DOMAIN disk /\ item.kind \in Kinds
    BY <1>3, <1>5 DEF Items
  <2>3. item.kind # "context" => item.up \in DOMAIN disk /\ disk[item.up].kind = Above[item.kind]
    BY <1>5, <2>1, <2>2 DEF Rooted
  <2>4. item.kind # "context" => Above[item.kind] # item.kind
    BY <2>2 DEF Kinds, Above
  <2>5. item.kind # "context" => item.up \in DOMAIN items
    BY <1>5, <2>3, <2>4
  <2> QED BY <1>4, <1>5, <2>1, <2>2, <2>3, <2>5 DEF Rooted, Called
<1>7. item.kind = "extension" => item.up \in Of("context", heap)
  BY <1>4, <1>6 DEF Of, Above
<1>8. IsTable(h) /\ Rooted(h)
  <2>1. IsTable(h)
    <3>1. \A m \in DOMAIN h : h[m] \in Items
      BY <1>3, <1>5, ApplyFacts
    <3>2. DOMAIN h \subseteq Ids
      BY <1>3, <1>5, ApplyFacts DEF IsTable
    <3> QED BY <1>5, <3>1, <3>2 DEF IsTable
  <2>2. Rooted(h)
    <3> SUFFICES ASSUME NEW m \in DOMAIN h
                 PROVE  IF h[m].kind = "context" THEN h[m].up = Top
                        ELSE h[m].up \in DOMAIN h /\ h[h[m].up].kind = Above[h[m].kind]
      BY DEF Rooted
    <3>1. CASE m = n
      BY <3>1, <1>4, <1>5, <1>6
    <3>2. CASE m \in DOMAIN heap
      BY <3>2, <1>5, ApplyFacts DEF Rooted
    <3> QED BY <3>1, <3>2, <1>5
  <2> QED BY <2>1, <2>2
<1>9. HeapOK'
  <2>1. /\ \A m \in DOMAIN heap : heap[m].kind \in Named => heap[m].name \in Names
        /\ \A m \in listed : heap[m].kind # "context" /\ (heap[m].up \in live => m \in live)
        /\ listed \subseteq DOMAIN heap
    BY DEF Inv, HeapOK
  <2>2. \A m \in DOMAIN h : h[m].kind \in Named => h[m].name \in Names
    BY <1>5, <1>6, <2>1
  <2>3. \A m \in listed' : h[m].kind # "context" /\ (h[m].up \in live' => m \in live')
    <3>1. \A m \in listed : heap[m].up # n
      BY <1>3, <2>1, Parents, ApplyFacts
    <3> QED BY <1>1, <1>5, <2>1, <3>1
  <2> QED BY <1>1, <1>4, <1>5, <1>8, <2>1, <2>2, <2>3 DEF HeapOK
<1>10. MemoryIs(disk)'
  <2>1. ASSUME NEW m \in live' PROVE Like(h[m], disk[m], clashed', strays, noProceed)
    <3>1. CASE m = n
      BY <3>1, <1>5 DEF Like
    <3>2. CASE m \in live
      <4>1. Like(heap[m], items[m], clashed, strays, noProceed)
        BY <1>2, <3>2 DEF MemoryIs
      <4>2. Like(heap[m], items[m], clashed', strays, noProceed)
        BY <4>1, ApplyFacts DEF Like
      <4> QED BY <1>4, <1>5, <3>2, <4>2
    <3> QED BY <1>1, <3>1, <3>2
  <2>2. \A m \in live' : h[m].kind # "context" => m \in listed'
    BY <1>1, <1>4, <1>5
  <2>3. disk' = disk /\ strays' = strays /\ noProceed' = noProceed
    BY ApplyFacts
  <2>4. live' = DOMAIN disk /\ heap' = h
    BY <1>1, <1>4, <1>5
  <2> QED BY <2>1, <2>2, <2>3, <2>4 DEF MemoryIs
<1>11. /\ Of("context", h) = Of("context", heap) \cup (IF item.kind = "context" THEN {n} ELSE {})
       /\ Of("extension", h) = Of("extension", heap) \cup (IF item.kind = "extension" THEN {n} ELSE {})
  BY <1>5 DEF Of
<1>12. NamesOK'
  <2>1. /\ contextNames \in [Names -> {Top} \cup (Of("context", heap) \cap live)]
        /\ \A x \in Names, c \in Of("context", heap) \cap live :
             contextNames[x] = c <=> heap[c].name = x
        /\ allNames \in [Names -> {Top} \cup Of("extension", heap)]
        /\ ~clashed => \A x \in Names :
             /\ allNames[x] \in {Top} \cup live
             /\ \A m \in Of("extension", heap) \cap live : allNames[x] = m <=> heap[m].name = x
        /\ ownNames \in [Of("context", heap) -> [Names -> {Top} \cup Of("extension", heap)]]
    BY DEF Inv, NamesOK
  <2>2. /\ n \notin Of("context", heap) /\ n \notin Of("extension", heap)
        /\ Of("context", heap) \subseteq DOMAIN heap /\ Of("extension", heap) \subseteq DOMAIN heap
    BY <1>3 DEF Of
  <2>3. item.kind \in {"context", "extension"} => item.name \in Names
    BY <1>6 DEF Named
  <2>4. contextNames' \in [Names -> {Top} \cup (Of("context", h) \cap live')]
    BY <1>1, <1>11, <2>1, <2>3
  <2>5. ASSUME NEW x \in Names, NEW c \in Of("context", h) \cap live'
        PROVE  contextNames'[x] = c <=> h[c].name = x
    <3>1. CASE item.kind # "context"
      BY <3>1, <1>1, <1>4, <1>5, <1>11, <2>1, <2>2
    <3>2. CASE item.kind = "context" /\ c = n
      <4>1. contextNames[x] # n
        BY <1>4, <2>1, <2>2
      <4> QED BY <3>2, <4>1, <1>1, <1>5, <2>1, <2>3
    <3>3. CASE item.kind = "context" /\ c # n
      <4>1. c \in Of("context", heap) \cap live /\ h[c] = heap[c] /\ c # Top
        BY <3>3, <1>1, <1>5, <1>11, <2>2, ApplyFacts
      <4> QED BY <3>3, <4>1, <1>1, <1>3, <2>1, <2>3
    <3> QED BY <3>1, <3>2, <3>3
  <2>6. allNames' \in [Names -> {Top} \cup Of("extension", h)]
    BY <1>1, <1>11, <2>1, <2>3
  <2>7. ASSUME ~clashed', NEW x \in Names
        PROVE  /\ allNames'[x] \in {Top} \cup live'
               /\ \A m \in Of("extension", h) \cap live' : allNames'[x] = m <=> h[m].name = x
    <3>1. /\ allNames[x] \in {Top} \cup live
          /\ \A m \in Of("extension", heap) \cap live : allNames[x] = m <=> heap[m].name = x
      BY <2>1, <2>7, ApplyFacts
    <3>2. allNames'[x] \in {Top} \cup live'
      BY <1>1, <2>1, <2>3, <3>1
    <3>3. ASSUME NEW m \in Of("extension", h) \cap live' PROVE allNames'[x] = m <=> h[m].name = x
      <4>1. CASE item.kind # "extension"
        BY <4>1, <1>1, <1>4, <1>5, <1>11, <2>2, <3>1
      <4>2. CASE item.kind = "extension" /\ m = n
        <5>1. allNames[x] # n
          BY <1>4, <2>1, <2>2
        <5> QED BY <4>2, <5>1, <1>1, <1>5, <2>1, <2>3
      <4>3. CASE item.kind = "extension" /\ m # n
        <5>1. m \in Of("extension", heap) \cap live /\ h[m] = heap[m]
          BY <4>3, <1>1, <1>5, <1>11, <2>2
        <5>2. n \in Of("extension", h) \cap live' /\ h[n].name = item.name
          BY <4>3, <1>1, <1>5, <1>11
        <5>3. h[m].name # item.name
          <6>1. ~Clash(Restrict(h, live'))
            BY <2>7, <1>1, ApplyFacts
          <6> QED BY <3>3, <4>3, <5>2, <6>1 DEF Clash, Restrict, Of
        <5> QED BY <4>3, <5>1, <5>3, <1>1, <2>1, <2>3, <3>1
      <4> QED BY <4>1, <4>2, <4>3
    <3> QED BY <3>2, <3>3
  <2>8. ownNames' \in [Of("context", h) -> [Names -> {Top} \cup Of("extension", h)]]
    <3>1. CASE item.kind = "context"
      <4>1. ownNames' = [m \in Of("context", h) |-> IF m = n THEN [x \in Names |-> Top] ELSE ownNames[m]]
        BY <3>1, <1>1, <1>11, <2>1 DEF With
      <4> QED BY <3>1, <4>1, <1>11, <2>1
    <3>2. CASE item.kind = "extension"
      <4>1. ownNames' = [ownNames EXCEPT ![item.up][item.name] = n]
        BY <3>2, <1>1
      <4>2. /\ Of("context", h) = Of("context", heap)
            /\ Of("extension", h) = Of("extension", heap) \cup {n}
        BY <3>2, <1>11
      <4>3. \A c \in Of("context", heap) : ownNames[c] \in [Names -> {Top} \cup Of("extension", h)]
        BY <2>1, <4>2
      <4>4. ownNames \in [Of("context", heap) -> [Names -> {Top} \cup Of("extension", h)]]
        BY <2>1, <4>3
      <4> QED BY <3>2, <4>1, <4>2, <4>4, <1>7, <2>3
    <3>3. CASE item.kind \notin {"context", "extension"}
      <4>1. ownNames' = ownNames
        BY <3>3, <1>1
      <4>2. /\ Of("context", h) = Of("context", heap)
            /\ Of("extension", h) = Of("extension", heap)
        BY <3>3, <1>11
      <4> QED BY <4>1, <4>2, <2>1
    <3> QED BY <3>1, <3>2, <3>3
  <2> QED BY <1>1, <2>4, <2>5, <2>6, <2>7, <2>8 DEF NamesOK
<1>13. ServedOK'
  <2> DEFINE c0 == ContextOf(h, n)
  <2>1. noProceed => full' = With(full, c0, Rendered(h, listed', c0))
    BY <1>1 DEF CacheFullXML
  <2>2. item.kind = "context" => c0 = n
    BY <1>5, <1>8, ContextOfStep
  <2> HIDE DEF c0
  <2>3. Of("context", h) \cap live' \subseteq (Of("context", heap) \cap live) \cup {c0}
    BY <1>1, <1>3, <1>11, <2>2 DEF Of
  <2>4. \A m \in DOMAIN h \ DOMAIN heap : ContextOf(h, m) = c0
    BY <1>5 DEF c0
  <2>5. \A m \in DOMAIN heap : m \in listed <=> m \in listed'
    BY <1>1, <1>3
  <2>6. \A c \in Of("context", heap) \cap live' : h[c].name = heap[c].name
    BY <1>5 DEF Of
  <2>7. /\ DOMAIN heap \subseteq DOMAIN h
        /\ \A m \in DOMAIN heap : h[m].kind = heap[m].kind /\ h[m].up = heap[m].up
    BY <1>5
  <2>8. \A m \in DOMAIN heap : ContextOf(heap, m) \in live' \ {c0} =>
          /\ h[m].on = heap[m].on /\ (m \in listed <=> m \in listed')
          /\ m \in listed => Masked(Text(h[m]), clashed') = Masked(Text(heap[m]), clashed')
    BY <1>5, <2>5
  <2> QED BY <1>1, <1>8, <1>9, <2>1, <2>3, <2>4, <2>6, <2>7, <2>8, ServedKeeps, ApplyFacts
<1> QED BY <1>9, <1>10, <1>12, <1>13, ApplyCloses

(* clearUp, a kind at a time, leaves what the cascade of the tables leaves. *)
LEMMA ClearUpIsCascade ==
  ASSUME Inv, NEW items, IsTable(items), Dialplan(items, strays), MemoryIs(items), NEW n \in live
  PROVE  ClearUp(live \ {n}) = DOMAIN items \ Under(items, n)
<1> DEFINE l0 == live \ {n}
           l1 == {m \in l0 : heap[m].kind \in {"extension"} => heap[m].up \in l0}
           l2 == {m \in l1 : heap[m].kind \in {"condition"} => heap[m].up \in l1}
           l3 == {m \in l2 : heap[m].kind \in {"regex", "action", "antiaction"} => heap[m].up \in l2}
<1>1. ClearUp(live \ {n}) = l3
  BY DEF ClearUp
<1>2. /\ live = DOMAIN items /\ n \in DOMAIN items /\ Rooted(items)
      /\ \A m \in live : /\ heap[m].kind = items[m].kind /\ heap[m].up = items[m].up
                         /\ heap[m].kind \in Kinds
  BY InStep DEF Dialplan
<1>3. l3 \subseteq l2 /\ l2 \subseteq l1 /\ l1 \subseteq l0 /\ l0 \subseteq DOMAIN items
  BY <1>2
<1>4. \A m \in DOMAIN items :
        /\ items[m].kind = "context" => (m \in l3 <=> m # n)
        /\ items[m].kind = "extension" => (m \in l3 <=> m # n /\ items[m].up \in l0)
        /\ items[m].kind = "condition" => (m \in l3 <=> m # n /\ items[m].up \in l1)
        /\ items[m].kind \in {"regex", "action", "antiaction"}
             => (m \in l3 <=> m # n /\ items[m].up \in l2)
  BY <1>2
<1>5. \A m \in DOMAIN items :
        /\ items[m].kind = "context" => (m \in l0 <=> m \in l3)
        /\ items[m].kind = "extension" => (m \in l1 <=> m \in l3)
        /\ items[m].kind = "condition" => (m \in l2 <=> m \in l3)
  BY <1>2
<1> HIDE DEF l0, l1, l2, l3
<1>6. \A m \in DOMAIN items :
        m \in l3 <=> m # n /\ (items[m].kind # "context" => items[m].up \in l3)
  <2> SUFFICES ASSUME NEW m \in DOMAIN items
               PROVE  m \in l3 <=> m # n /\ (items[m].kind # "context" => items[m].up \in l3)
    OBVIOUS
  <2>1. CASE items[m].kind = "context"
    BY <2>1, <1>4
  <2>2. CASE items[m].kind = "extension"
    BY <2>2, <1>2, <1>4, <1>5, Parents
  <2>3. CASE items[m].kind = "condition"
    BY <2>3, <1>2, <1>4, <1>5, Parents
  <2>4. CASE items[m].kind \in {"regex", "action", "antiaction"}
    BY <2>4, <1>2, <1>4, <1>5, Parents
  <2> QED BY <2>1, <2>2, <2>3, <2>4, Fields DEF Kinds
<1> DEFINE B == DOMAIN items \ Under(items, n)
<1>7. \A m \in DOMAIN items :
        m \in B <=> m # n /\ (items[m].kind # "context" => items[m].up \in B)
  <2>1. /\ Under(items, n) \subseteq DOMAIN items
        /\ \A m \in DOMAIN items : m \in Under(items, n) <=> m = n \/ items[m].up \in Under(items, n)
    BY <1>2, UnderIsClosed
  <2>2. \A m \in DOMAIN items : /\ items[m].kind = "context" => items[m].up \notin DOMAIN items
                                /\ items[m].kind # "context" => items[m].up \in DOMAIN items
    BY <1>2, Parents
  <2> QED BY <2>1, <2>2
<1> HIDE DEF B
<1>8. l3 \in SUBSET DOMAIN items /\ B \in SUBSET DOMAIN items
  BY <1>3 DEF B
<1>9. l3 = B
  BY <1>2, <1>6, <1>7, <1>8, SameFromTheTop
<1> QED BY <1>1, <1>9 DEF B

LEMMA ApplyDeleteKeeps ==
  ASSUME Inv, Apply, ApplyDelete
  PROVE  Inv'
<1> DEFINE n == job.id
           left == ClearUp(live \ {n})
           gone == live \ left
           goneExtensions == {heap[m].name : m \in gone \cap Of("extension", heap)}
<1>1. /\ job.op = "delete"
      /\ live' = left /\ listed' = listed \ {n} /\ heap' = heap
      /\ allNames' = [x \in Names |-> IF x \in goneExtensions THEN Top ELSE allNames[x]]
      /\ IF heap[n].kind = "context"
         THEN /\ contextNames' = [contextNames EXCEPT ![heap[n].name] = Top]
              /\ ownNames' = ownNames /\ full' = full
         ELSE /\ ownNames' = IF heap[n].kind = "extension"
                             THEN [ownNames EXCEPT ![heap[n].up][heap[n].name] = Top]
                             ELSE ownNames
              /\ contextNames' = contextNames
              /\ CacheFullXML(ContextOf(heap, n))
  BY DEF ApplyDelete
<1>2. PICK items : IsTable(items) /\ Dialplan(items, strays) /\ MemoryIs(items) /\ Pending(items)
  BY ApplyFacts DEF Inv, Underway
<1>3. n \in live /\ disk = Without(items, Under(items, n))
  <2>1. job # NoJob
    BY ApplyFacts
  <2> QED BY <1>1, <1>2, <2>1 DEF Pending
<1>4. left = DOMAIN items \ Under(items, n)
  BY <1>2, <1>3, ClearUpIsCascade
<1> HIDE DEF left, n
<1>5. /\ DOMAIN disk = left /\ \A m \in left : disk[m] = items[m]
      /\ n \in DOMAIN items /\ live = DOMAIN items /\ live \subseteq DOMAIN heap
      /\ \A m \in live : /\ heap[m].kind = items[m].kind /\ heap[m].up = items[m].up
                         /\ heap[m].kind # "context" => m \in listed
  BY <1>2, <1>3, <1>4, InStep DEF Without
<1>6. /\ n \notin left /\ left \subseteq live
      /\ \A m \in live : m \in left <=> m # n /\ items[m].up \notin Under(items, n)
  <2>1. Rooted(items)
    BY <1>2 DEF Dialplan
  <2> QED BY <1>2, <1>4, <1>5, <2>1, UnderIsClosed
<1>7. \A m \in live : heap[m].kind = "context" => (m \in left <=> m # n)
  <2>1. Rooted(items) /\ Under(items, n) \subseteq DOMAIN items
    BY <1>2, <1>5, UnderIsClosed DEF Dialplan
  <2> QED BY <1>2, <1>5, <1>6, <2>1, Parents
<1>8. MemoryIs(disk)'
  <2>1. ASSUME NEW m \in left PROVE Like(heap[m], disk[m], clashed', strays, noProceed)
    <3>1. Like(heap[m], items[m], clashed, strays, noProceed)
      BY <1>2, <1>6 DEF MemoryIs
    <3> QED BY <1>5, <3>1, ApplyFacts DEF Like
  <2>2. \A m \in left : heap[m].kind # "context" => m \in listed \ {n}
    BY <1>5, <1>6
  <2>3. /\ disk' = disk /\ strays' = strays /\ noProceed' = noProceed
        /\ live' = left /\ heap' = heap /\ listed' = listed \ {n}
    BY <1>1, ApplyFacts
  <2> QED BY <1>5, <2>1, <2>2, <2>3 DEF MemoryIs
<1>9. HeapOK'
  <2>1. ASSUME NEW m \in listed \ {n}, heap[m].up \in left
        PROVE  m \in left
    <3>1. m \in live /\ heap[m].up \notin Under(items, n)
      BY <1>4, <1>6, <2>1 DEF Inv, HeapOK
    <3> QED BY <1>5, <1>6, <2>1, <3>1
  <2>2. /\ IsTable(heap) /\ Rooted(heap)
        /\ left \subseteq DOMAIN heap /\ listed \ {n} \subseteq DOMAIN heap
        /\ \A m \in listed \ {n} : heap[m].kind # "context"
        /\ \A m \in DOMAIN heap : heap[m].kind \in Named => heap[m].name \in Names
    BY <1>5, <1>6 DEF Inv, HeapOK
  <2>3. live' = left /\ heap' = heap /\ listed' = listed \ {n}
    BY <1>1
  <2> QED BY <2>1, <2>2, <2>3 DEF HeapOK
<1>10. NamesOK'
  <2> DEFINE C == Of("context", heap)
             E == Of("extension", heap)
  <2>1. /\ contextNames \in [Names -> {Top} \cup (C \cap live)]
        /\ \A x \in Names, c \in C \cap live : contextNames[x] = c <=> heap[c].name = x
        /\ allNames \in [Names -> {Top} \cup E]
        /\ ~clashed => \A x \in Names :
             /\ allNames[x] \in {Top} \cup live
             /\ \A m \in E \cap live : allNames[x] = m <=> heap[m].name = x
        /\ ownNames \in [C -> [Names -> {Top} \cup E]]
    BY DEF Inv, NamesOK
  <2>2. \A m \in C \cap live : m \in left <=> m # n
    BY <1>7 DEF Of
  <2>3. heap[n].kind \in Named => heap[n].name \in Names
    BY <1>3, <1>5 DEF Inv, HeapOK
  <2>4. /\ contextNames' \in [Names -> {Top} \cup (C \cap left)]
        /\ \A x \in Names, c \in C \cap left : contextNames'[x] = c <=> heap[c].name = x
    <3>1. CASE heap[n].kind = "context"
      <4>1. contextNames' = [contextNames EXCEPT ![heap[n].name] = Top] /\ heap[n].name \in Names
        BY <1>1, <2>3, <3>1 DEF Named
      <4>2. n \in C \cap live /\ n # Top
        BY <1>3, <1>5, <3>1, ApplyFacts DEF Of
      <4>3. \A m \in C \cap live : m # Top
        BY <1>5, ApplyFacts
      <4>4. \A x \in Names : x # heap[n].name => contextNames[x] # n
        BY <2>1, <4>2
      <4>5. contextNames' \in [Names -> {Top} \cup (C \cap left)]
        BY <2>1, <2>2, <4>1, <4>4
      <4>6. ASSUME NEW x \in Names, NEW c \in C \cap left
            PROVE  contextNames'[x] = c <=> heap[c].name = x
        <5>1. c \in C \cap live /\ c # n /\ c # Top
          BY <1>6, <4>3
        <5>2. contextNames[heap[n].name] = n
          BY <2>1, <4>1, <4>2
        <5> QED BY <2>1, <4>1, <5>1, <5>2
      <4> QED BY <4>5, <4>6
    <3>2. CASE heap[n].kind # "context"
      <4>1. C \cap left = C \cap live
        BY <1>6, <2>2, <3>2 DEF Of
      <4> QED BY <1>1, <2>1, <3>2, <4>1
    <3> QED BY <3>1, <3>2
  <2>5. allNames' \in [Names -> {Top} \cup E]
    BY <1>1, <2>1
  <2>6. ASSUME ~clashed', NEW x \in Names
        PROVE  /\ allNames'[x] \in {Top} \cup left
               /\ \A m \in E \cap left : allNames'[x] = m <=> heap[m].name = x
    <3>1. /\ allNames[x] \in {Top} \cup live
          /\ \A m \in E \cap live : allNames[x] = m <=> heap[m].name = x
      BY <2>1, <2>6, ApplyFacts
    <3>2. allNames'[x] = IF x \in goneExtensions THEN Top ELSE allNames[x]
      BY <1>1
    <3>3. allNames[x] \in live \ left => x \in goneExtensions
      <4>1. allNames[x] \in live => allNames[x] \in E
        BY <1>5, <2>1, ApplyFacts
      <4> QED BY <3>1, <4>1
    <3>4. \A m \in E \cap left : heap[m].name = x => x \notin goneExtensions
      BY <1>6, <3>1
    <3>5. \A m \in E \cap left : m # Top /\ m \in E \cap live
      BY <1>5, <1>6, ApplyFacts
    <3> HIDE DEF goneExtensions, E
    <3> QED BY <3>1, <3>2, <3>3, <3>4, <3>5
  <2>7. ownNames' \in [C -> [Names -> {Top} \cup E]]
    <3>1. CASE heap[n].kind = "extension"
      <4>1. ownNames' = [ownNames EXCEPT ![heap[n].up][heap[n].name] = Top] /\ heap[n].name \in Names
        BY <1>1, <2>3, <3>1 DEF Named
      <4>2. heap[n].up \in C
        BY <1>3, <1>5, <3>1, Parents, ApplyFacts DEF Of
      <4> QED BY <2>1, <4>1, <4>2
    <3>2. CASE heap[n].kind # "extension"
      <4>1. ownNames' = ownNames
        BY <1>1, <3>2
      <4> QED BY <2>1, <4>1
    <3> QED BY <3>1, <3>2
  <2>8. Of("context", heap)' = C /\ Of("extension", heap)' = E /\ live' = left /\ heap' = heap
    BY <1>1 DEF Of
  <2> HIDE DEF C, E
  <2> QED BY <2>4, <2>5, <2>6, <2>7, <2>8 DEF NamesOK
<1>11. ServedOK'
  <2> DEFINE c0 == ContextOf(heap, n)
  <2>1. n \in DOMAIN heap /\ (heap[n].kind = "context" => c0 = n)
    BY <1>3, <1>5, ContextOfStep, ApplyFacts
  <2>2. noProceed => \/ full' = With(full, c0, Rendered(heap, listed', c0))
                     \/ full' = full /\ c0 \notin live'
    BY <1>1, <1>6, <2>1 DEF CacheFullXML
  <2>3. \A m \in DOMAIN heap : ContextOf(heap, m) # c0 => (m \in listed <=> m \in listed')
    BY <1>1
  <2> HIDE DEF c0
  <2>4. Of("context", heap) \cap live' \subseteq (Of("context", heap) \cap live) \cup {c0}
    BY <1>1, <1>6
  <2>5. \A m \in DOMAIN heap : ContextOf(heap, m) \in live' \ {c0} =>
          /\ heap[m].on = heap[m].on /\ (m \in listed <=> m \in listed')
          /\ m \in listed => Masked(Text(heap[m]), clashed') = Masked(Text(heap[m]), clashed')
    BY <2>3
  <2> QED BY <1>1, <1>9, <2>2, <2>4, <2>5, ServedKeeps, ApplyFacts
<1> QED BY <1>8, <1>9, <1>10, <1>11, ApplyCloses

(* A map that leads to each item by its name still does, when one item and *)
(* its entry have a new name.                                              *)
LEMMA RenamedIsExact ==
  ASSUME NEW ids, Top \notin ids, NEW names \in [Names -> {Top} \cup ids],
         NEW h1, \A m \in ids : h1[m].name \in Names,
         \A x \in Names, m \in ids : names[x] = m <=> h1[m].name = x,
         NEW n \in ids, NEW name \in Names, names[name] = Top
  PROVE  /\ Renamed(names, h1[n].name, name) \in [Names -> {Top} \cup ids]
         /\ \A x \in Names, m \in ids :
              Renamed(names, h1[n].name, name)[x] = m
                <=> (IF m = n THEN name ELSE h1[m].name) = x
<1> DEFINE old == h1[n].name
           new == Renamed(names, old, name)
<1>1. old \in Names /\ names[old] = n /\ n # Top /\ old # name
  OBVIOUS
<1>2. new = [[names EXCEPT ![name] = n] EXCEPT ![old] = Top]
  BY <1>1 DEF Renamed
<1>3. new \in [Names -> {Top} \cup ids]
  BY <1>1, <1>2
<1>4. \A x \in Names : new[x] = IF x = old THEN Top ELSE IF x = name THEN n ELSE names[x]
  BY <1>1, <1>2
<1> HIDE DEF new, old
<1>5. ASSUME NEW x \in Names, NEW m \in ids
      PROVE  new[x] = m <=> (IF m = n THEN name ELSE h1[m].name) = x
  <2>1. m # Top /\ (names[x] = m <=> h1[m].name = x) /\ (names[x] = n <=> h1[n].name = x)
    OBVIOUS
  <2>2. CASE m = n
    BY <1>1, <1>4, <2>1, <2>2 DEF old
  <2>3. CASE m # n
    BY <1>1, <1>4, <2>1, <2>3 DEF old
  <2> QED BY <2>2, <2>3
<1> QED BY <1>3, <1>5 DEF new, old

(* Objects with other names.                                               *)
LEMMA NamesChange ==
  ASSUME Inv, NEW kind \in Named, NEW name \in Names, NEW h, heap' = h,
         DOMAIN h = DOMAIN heap, h = [m \in DOMAIN heap |-> h[m]],
         \A m \in DOMAIN heap :
           h[m] = heap[m] \/ (heap[m].kind = kind /\ h[m] = [heap[m] EXCEPT !.name = name]),
         UNCHANGED <<live, listed>>
  PROVE  /\ HeapOK' /\ IsTable(h) /\ Rooted(h)
         /\ Of("context", h) = Of("context", heap) /\ Of("extension", h) = Of("extension", heap)
         /\ \A m \in DOMAIN heap :
              /\ h[m] \in Items /\ h[m].kind = heap[m].kind /\ h[m].up = heap[m].up
              /\ h[m].pos = heap[m].pos /\ h[m].on = heap[m].on /\ h[m].says = heap[m].says
              /\ heap[m].kind # kind => h[m] = heap[m]
<1>1. IsTable(heap) /\ Rooted(heap)
  BY DEF Inv, HeapOK
<1>2. \A m \in DOMAIN heap : heap[m] \in Items
  BY <1>1, Fields
<1>3. \A m \in DOMAIN heap :
        /\ h[m] \in Items /\ h[m].kind = heap[m].kind /\ h[m].up = heap[m].up
        /\ h[m].pos = heap[m].pos /\ h[m].on = heap[m].on /\ h[m].says = heap[m].says
        /\ h[m].name = heap[m].name \/ (heap[m].kind = kind /\ h[m].name = name)
        /\ heap[m].kind # kind => h[m] = heap[m]
  BY <1>2 DEF Items
<1>4. IsTable(h) /\ Rooted(h)
  BY <1>1, <1>3, SameShape
<1>5. HeapOK'
  BY <1>3, <1>4 DEF Inv, HeapOK
<1>6. Of("context", h) = Of("context", heap) /\ Of("extension", h) = Of("extension", heap)
  BY <1>3 DEF Of
<1> QED BY <1>3, <1>4, <1>5, <1>6

LEMMA RenameFacts ==
  ASSUME Inv, Apply, job.op = "rename"
  PROVE  /\ job.id \in live /\ job.id \in DOMAIN heap /\ heap[job.id].kind \in Named
         /\ job.name \in Names /\ heap[job.id].name \in Names
         /\ IF heap[job.id].kind = "context" THEN contextNames[job.name] = Top
                                             ELSE allNames[job.name] = Top
         /\ \E items : /\ IsTable(items) /\ Dialplan(items, strays) /\ MemoryIs(items)
                       /\ disk = [items EXCEPT ![job.id].name = job.name]
<1>1. PICK items : IsTable(items) /\ Dialplan(items, strays) /\ MemoryIs(items) /\ Pending(items)
  BY ApplyFacts DEF Inv, Underway
<1>2. /\ job.id \in live /\ heap[job.id].kind \in Named /\ job.name \in Names
      /\ IF heap[job.id].kind = "context" THEN contextNames[job.name] = Top
                                          ELSE allNames[job.name] = Top
      /\ disk = [items EXCEPT ![job.id].name = job.name]
  BY <1>1, ApplyFacts DEF Pending
<1> QED BY <1>1, <1>2 DEF Inv, HeapOK

LEMMA ApplyRenameContextKeeps ==
  ASSUME Inv, Apply, ApplyRename, heap[job.id].kind = "context"
  PROVE  Inv'
<1> DEFINE n == job.id
           name == job.name
           h == [heap EXCEPT ![n].name = name]
           C == Of("context", heap) \cap live
<1>1. job.op = "rename"
  BY DEF ApplyRename
<1>2. /\ n \in live /\ n \in DOMAIN heap /\ name \in Names /\ heap[n].name \in Names
      /\ contextNames[name] = Top
  BY <1>1, RenameFacts
<1>3. PICK items : /\ IsTable(items) /\ Dialplan(items, strays) /\ MemoryIs(items)
                   /\ disk = [items EXCEPT ![n].name = name]
  BY <1>1, RenameFacts
<1>4. n \in C /\ Top \notin C
  BY <1>2, ApplyFacts DEF Of
<1>5. /\ contextNames \in [Names -> {Top} \cup C]
      /\ \A x \in Names, c \in C : contextNames[x] = c <=> heap[c].name = x
      /\ \A c \in C : heap[c].name \in Names
  BY DEF Inv, NamesOK, HeapOK, Of, Named
<1>6. contextNames[heap[n].name] = n /\ n # Top
  BY <1>2, <1>4, <1>5
<1>7. /\ heap' = h /\ contextNames' = Renamed(contextNames, heap[n].name, name)
      /\ UNCHANGED <<live, listed, allNames, ownNames>> /\ CacheFullXML(n)
  BY <1>6 DEF ApplyRename
<1>8. /\ DOMAIN h = DOMAIN heap /\ h = [m \in DOMAIN heap |-> h[m]]
      /\ h[n] = [heap[n] EXCEPT !.name = name] /\ \A m \in DOMAIN heap : m # n => h[m] = heap[m]
  BY <1>2
<1>9. \A m \in DOMAIN heap :
        h[m] = heap[m] \/ (heap[m].kind = "context" /\ h[m] = [heap[m] EXCEPT !.name = name])
  <2> SUFFICES ASSUME NEW m \in DOMAIN heap
               PROVE  h[m] = heap[m] \/ (heap[m].kind = "context" /\ h[m] = [heap[m] EXCEPT !.name = name])
    OBVIOUS
  <2>1. CASE m = n
    <3> HIDE DEF h
    <3> QED BY <1>8, <2>1
  <2>2. CASE m # n
    BY <1>8, <2>2
  <2> QED BY <2>1, <2>2
<1> HIDE DEF h, C
<1>10. /\ HeapOK' /\ IsTable(h) /\ Rooted(h)
       /\ Of("context", h) = Of("context", heap) /\ Of("extension", h) = Of("extension", heap)
       /\ \A m \in DOMAIN heap :
            /\ h[m] \in Items /\ h[m].kind = heap[m].kind /\ h[m].up = heap[m].up
            /\ h[m].pos = heap[m].pos /\ h[m].on = heap[m].on /\ h[m].says = heap[m].says
            /\ heap[m].kind # "context" => h[m] = heap[m]
  <2>1. PICK kind \in Named : kind = "context"
    BY DEF Named
  <2>2. \A m \in DOMAIN heap :
          h[m] = heap[m] \/ (heap[m].kind = kind /\ h[m] = [heap[m] EXCEPT !.name = name])
    BY <1>9, <2>1
  <2>3. UNCHANGED <<live, listed>> /\ heap' = h /\ name \in Names
    BY <1>2, <1>7
  <2>4. DOMAIN h = DOMAIN heap /\ h = [m \in DOMAIN heap |-> h[m]]
    BY <1>8
  <2> HIDE DEF name
  <2>5. \A m \in DOMAIN heap : heap[m].kind # kind => h[m] = heap[m]
    BY <2>2
  <2> QED BY <2>1, <2>2, <2>3, <2>4, <2>5, NamesChange
<1>11. h[n].name = name
  BY <1>2, <1>8, ApplyFacts DEF Items
<1>12. NamesOK'
  <2>1. \A m \in C : h[m].name = (IF m = n THEN name ELSE heap[m].name)
    BY <1>8, <1>11 DEF C, Of
  <2>2. /\ contextNames' \in [Names -> {Top} \cup C]
        /\ \A x \in Names, c \in C : contextNames'[x] = c <=> h[c].name = x
    <3> HIDE DEF name, n
    <3>1. /\ contextNames' \in [Names -> {Top} \cup C]
          /\ \A x \in Names, c \in C :
               contextNames'[x] = c <=> (IF c = n THEN name ELSE heap[c].name) = x
      BY <1>2, <1>4, <1>5, <1>7, RenamedIsExact
    <3> QED BY <2>1, <3>1
  <2>3. \A m \in Of("extension", heap) : h[m].name = heap[m].name
    BY <1>10 DEF Of
  <2> QED BY <1>7, <1>10, <2>2, <2>3, ApplyFacts DEF NamesOK, Inv, C
<1>13. MemoryIs(disk)'
  <2>1. live = DOMAIN items /\ DOMAIN disk = DOMAIN items
    BY <1>3, InStep
  <2>2. ASSUME NEW m \in live PROVE Like(h[m], disk[m], clashed', strays, noProceed)
    <3>1. Like(heap[m], items[m], clashed, strays, noProceed) /\ items[m] \in Items /\ m \in DOMAIN heap
      BY <1>3, <2>1, Fields, InStep DEF MemoryIs
    <3>2. CASE m # n
      <4>1. disk[m] = items[m] /\ h[m] = heap[m]
        BY <1>3, <1>8, <2>1, <3>1, <3>2
      <4> QED BY <3>1, <4>1, ApplyFacts DEF Like
    <3>3. CASE m = n
      <4>1. disk[m] = [items[m] EXCEPT !.name = name]
        BY <1>3, <2>1, <3>3
      <4> QED BY <1>10, <1>11, <3>1, <3>3, <4>1 DEF Like, Items, ListOf
    <3> QED BY <3>2, <3>3
  <2>3. \A m \in live : h[m].kind # "context" => m \in listed
    BY <1>3, <1>10, InStep
  <2>4. disk' = disk /\ strays' = strays /\ noProceed' = noProceed
    BY ApplyFacts
  <2> QED BY <1>7, <2>1, <2>2, <2>3, <2>4 DEF MemoryIs
<1>14. ServedOK'
  <2>1. ContextOf(heap, n) = n
    BY DEF ContextOf
  <2>2. noProceed => full' = With(full, n, Rendered(h, listed', n))
    BY <1>7 DEF CacheFullXML
  <2>3. \A m \in DOMAIN heap : ContextOf(heap, m) \in live' \ {n} =>
          /\ h[m].on = heap[m].on /\ (m \in listed <=> m \in listed')
          /\ m \in listed => Masked(Text(h[m]), clashed') = Masked(Text(heap[m]), clashed')
    BY <1>7, <1>8, <2>1
  <2>4. \A c \in Of("context", heap) \cap live' : c # n => h[c].name = heap[c].name
    BY <1>8 DEF Of
  <2>5. Of("context", h) \cap live' \subseteq (Of("context", heap) \cap live) \cup {n}
    BY <1>7, <1>10
  <2> QED BY <1>7, <1>8, <1>10, <2>2, <2>3, <2>4, <2>5, ServedKeeps, ApplyFacts
<1> QED BY <1>10, <1>12, <1>13, <1>14, ApplyCloses

LEMMA ApplyRenameExtensionKeeps ==
  ASSUME Inv, Apply, ApplyRename, heap[job.id].kind = "extension"
  PROVE  Inv'
<1> DEFINE n == job.id
           name == job.name
           old == heap[n].name
           hit == allNames[old]
           objects == IF hit = Top THEN heap ELSE [heap EXCEPT ![hit].name = name]
           c == heap[n].up
           again == objects[n].name
           e == ownNames[c][again]
           h == IF e = Top THEN objects ELSE [objects EXCEPT ![e].name = name]
           E == Of("extension", heap)
<1>1. /\ job.op = "rename"
      /\ heap' = h /\ allNames' = Renamed(allNames, old, name)
      /\ ownNames' = [ownNames EXCEPT ![c] = Renamed(ownNames[c], again, name)]
      /\ UNCHANGED <<live, listed, contextNames>> /\ CacheFullXML(c)
  BY DEF ApplyRename
<1>2. /\ n \in live /\ n \in DOMAIN heap /\ name \in Names /\ old \in Names
      /\ allNames[name] = Top
  BY <1>1, RenameFacts
<1>3. PICK items : /\ IsTable(items) /\ Dialplan(items, strays) /\ MemoryIs(items)
                   /\ disk = [items EXCEPT ![n].name = name]
  BY <1>1, RenameFacts
<1>4. n \in E /\ Top \notin E /\ E \subseteq DOMAIN heap
  BY <1>2, ApplyFacts DEF Of
<1>5. /\ allNames \in [Names -> {Top} \cup E]
      /\ ~clashed => \A x \in Names :
           /\ allNames[x] \in {Top} \cup live
           /\ \A m \in E \cap live : allNames[x] = m <=> heap[m].name = x
      /\ ownNames \in [Of("context", heap) -> [Names -> {Top} \cup E]]
      /\ \A m \in E : heap[m].name \in Names
  BY DEF Inv, NamesOK, HeapOK, Of, Named
<1>6. c \in Of("context", heap) /\ ownNames[c] \in [Names -> {Top} \cup E]
  <2>1. c \in DOMAIN heap /\ heap[c].kind = "context"
    BY <1>2, Parents, ApplyFacts
  <2> QED BY <2>1, <1>5 DEF Of
<1>7. hit \in {Top} \cup E
  BY <1>2, <1>5
<1>8. /\ DOMAIN objects = DOMAIN heap /\ objects = [m \in DOMAIN heap |-> objects[m]]
      /\ \A m \in DOMAIN heap :
           objects[m] = IF m = hit THEN [heap[m] EXCEPT !.name = name] ELSE heap[m]
  <2>1. heap = [m \in DOMAIN heap |-> heap[m]] /\ Top \notin DOMAIN heap
    BY ApplyFacts DEF IsTable
  <2>2. hit # Top => hit \in DOMAIN heap
    BY <1>4, <1>7
  <2> HIDE DEF hit, name
  <2> QED BY <2>1, <2>2
<1>9. again \in Names
  BY <1>2, <1>5, <1>4, <1>8, ApplyFacts DEF Items
<1>10. e \in {Top} \cup E
  BY <1>6, <1>9
<1> HIDE DEF objects, hit, again
<1>11. /\ DOMAIN h = DOMAIN heap /\ h = [m \in DOMAIN heap |-> h[m]]
       /\ \A m \in DOMAIN heap :
            h[m] = IF m = e THEN [objects[m] EXCEPT !.name = name] ELSE objects[m]
  BY <1>4, <1>8, <1>10, ApplyFacts
<1> HIDE DEF h, e
<1>12. \A m \in DOMAIN heap :
         h[m] = heap[m] \/ (heap[m].kind = "extension" /\ h[m] = [heap[m] EXCEPT !.name = name])
  <2> SUFFICES ASSUME NEW m \in DOMAIN heap
               PROVE  h[m] = heap[m]
                        \/ (heap[m].kind = "extension" /\ h[m] = [heap[m] EXCEPT !.name = name])
    OBVIOUS
  <2>1. m = hit \/ m = e => heap[m].kind = "extension"
    BY <1>7, <1>10, ApplyFacts DEF E, Of
  <2>2. [[heap[m] EXCEPT !.name = name] EXCEPT !.name = name] = [heap[m] EXCEPT !.name = name]
    BY ApplyFacts DEF Items
  <2> HIDE DEF name
  <2> QED BY <1>8, <1>11, <2>1, <2>2
<1>13. /\ HeapOK' /\ IsTable(h) /\ Rooted(h)
       /\ Of("context", h) = Of("context", heap) /\ Of("extension", h) = E
       /\ \A m \in DOMAIN heap :
            /\ h[m] \in Items /\ h[m].kind = heap[m].kind /\ h[m].up = heap[m].up
            /\ h[m].pos = heap[m].pos /\ h[m].on = heap[m].on /\ h[m].says = heap[m].says
            /\ heap[m].kind # "extension" => h[m] = heap[m]
  <2>1. PICK kind \in Named : kind = "extension"
    BY DEF Named
  <2>2. \A m \in DOMAIN heap :
          h[m] = heap[m] \/ (heap[m].kind = kind /\ h[m] = [heap[m] EXCEPT !.name = name])
    BY <1>12, <2>1
  <2>3. UNCHANGED <<live, listed>> /\ heap' = h /\ name \in Names
    BY <1>1, <1>2
  <2>4. DOMAIN h = DOMAIN heap /\ h = [m \in DOMAIN heap |-> h[m]]
    BY <1>11
  <2> HIDE DEF name
  <2>5. \A m \in DOMAIN heap : heap[m].kind # kind => h[m] = heap[m]
    BY <2>2
  <2> HIDE DEF E
  <2>6. /\ HeapOK' /\ IsTable(h) /\ Rooted(h)
        /\ Of("context", h) = Of("context", heap) /\ Of("extension", h) = Of("extension", heap)
        /\ \A m \in DOMAIN heap :
             /\ h[m] \in Items /\ h[m].kind = heap[m].kind /\ h[m].up = heap[m].up
             /\ h[m].pos = heap[m].pos /\ h[m].on = heap[m].on /\ h[m].says = heap[m].says
    BY <2>1, <2>2, <2>3, <2>4, NamesChange, SMTT(60)
  <2> QED BY <2>1, <2>5, <2>6 DEF E
\* Until two have had one name, what changes is the extension itself, and
\* perhaps one that was deleted.
<1>14. ASSUME ~clashed'
       PROVE  /\ ~clashed /\ h[n].name = name
              /\ \A m \in live \ {n} : m \in DOMAIN heap => h[m] = heap[m]
  <2>1. ~clashed
    BY <1>14, ApplyFacts
  <2>2. hit = n /\ again = name
    <3>1. hit = n
      BY <1>2, <1>4, <1>5, <2>1 DEF hit
    <3> QED BY <1>2, <1>8, <3>1, ApplyFacts DEF again, Items
  <2>3. h[n].name = name
    BY <1>2, <1>8, <1>11, <2>2, ApplyFacts DEF Items
  <2>4. ASSUME e \in live, e # n PROVE FALSE
    <3> DEFINE R == Restrict(h, live)
    <3>1. e \in E /\ h[e].name = name
      <4>1. e \in E
        BY <2>4, <1>2, <1>10, ApplyFacts DEF Inv, HeapOK
      <4>2. h[e] = [heap[e] EXCEPT !.name = name] /\ heap[e] \in Items
        BY <1>4, <1>8, <1>11, <2>2, <2>4, <4>1, ApplyFacts
      <4> QED BY <4>1, <4>2 DEF Items
    <3>2. DOMAIN R = live /\ R[n] = h[n] /\ R[e] = h[e]
      BY <1>2, <2>4 DEF Restrict
    <3>3. n \in Of("extension", R) /\ e \in Of("extension", R)
      BY <1>2, <1>4, <1>13, <2>4, <3>1, <3>2 DEF Of, E
    <3>4. Clash(R)
      BY <2>3, <2>4, <3>1, <3>2, <3>3 DEF Clash
    <3> QED BY <1>1, <1>14, <3>4, ApplyFacts
  <2>5. \A m \in live \ {n} : m \in DOMAIN heap => h[m] = heap[m]
    BY <1>8, <1>11, <2>2, <2>4
  <2> QED BY <2>1, <2>3, <2>5
<1>15. NamesOK'
  <2>1. /\ contextNames \in [Names -> {Top} \cup (Of("context", heap) \cap live)]
        /\ \A x \in Names, k \in Of("context", heap) \cap live :
             contextNames[x] = k <=> h[k].name = x
    BY <1>13 DEF Inv, NamesOK, Of
  <2>2. allNames' \in [Names -> {Top} \cup E]
    BY <1>1, <1>2, <1>5, <1>7 DEF Renamed, hit
  <2>3. ownNames' \in [Of("context", heap) -> [Names -> {Top} \cup E]]
    <3>1. Renamed(ownNames[c], again, name) \in [Names -> {Top} \cup E]
      BY <1>2, <1>6, <1>9 DEF Renamed
    <3> QED BY <1>1, <1>5, <1>6, <3>1
  <2>4. ASSUME ~clashed'
        PROVE  \A x \in Names : /\ allNames'[x] \in {Top} \cup live
                                /\ \A m \in E \cap live : allNames'[x] = m <=> h[m].name = x
    <3> DEFINE ids == E \cap live
    <3>1. n \in ids /\ Top \notin ids /\ \A m \in ids : heap[m].name \in Names
      BY <1>2, <1>4, <1>5
    <3>2. allNames \in [Names -> {Top} \cup ids]
      BY <1>5, <1>14, <2>4
    <3>3. \A x \in Names, m \in ids : allNames[x] = m <=> heap[m].name = x
      BY <1>5, <1>14, <2>4
    <3>4. \A m \in ids : h[m].name = (IF m = n THEN name ELSE heap[m].name)
      BY <1>4, <1>14, <2>4
    <3>5. /\ allNames' = Renamed(allNames, heap[n].name, name)
          /\ name \in Names /\ allNames[name] = Top
      BY <1>1, <1>2
    <3> HIDE DEF ids, name, n, old, c, E
    <3>6. /\ allNames' \in [Names -> {Top} \cup ids]
          /\ \A x \in Names, m \in ids :
               allNames'[x] = m <=> (IF m = n THEN name ELSE heap[m].name) = x
      BY <3>1, <3>2, <3>3, <3>5, RenamedIsExact
    <3> QED BY <3>4, <3>6 DEF ids, E
  <2>5. /\ Of("context", heap)' = Of("context", heap) /\ Of("extension", heap)' = E
        /\ live' = live /\ contextNames' = contextNames /\ heap' = h
    BY <1>1, <1>13 DEF Of
  <2> HIDE DEF E
  <2> QED BY <2>1, <2>2, <2>3, <2>4, <2>5 DEF NamesOK
<1>16. MemoryIs(disk)'
  <2>1. live = DOMAIN items /\ DOMAIN disk = DOMAIN items
    BY <1>3, InStep
  <2>2. ASSUME NEW m \in live PROVE Like(h[m], disk[m], clashed', strays, noProceed)
    <3>1. Like(heap[m], items[m], clashed, strays, noProceed) /\ items[m] \in Items /\ m \in DOMAIN heap
      BY <1>3, <2>1, Fields, InStep DEF MemoryIs
    <3>2. Like(heap[m], items[m], clashed', strays, noProceed)
      BY <3>1, ApplyFacts DEF Like
    <3>3. CASE m # n
      <4>1. disk[m] = items[m]
        BY <1>3, <2>1, <3>1, <3>3
      <4>2. heap[m].kind # "extension" => h[m] = heap[m]
        BY <1>13, <3>1
      <4>3. ~clashed' => h[m] = heap[m]
        BY <1>14, <3>1, <3>3
      <4>4. /\ h[m].kind = heap[m].kind /\ h[m].up = heap[m].up /\ h[m].pos = heap[m].pos
            /\ h[m].on = heap[m].on /\ h[m].says = heap[m].says
        BY <1>13, <3>1
      <4>5. ListOf(h[m]) = ListOf(heap[m])
        BY <4>4 DEF ListOf
      <4>6. ~(h[m].kind = "extension" /\ clashed') => h[m].name = heap[m].name
        BY <4>2, <4>3, <4>4
      <4> QED BY <3>2, <4>1, <4>4, <4>5, <4>6 DEF Like
    <3>4. CASE m = n
      <4>1. disk[m] = [items[m] EXCEPT !.name = name]
        BY <1>3, <2>1, <3>4
      <4> QED BY <1>4, <1>13, <1>14, <3>1, <3>2, <3>4, <4>1 DEF Like, Items, ListOf, E, Of
    <3> QED BY <3>3, <3>4
  <2>3. \A m \in live : h[m].kind # "context" => m \in listed
    BY <1>3, <1>13, InStep
  <2>4. disk' = disk /\ strays' = strays /\ noProceed' = noProceed
    BY ApplyFacts
  <2> QED BY <1>1, <2>1, <2>2, <2>3, <2>4 DEF MemoryIs
<1>17. ServedOK'
  <2>1. noProceed => full' = With(full, c, Rendered(h, listed', c))
    BY <1>1 DEF CacheFullXML
  <2>2. ASSUME NEW m \in DOMAIN heap, ContextOf(heap, m) \in live \ {c}, m \in listed
        PROVE  Masked(Text(h[m]), clashed') = Masked(Text(heap[m]), clashed')
    <3>1. CASE heap[m].kind # "extension"
      BY <1>13, <3>1
    <3>2. CASE clashed' /\ heap[m].kind = "extension"
      BY <1>13, <3>2, LinesAlike, ApplyFacts
    <3>3. CASE ~clashed' /\ heap[m].kind = "extension"
      <4>1. ContextOf(heap, m) = heap[m].up
        BY <3>3 DEF ContextOf
      <4>2. m \in live /\ m # n
        BY <2>2, <4>1 DEF Inv, HeapOK
      <4> QED BY <1>14, <3>3, <4>2
    <3> QED BY <3>1, <3>2, <3>3
  <2>3. \A k \in Of("context", heap) : h[k].name = heap[k].name
    BY <1>13 DEF Of
  <2>4. \A m \in DOMAIN heap : ContextOf(heap, m) \in live' \ {c} =>
          /\ h[m].on = heap[m].on /\ (m \in listed <=> m \in listed')
          /\ m \in listed => Masked(Text(h[m]), clashed') = Masked(Text(heap[m]), clashed')
    BY <1>1, <1>13, <2>2
  <2>5. Of("context", h) \cap live' \subseteq (Of("context", heap) \cap live) \cup {c}
    BY <1>1, <1>13
  <2> HIDE DEF c
  <2> QED BY <1>1, <1>11, <1>13, <2>1, <2>3, <2>4, <2>5, ServedKeeps, ApplyFacts
<1> QED BY <1>13, <1>15, <1>16, <1>17, ApplyCloses

LEMMA ApplyKeeps ==
  ASSUME Inv, Apply
  PROVE  Inv'
<1>1. CASE ApplyRename
  <2>1. heap[job.id].kind \in Named
    BY <1>1, RenameFacts DEF ApplyRename
  <2> QED BY <1>1, <2>1, ApplyRenameContextKeeps, ApplyRenameExtensionKeeps DEF Named
<1>2. ApplySet \/ ApplyMove \/ ApplyUpdate \/ ApplyRename \/ ApplyDelete
  BY DEF Apply
<1> QED BY <1>1, <1>2, ApplySetKeeps, ApplyMoveKeeps, ApplyUpdateKeeps, ApplyDeleteKeeps

-----------------------------------------------------------------------------
(***************************************************************************)
(* The theorems.                                                           *)
(***************************************************************************)
(* A call that clears what it matched leaves less in an object than its    *)
(* row says; what is left to be done in memory is still what it was.       *)
LEMMA HuntKeeps ==
  ASSUME Inv, Hunt
  PROVE  Inv'
<1>1. PICK n \in listed, says \in Contents :
        /\ heap[n].kind = "condition" /\ <<heap[n].says, says>> \in Clears
        /\ heap' = [heap EXCEPT ![n].says = says]
  BY DEF Hunt
<1>2. /\ ~noProceed /\ UNCHANGED maps
      /\ UNCHANGED <<disk, live, listed, contextNames, allNames, ownNames, noProceed, full, job,
                     requests, clashed, strays>>
  BY DEF Hunt, maps
<1> DEFINE h == [heap EXCEPT ![n].says = says]
<1>3. IsTable(heap) /\ n \in DOMAIN heap /\ \A m \in DOMAIN heap : heap[m] \in Items
  BY Fields DEF Inv, HeapOK
<1>4. /\ DOMAIN h = DOMAIN heap /\ h = [m \in DOMAIN heap |-> h[m]] /\ h[n].says = says
      /\ \A m \in DOMAIN heap :
           /\ h[m] \in Items /\ h[m].kind = heap[m].kind /\ h[m].up = heap[m].up
           /\ h[m].name = heap[m].name /\ h[m].pos = heap[m].pos /\ h[m].on = heap[m].on
           /\ m # n => h[m] = heap[m]
  BY <1>3 DEF Items
<1> HIDE DEF h
<1>5. HeapOK' /\ NamesOK'
  <2>1. heap' = h
    BY <1>1 DEF h
  <2> QED BY <1>2, <1>4, <2>1, ObjectsChange DEF Inv
<1>6. ServedOK'
  BY <1>2 DEF ServedOK
<1>7. Underway'
  <2>1. CASE job.op = "load"
    BY <1>2, <2>1 DEF Underway
  <2>2. ASSUME NEW items, IsTable(items), Dialplan(items, strays), MemoryIs(items), Pending(items)
        PROVE  MemoryIs(items)' /\ Pending(items)'
    <3>1. /\ heap' = h /\ DOMAIN heap' = DOMAIN heap /\ live \subseteq DOMAIN heap
          /\ \A m \in live : h[m].kind = heap[m].kind /\ h[m].up = heap[m].up
      BY <1>1, <1>4 DEF h, Inv, HeapOK
    <3>2. ASSUME NEW m \in live PROVE Like(h[m], items[m], clashed, strays, noProceed)
      <4>1. Like(heap[m], items[m], clashed, strays, noProceed)
        BY <2>2 DEF MemoryIs
      <4>2. CASE m # n
        BY <1>4, <3>1, <3>2, <4>1, <4>2
      <4>3. CASE m = n
        <5>1. <<items[n].says, says>> \in Clears
          <6>1. items[n].says = heap[n].says \/ <<items[n].says, heap[n].says>> \in Clears
            BY <1>1, <4>1, <4>3 DEF Like
          <6>2. \A a, b, c : <<a, b>> \in Clears /\ <<b, c>> \in Clears => <<a, c>> \in Clears
            <7> SUFFICES ASSUME NEW a, NEW b, NEW c, <<a, b>> \in Clears, <<b, c>> \in Clears
                         PROVE  <<a, c>> \in Clears
              OBVIOUS
            <7>1. <<a, b>>[2] = <<b, c>>[1] /\ <<a, b>>[1] = a /\ <<b, c>>[2] = c
              OBVIOUS
            <7> QED BY <7>1, RequestsAssumption
          <6> QED BY <1>1, <6>1, <6>2
        <5>2. ListOf(h[n]) = ListOf(heap[n])
          BY <1>4, <1>3 DEF ListOf
        <5> QED BY <1>1, <1>2, <1>3, <1>4, <4>1, <4>3, <5>1, <5>2 DEF Like
      <4> QED BY <4>2, <4>3
    <3>3. MemoryIs(items)'
      <4>1. \A m \in live : Like(h[m], items[m], clashed', strays', noProceed')
        BY <1>2, <3>2
      <4>2. \A m \in live : h[m].kind # "context" => m \in listed
        BY <2>2, <3>1 DEF MemoryIs
      <4>3. live' = DOMAIN items
        BY <1>2, <2>2 DEF MemoryIs
      <4> QED BY <1>2, <3>1, <4>1, <4>2, <4>3 DEF MemoryIs
    <3>4. Pending(items)'
      <4>1. \A m \in live : ListOf(h[m]) = ListOf(heap[m])
        BY <3>1 DEF ListOf
      <4> QED BY <1>2, <2>2, <3>1, <4>1 DEF Pending
    <3> QED BY <3>3, <3>4
  <2>3. CASE \E items : IsTable(items) /\ Dialplan(items, strays) /\ MemoryIs(items) /\ Pending(items)
    BY <1>2, <2>2, <2>3 DEF Underway
  <2> QED BY <2>1, <2>3 DEF Inv, Underway
<1> QED BY <1>2, <1>5, <1>6, <1>7 DEF Inv

LEMMA InitKeeps ==
  ASSUME Init
  PROVE  Inv
<1>1. IsTable(disk) /\ Dialplan(disk, strays)
  <2>1. disk \in Loaded /\ strays = {}
    BY DEF Init
  <2> QED BY <2>1, LoadedAssumption
<1>2. heap = <<>> /\ DOMAIN heap = {} /\ live = {} /\ listed = {} /\ ownNames = <<>>
  BY DEF Init
<1>3. \A S : <<>> \in [{} -> S]
  OBVIOUS
<1>4. IsTable(heap)
  BY <1>2, <1>3 DEF IsTable
<1>5. HeapOK
  BY <1>2, <1>4 DEF HeapOK, Rooted
<1>6. Of("context", heap) = {} /\ Of("extension", heap) = {}
  BY <1>2 DEF Of
<1>7. NamesOK
  <2>1. ownNames \in [{} -> [Names -> {Top} \cup {}]]
    BY <1>2, <1>3
  <2>2. /\ contextNames = [x \in Names |-> Top] /\ allNames = [x \in Names |-> Top]
    BY DEF Init
  <2> QED BY <1>2, <1>6, <2>1, <2>2 DEF NamesOK
<1>8. ServedOK
  BY <1>6 DEF ServedOK
<1>9. requests \in 0 .. MaxRequests /\ clashed \in BOOLEAN /\ noProceed \in BOOLEAN
  <2>1. requests = 0
    BY DEF Init
  <2>2. requests \in 0 .. MaxRequests
    BY <2>1, LoadedAssumption
  <2>3. clashed = FALSE /\ noProceed \in BOOLEAN
    BY Zenon DEF Init
  <2> QED BY <2>2, <2>3
<1>10. Underway
  <2>1. job = [op |-> "load"]
    BY DEF Init
  <2>2. job.op = "load"
    BY <2>1
  <2> QED BY <2>2 DEF Underway
<1> QED BY <1>1, <1>5, <1>7, <1>8, <1>9, <1>10 DEF Inv

LEMMA StepKeeps ==
  ASSUME Inv, [Next]_vars
  PROVE  Inv'
<1>1. CASE UNCHANGED vars
  <2>1. UNCHANGED <<disk, heap, live, listed, contextNames, allNames, ownNames, noProceed,
                    full, job, requests, clashed, strays>>
    BY <1>1 DEF vars, maps
  <2>2. HeapOK' /\ NamesOK' /\ ServedOK'
    BY <2>1 DEF Inv, HeapOK, NamesOK, ServedOK
  <2>3. \A items : (MemoryIs(items) => MemoryIs(items)') /\ (Pending(items) => Pending(items)')
    BY <2>1 DEF MemoryIs, Like, Pending
  <2>4. Underway'
    BY <2>1, <2>3 DEF Inv, Underway
  <2> QED BY <2>1, <2>2, <2>4 DEF Inv
<1>2. CASE Next
  BY <1>2, StartKeeps, AdministerKeeps, ApplyKeeps, HuntKeeps, RestartKeeps DEF Next
<1> QED BY <1>1, <1>2

(* The inductive invariant: what the tables say, what the objects and the  *)
(* maps say, and how far the two are from each other while the statement   *)
(* of a request has been executed and the memory not yet changed.          *)
THEOREM InvAlways == Spec => []Inv
<1>1. Init => Inv
  BY InitKeeps
<1>2. Inv /\ [Next]_vars => Inv'
  BY StepKeeps
<1> QED BY <1>1, <1>2, PTL DEF Spec

(* Rows and objects are of known kinds and ordered ones have positions     *)
(* from 1, whatever is set, moved, switched, renamed or deleted            *)
(* (db/dialplanDb.go) and wherever the process stops; from 0 in the lists  *)
(* that something was sent to a negative position of.                      *)
THEOREM TypeCorrect == Spec => []TypeOK
<1>1. ASSUME Inv PROVE TypeOK
  <2>1. \A n \in DOMAIN disk : disk[n].kind \in Ordered =>
          disk[n].pos > 0 \/ (disk[n].pos = 0 /\ ListOf(disk[n]) \in strays)
    <3>1. \A n \in DOMAIN disk : disk[n].pos \in Int
      BY <1>1, Fields DEF Inv, Items
    <3>2. InOrder(disk, strays)
      BY <1>1 DEF Inv, Dialplan
    <3> QED BY <3>1, <3>2 DEF InOrder
  <2>2. \A kind : Of(kind, heap) \subseteq Ids
    BY <1>1 DEF Inv, HeapOK, IsTable, Of
  <2>3. /\ contextNames \in [Names -> {Top} \cup Ids] /\ allNames \in [Names -> {Top} \cup Ids]
        /\ \A c \in DOMAIN ownNames : ownNames[c] \in [Names -> {Top} \cup Ids]
    BY <1>1, <2>2 DEF Inv, NamesOK
  <2> QED BY <1>1, <2>1, <2>3 DEF TypeOK, Inv, HeapOK
<1> QED BY <1>1, InvAlways, PTL

(* When no request is under way, the objects that calls are matched with   *)
(* (pbxcache/dialplan.go) are the rows of the tables, in the maps they are *)
(* reached by, except for what is named in IsRow: no sequence of requests, *)
(* calls and restarts makes the memory lose an item, keep a deleted one or *)
(* disagree about its switch, about its place, unless its list had one     *)
(* sent to a negative place, or about its contents, unless a call cleared  *)
(* them.                                                                   *)
THEOREM MemoryStaysDatabase == Spec => []MemoryIsDatabase
<1>1. ASSUME Inv, Idle PROVE
        /\ live = DOMAIN disk
        /\ \A n \in live : IsRow(heap[n], disk[n])
        /\ \A n \in live : heap[n].kind # "context" => n \in listed
  <2>1. MemoryIs(disk)
    BY <1>1, IdleIsInStep DEF Idle
  <2>2. ASSUME NEW a, NEW b, Like(a, b, clashed, strays, noProceed) PROVE IsRow(a, b)
    BY <2>2 DEF Like, IsRow
  <2> QED BY <2>1, <2>2 DEF MemoryIs
<1>2. Inv => MemoryIsDatabase
  BY <1>1 DEF MemoryIsDatabase
<1> QED BY <1>2, InvAlways, PTL

(* No two items of one list have one position, in any sequence of          *)
(* insertions, deletions and moves (Move* of db/dialplanDb.go and the      *)
(* loops after them): the order of the XML is the one the administrators   *)
(* gave, in every list of which nothing was sent to a negative place.      *)
THEOREM OrderIsAlwaysGiven == Spec => []OrderIsGiven
<1>1. ASSUME Inv, Idle, NEW n \in live, heap[n].kind \in Ordered, ListOf(heap[n]) \notin strays,
             NEW m \in Siblings(heap, n) \cap live, heap[m].pos = heap[n].pos
      PROVE  m = n
  <2>1. heap[m].kind = heap[n].kind /\ heap[m].up = heap[n].up
    BY DEF Siblings
  <2>2. ListOf(heap[m]) = ListOf(heap[n])
    BY <2>1 DEF ListOf
  <2>3. /\ n \in DOMAIN disk /\ m \in DOMAIN disk
        /\ \A k \in {n, m} : /\ disk[k].kind = heap[k].kind /\ disk[k].up = heap[k].up
                             /\ disk[k].pos = heap[k].pos
    BY <1>1, <2>2, IdleIsInStep DEF Idle
  <2>4. m \in Siblings(disk, n) /\ ListOf(disk[n]) = ListOf(heap[n])
    BY <2>1, <2>3 DEF Siblings, ListOf
  <2> QED BY <1>1, <2>3, <2>4 DEF Inv, Dialplan, InOrder
<1>2. Inv => OrderIsGiven
  BY <1>1 DEF OrderIsGiven
<1> QED BY <1>2, InvAlways, PTL

(* The XML of a context that is kept whole (CacheFullXML) shows what the   *)
(* objects show, but for the days of the month, after every request that   *)
(* changes one of its items.                                               *)
THEOREM FullXMLStaysCurrent == Spec => []FullXMLIsCurrent
<1>1. \A i : Unnamed(i) = Masked(i, clashed)
  BY DEF Unnamed, Masked
<1>2. ASSUME Inv, noProceed, NEW c \in Of("context", heap) \cap live
      PROVE  LET now == {Line(heap[n]) : n \in Shown(heap, listed, c)}
             IN /\ full[c].name = heap[c].name
                /\ {Unnamed(i) : i \in full[c].items} = {Unnamed(Written(i)) : i \in now}
  <2> DEFINE now == {Line(heap[n]) : n \in Shown(heap, listed, c)}
             xml == Rendered(heap, listed, c)
  <2>1. /\ full[c].name = xml.name
        /\ {Masked(i, clashed) : i \in full[c].items} = {Masked(i, clashed) : i \in xml.items}
    BY <1>2 DEF Inv, ServedOK, Fresh
  <2>2. xml.name = heap[c].name /\ xml.items = {Written(i) : i \in now}
    BY DEF Rendered
  <2> HIDE DEF now, xml
  <2>3. {Masked(i, clashed) : i \in xml.items} = {Masked(Written(i), clashed) : i \in now}
    BY <2>2
  <2> QED BY <1>1, <2>1, <2>2, <2>3 DEF now
<1>3. Inv => FullXMLIsCurrent
  BY <1>2 DEF FullXMLIsCurrent
<1>4. []Inv => []FullXMLIsCurrent
  BY <1>3, PTL
<1> QED BY <1>4, InvAlways, PTL

(* The map of the contexts (Dialplans.Contexts.byName) leads from a name   *)
(* to the context that has it and from every other name elsewhere, after   *)
(* every renaming and deletion.                                            *)
THEOREM ContextsAreAlwaysFound == Spec => []ContextsAreFound
<1>1. Inv => ContextsAreFound
  BY DEF Inv, NamesOK, ContextsAreFound
<1> QED BY <1>1, InvAlways, PTL
=============================================================================
