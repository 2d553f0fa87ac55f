-------------------------- MODULE ConfigTreeProofs --------------------------
(***************************************************************************)
(* For every choice of configurations, any number of rows, failed          *)
(* statements, stops and edits: FreeSWITCH is served what is configured,   *)
(* and an import that ran to its end is complete.  What the tables of      *)
(* ConfigTables must agree on is HomesAssumption and the assumptions after *)
(* it, which TLC evaluates.                                                *)
(***************************************************************************)
EXTENDS ConfigTree, FiniteSetTheorems, SequenceTheorems, TLAPS

Names == Tables \cup Configurations
Path  == Seq(Names \X Nat)

(* The places of a configuration's rows: its own row, and below it rows of *)
(* the tables that are the configuration's.                                *)
PlaceOf(c, i) ==
  /\ i \in Path /\ Len(i) > 0
  /\ i[1] = <<c, 1>>
  /\ Len(i) > 1 => Table(i) \in Tables /\ Home(Table(i)) = c

(* A row of a table that the requests do not misfile is in a place of the  *)
(* configuration the table is one of.                                      *)
Filed(i) ==
  /\ i \in Path /\ Len(i) > 0
  /\ Len(i) = 1 => i[1][1] \notin Tables
  /\ Len(i) > 1 => /\ Table(i) \in Tables
                   /\ Table(i) \notin Misfiled => PlaceOf(Home(Table(i)), i)

LEMMA PathLengths ==
  ASSUME NEW k \in Path, Len(k) > 0
  PROVE  Len(k) = 1 \/ Len(k) > 1
<1>1. PICK l \in Nat : l = Len(k)
  BY DEF Path
<1> QED BY <1>1

(* What a row added below another one is.                                  *)
LEMMA AppendRow ==
  ASSUME NEW k \in Path, Len(k) > 0, NEW t \in Tables, NEW n \in Nat
  PROVE  LET i == Append(k, <<t, n>>) IN
         /\ i \in Path /\ Len(i) > 1 /\ i[1] = k[1] /\ Table(i) = t
<1> DEFINE e == <<t, n>>
           i == Append(k, e)
<1>1. e \in Names \X Nat /\ e[1] = t
  BY DEF Names
<1>2. k \in Seq(Names \X Nat) /\ Len(k) \in Nat
  BY DEF Path
<1> HIDE DEF e
<1>3. /\ i \in Seq(Names \X Nat) /\ Len(i) = Len(k) + 1
      /\ i[Len(k) + 1] = e /\ i[1] = k[1]
  BY <1>1, <1>2
<1>4. Last(i) = e
  BY <1>3 DEF Last
<1> QED BY <1>1, <1>2, <1>3, <1>4 DEF Path, Table, e

(* A row of the table below a place of a configuration is one too.         *)
LEMMA PlaceBelow ==
  ASSUME NEW c \in Configurations, NEW k, PlaceOf(c, k),
         NEW t \in Tables, Schema[t] = Table(k), NEW n \in Nat
  PROVE  PlaceOf(c, Append(k, <<t, n>>)) /\ Len(Append(k, <<t, n>>)) > 1
<1>1. k \in Path /\ Len(k) > 0 /\ k[1] = <<c, 1>> /\ Len(k) \in Nat
  BY DEF PlaceOf, Path
<1>2. Home(t) = c
  <2>1. CASE Len(k) = 1
    <3>1. Table(k) = c
      BY <1>1, <2>1 DEF Table, Last
    <3> QED BY <3>1, HomesAssumption DEF Home
  <2>2. CASE Len(k) > 1
    <3>1. Schema[t] \in Tables /\ Home(Schema[t]) = c
      BY <2>2 DEF PlaceOf
    <3> QED BY <3>1, HomesAssumption
  <2>3. Len(k) = 1 \/ Len(k) > 1
    BY <1>1, PathLengths
  <2> QED BY <2>1, <2>2, <2>3
<1> QED BY <1>1, <1>2, AppendRow DEF PlaceOf

LEMMA ConfigurationPlace ==
  ASSUME NEW c \in Configurations
  PROVE  PlaceOf(c, Row(c)) /\ Filed(Row(c)) /\ Len(Row(c)) = 1
<1> DEFINE e == <<c, 1>>
<1>1. e \in Names \X Nat /\ e[1] = c
  BY DEF Names
<1> HIDE DEF e
<1>2. <<e>> \in Seq(Names \X Nat) /\ Len(<<e>>) = 1 /\ <<e>>[1] = e
  BY <1>1
<1>3. Row(c) = <<e>>
  BY DEF Row, e
<1>4. c \notin Tables
  BY HomesAssumption
<1> QED BY <1>1, <1>2, <1>3, <1>4 DEF PlaceOf, Filed, Path, e

LEMMA PlaceIsFiled ==
  ASSUME NEW c \in Configurations, NEW i, PlaceOf(c, i)
  PROVE  Filed(i)
<1>1. i \in Path /\ Len(i) \in Nat /\ i[1] = <<c, 1>>
  BY DEF PlaceOf, Path
<1>2. i[1][1] \notin Tables
  BY <1>1, HomesAssumption
<1> QED BY <1>1, <1>2 DEF PlaceOf, Filed

(* Every row of a document is in a place of its configuration, below the   *)
(* configuration's own row.                                                *)
LEMMA DocumentPlaces ==
  ASSUME NEW c \in Configurations, NEW kind \in Documents,
         NEW i \in Imported(c, kind)
  PROVE  PlaceOf(c, i) /\ Len(i) > 1
<1>1. ASSUME NEW P, \A k \in P : PlaceOf(c, k), NEW j \in Below(P)
      PROVE  PlaceOf(c, j) /\ Len(j) > 1
  <2>1. PICK k \in P : \E t \in {u \in Tables : Schema[u] = Table(k)}, n \in Siblings(k) :
               j = Append(k, <<t, n>>)
    BY DEF Below
  <2>2. PICK t \in Tables, n \in Siblings(k) :
               Schema[t] = Table(k) /\ j = Append(k, <<t, n>>)
    BY <2>1
  <2>3. n \in Nat
    BY ConfigAssumption DEF Siblings
  <2> QED BY <1>1, <2>2, <2>3, PlaceBelow
<1> DEFINE top  == Below({Row(c)})
           next == Below(top)
<1>2. \A j \in top : PlaceOf(c, j) /\ Len(j) > 1
  BY <1>1, ConfigurationPlace
<1>3. \A j \in next : PlaceOf(c, j) /\ Len(j) > 1
  BY <1>1, <1>2
<1>4. \A j \in Below(next) : PlaceOf(c, j) /\ Len(j) > 1
  BY <1>1, <1>3
<1>5. i \in top \cup next \cup Below(next)
  <2>1. i \in Document(c, kind)
    BY DEF Imported
  <2>2. Document(c, kind) \subseteq top \cup next \cup Below(next)
    BY DEF Document, Documents
  <2> QED BY <2>1, <2>2
<1> QED BY <1>2, <1>3, <1>4, <1>5
-----------------------------------------------------------------------------
(* What holds between the steps of an import, whatever the administrators  *)
(* do meanwhile: the importer is at work on places of its configuration,   *)
(* and every row is filed.                                                 *)
Orderly ==
  /\ pending \in Seq(scope)
  /\ importing = NoConf => todo = {}
  /\ \A i \in todo : PlaceOf(importing, i) /\ Len(i) > 1
  /\ \A i \in rows : Filed(i)

LEMMA ScopeFacts ==
  ASSUME TypeOK
  PROVE  /\ scope \subseteq Configurations /\ IsFiniteSet(scope)
         /\ NoConf \notin scope
         /\ "Conference" \in scope => "ConferenceLayouts" \in scope
<1>1. scope \in Scopes
  BY DEF TypeOK
<1>2. IsFiniteSet(scope)
  BY <1>1, ConfigAssumption
<1>3. scope \subseteq Configurations
  BY <1>1, ConfigAssumption
<1>4. "Conference" \in scope => "ConferenceLayouts" \in scope
  BY <1>1, ConfigAssumption
<1> QED BY <1>2, <1>3, <1>4, HomesAssumption

(* A row that a request adds is filed.                                     *)
LEMMA AddedIsFiled ==
  ASSUME NEW t \in Tables, NEW n \in Nat, NEW parent, Filed(parent),
         IF Schema[t] \in Tables THEN Table(parent) = Schema[t]
                                 ELSE parent = Row(ConfigParentFor(t))
  PROVE  Filed(Append(parent, <<t, n>>))
<1> DEFINE i == Append(parent, <<t, n>>)
<1>1. parent \in Path /\ Len(parent) > 0
  BY DEF Filed
<1>2. i \in Path /\ Len(i) > 1 /\ Table(i) = t
  BY <1>1, AppendRow
<1>3. ASSUME t \notin Misfiled PROVE PlaceOf(Home(t), i)
  <2>1. Home(t) \in Configurations
    BY HomesAssumption
  <2>2. PlaceOf(Home(t), parent) /\ Schema[t] = Table(parent)
    <3>1. CASE Schema[t] \in Tables
      <4>1. Len(parent) # 1
        BY <1>1, <3>1 DEF Filed, Table, Last
      <4>2. Schema[t] \notin Misfiled
        BY <1>3, RequestsAssumption
      <4>3. PlaceOf(Home(Schema[t]), parent)
        BY <1>1, <3>1, <4>1, <4>2, PathLengths DEF Filed
      <4> QED BY <3>1, <4>3, HomesAssumption
    <3>2. CASE Schema[t] \notin Tables
      <4>1. parent = Row(Home(t))
        BY <1>3, <3>2, RequestsAssumption
      <4>2. Home(t) = Schema[t]
        BY <3>2 DEF Home
      <4>3. Table(Row(Home(t))) = Home(t)
        BY DEF Table, Last, Row
      <4> QED BY <2>1, <4>1, <4>2, <4>3, ConfigurationPlace
    <3> QED BY <3>1, <3>2
  <2> HIDE DEF i
  <2> QED BY <2>1, <2>2, PlaceBelow DEF i
<1>4. Len(i) # 1
  BY <1>2 DEF Path
<1> HIDE DEF i
<1>5. Filed(i)
  BY <1>2, <1>3, <1>4 DEF Filed
<1> QED BY <1>5 DEF i

LEMMA OrderlyInit == Init => TypeOK /\ Orderly
BY ConfigAssumption DEF Init, TypeOK, Orderly, Documents

(* The requests of imports keep order.                                     *)
LEMMA OrderlyImport ==
  ASSUME TypeOK, Orderly, Import
  PROVE  TypeOK' /\ Orderly'
<1> USE ScopeFacts
<1>1. ASSUME NEW confs \in Seq(scope), NEW kind \in Documents, NEW stops \in BOOLEAN,
             Begin(confs, kind, stops)
      PROVE  TypeOK' /\ Orderly'
  BY <1>1 DEF Begin, TypeOK, Orderly
<1>2. ASSUME NEW kind \in Documents, ImportAll(kind) PROVE TypeOK' /\ Orderly'
  <2>1. PICK order \in SetToSeqs(scope) : Begin(order, kind, FALSE)
    BY <1>2 DEF ImportAll
  <2>2. Cardinality(scope) \in Nat
    BY FS_CardinalityType
  <2>3. order \in Seq(scope)
    BY <2>2 DEF SetToSeqs
  <2> QED BY <1>1, <2>1, <2>3
<1>3. ASSUME NEW kind \in Documents, NEW c \in scope, ImportConfModules(c, kind)
      PROVE  TypeOK' /\ Orderly'
  <2>1. (IF c = "Conference" THEN <<c, "ConferenceLayouts">> ELSE <<c>>) \in Seq(scope)
    OBVIOUS
  <2> QED BY <1>1, <1>3, <2>1 DEF ImportConfModules
<1>4. pending # <<>> => Head(pending) \in scope /\ Tail(pending) \in Seq(scope)
  BY DEF Orderly
<1>5. GiveUp /\ pending # <<>> /\ UNCHANGED scope => pending' \in Seq(scope')
  BY <1>4 DEF GiveUp
<1>6. ASSUME NotLocated PROVE TypeOK' /\ Orderly'
  <2>1. pending' \in Seq(scope')
    BY <1>5, <1>6 DEF NotLocated
  <2>2. faults' \in 0 .. MaxFaults
    BY <1>6, ConfigAssumption DEF NotLocated, TypeOK
  <2> QED BY <1>6, <2>1, <2>2 DEF NotLocated, TypeOK, Orderly
<1>7. ASSUME StartConf PROVE TypeOK' /\ Orderly'
  <2> DEFINE c == Importer(Head(pending)).row
             doc == Imported(c, request.document)
  <2>1. c \in scope /\ c \in Configurations
    BY <1>4, <1>7, ImportersAssumption DEF StartConf
  <2>2. \A i \in doc : PlaceOf(c, i) /\ Len(i) > 1
    BY <2>1, DocumentPlaces DEF TypeOK
  <2>3. /\ importing = NoConf /\ todo = {}
        /\ pending' \in Seq(scope')
        /\ \/ importing' = NoConf /\ todo' = {}
           \/ importing' = c /\ todo' = doc
        /\ rows' \in {rows, rows \cup {Row(c)}}
        /\ UNCHANGED <<scope, off, request, whole, faults, edits>>
    BY <1>4, <1>5, <1>7 DEF StartConf, Orderly
  <2> HIDE DEF c, doc
  <2>4. \A i \in rows' : Filed(i)
    BY <2>1, <2>3, ConfigurationPlace DEF Orderly
  <2>5. /\ importing' \in scope \cup {NoConf} /\ (importing' = NoConf => todo' = {})
        /\ \A i \in todo' : PlaceOf(importing', i) /\ Len(i) > 1
    BY <2>1, <2>2, <2>3
  <2>6. \A i \in todo' : i[1] = <<importing', 1>>
    BY <2>5 DEF PlaceOf
  <2> QED BY <2>3, <2>4, <2>5, <2>6 DEF TypeOK, Orderly
<1>8. ASSUME InsertNext PROVE TypeOK' /\ Orderly'
  <2>1. PICK i \in todo :
          /\ rows' \in {rows, rows \cup {i}} /\ todo' \subseteq todo
          /\ faults' = faults \/ (faults < MaxFaults /\ faults' = faults + 1)
          /\ UNCHANGED <<scope, off, request, pending, importing, whole, edits>>
    BY <1>8 DEF InsertNext
  <2>2. importing \in Configurations
    BY <2>1 DEF TypeOK, Orderly
  <2>3. Filed(i)
    BY <2>2, PlaceIsFiled DEF Orderly
  <2>4. faults' \in 0 .. MaxFaults
    BY <2>1, ConfigAssumption DEF TypeOK
  <2> QED BY <2>1, <2>3, <2>4 DEF TypeOK, Orderly
<1>9. ASSUME ImportEnds PROVE TypeOK' /\ Orderly'
  BY <1>9 DEF ImportEnds, TypeOK, Orderly
<1>10. ASSUME Crash PROVE TypeOK' /\ Orderly'
  <2>1. faults' \in 0 .. MaxFaults
    BY <1>10, ConfigAssumption DEF Crash, TypeOK
  <2> QED BY <1>10, <2>1 DEF Crash, TypeOK, Orderly
<1> QED BY <1>2, <1>3, <1>6, <1>7, <1>8, <1>9, <1>10 DEF Import

(* The requests of administrators keep order.                              *)
LEMMA OrderlyAdminister ==
  ASSUME TypeOK, Orderly, Administer
  PROVE  TypeOK' /\ Orderly'
<1>1. Edit => edits' \in 0 .. MaxEdits
  BY ConfigAssumption DEF Edit, TypeOK
<1>2. ASSUME NEW gone, DropRows(gone), Edit, UNCHANGED <<scope, import, faults>>
      PROVE  TypeOK' /\ Orderly'
  BY <1>1, <1>2 DEF DropRows, TypeOK, Orderly, import
<1>3. ASSUME NEW t \in ScopeTables, NEW n \in 1 .. Copies, SetConfig(t, n)
      PROVE  TypeOK' /\ Orderly'
  <2>1. t \in Tables /\ n \in Nat
    BY ConfigAssumption DEF ScopeTables
  <2>2. PICK parent \in rows :
          /\ IF Schema[t] \in Tables THEN Table(parent) = Schema[t]
                                     ELSE parent = Row(ConfigParentFor(t))
          /\ rows' = rows \cup {Append(parent, <<t, n>>)}
    BY <1>3 DEF SetConfig
  <2>3. Filed(Append(parent, <<t, n>>))
    BY <2>1, <2>2, AddedIsFiled DEF Orderly
  <2>4. \A i \in rows' : Filed(i)
    BY <2>2, <2>3 DEF Orderly
  <2>5. off' \subseteq rows'
    BY <1>3, <2>2 DEF SetConfig, TypeOK
  <2> QED BY <1>1, <1>3, <2>4, <2>5 DEF SetConfig, TypeOK, Orderly, import
<1>4. ASSUME NEW i \in rows, Switch(i) PROVE TypeOK' /\ Orderly'
  BY <1>1, <1>4 DEF Switch, TypeOK, Orderly, import
<1>5. ASSUME NEW i \in rows, DelConfig(i) PROVE TypeOK' /\ Orderly'
  BY <1>2, <1>5 DEF DelConfig
<1>6. ASSUME NEW c \in scope, TruncateModuleConfig(c) PROVE TypeOK' /\ Orderly'
  BY <1>2, <1>6 DEF TruncateModuleConfig
<1>7. ASSUME NEW c \in scope, FromScratch(c) PROVE TypeOK' /\ Orderly'
  <2>1. Filed(Row(c))
    BY ScopeFacts, ConfigurationPlace
  <2> QED BY <1>1, <1>7, <2>1 DEF FromScratch, TypeOK, Orderly
<1> QED BY <1>3, <1>4, <1>5, <1>6, <1>7 DEF Administer

LEMMA OrderlyAlways == Spec => [](TypeOK /\ Orderly)
<1>1. TypeOK /\ Orderly /\ [Next]_vars => TypeOK' /\ Orderly'
  <2>1. TypeOK /\ Orderly /\ UNCHANGED vars => TypeOK' /\ Orderly'
    BY DEF vars, import, TypeOK, Orderly
  <2> QED BY <2>1, OrderlyImport, OrderlyAdminister DEF Next
<1> QED BY <1>1, OrderlyInit, PTL DEF Spec

(* The types of ConfigTree hold, and every import works on rows of its own *)
(* configuration, for any number of configurations and requests.           *)
THEOREM TypeCorrect == Spec => []TypeOK
BY OrderlyAlways, PTL
-----------------------------------------------------------------------------
(* FreeSWITCH is given what is configured: every enabled row whose chain   *)
(* is enabled, wherever it is filed, under its own element, nothing else;  *)
(* but for the elements and the tables the hazards name.                   *)
THEOREM ServedRight == Spec => []ServedAsConfigured
<1>1. ASSUME TypeOK, Orderly, NEW c \in scope
      PROVE  {s \in Served(c) : s.element \notin Misserved}
               = {s \in Configured(c) : s.element \notin Misserved}
  <2> DEFINE X == GetConfigSection[c]
             plain == {Element(e, i) : e \in DOMAIN X, i \in Reached(c)}
             right == {s \in plain : Table(s.row) = X[s.element]}
             here == {j \in rows : Live(j) /\ Len(j) > 1 /\ Home(Table(j)) = c
                                     /\ (Table(j) \in Misfiled => j[1] = <<c, 1>>)}
  <2>1. c \in Configurations
    BY <1>1, ScopeFacts
  <2>2. \A e, i : Element(e, i).element = e /\ Element(e, i).row = i
    BY DEF Element
  <2>3. {s \in Served(c) : s.element \notin Misserved}
          = {s \in right : s.element \notin Misserved}
    <3> DEFINE given == UNION {SofiaGateways(i) :
                                 i \in {j \in rows : Live(j) /\ Table(j) = "SofiaProfile"}}
               sofia == {s \in right : \/ s.element \notin SofiaGatewayRows
                                       \/ \E i \in given : IsPrefix(i, s.row)}
                          \cup {Element("SofiaProfileGateway", i) : i \in given}
    <3>1. Served(c) = IF c # "Sofia" THEN right ELSE sofia
      BY DEF Served
    <3>2. SofiaGatewayRows \subseteq Misserved /\ "SofiaProfileGateway" \in Misserved
      BY DEF Misserved, SofiaGatewayRows
    <3>3. {s \in sofia : s.element \notin Misserved} = {s \in right : s.element \notin Misserved}
      <4> HIDE DEF right, given
      <4> QED BY <2>2, <3>2
    <3> HIDE DEF right, sofia
    <3> QED BY <3>1, <3>3
  <2>4. ASSUME NEW s \in right, s.element \notin Misserved PROVE s \in Configured(c)
    <3>1. PICK e \in DOMAIN X, i \in Reached(c) : s = Element(e, i)
      BY <2>4
    <3>2. e \notin Misserved /\ Table(i) = X[e]
      BY <2>2, <2>4, <3>1
    <3>3. e \in Tables /\ Home(e) = c /\ X[e] = e
      BY <2>1, <3>1, <3>2, AnswersAssumption
    <3>4. i \in here
      BY <3>1, <3>2, <3>3 DEF Reached
    <3> QED BY <3>1, <3>2, <3>3, <3>4 DEF Configured
  <2>5. ASSUME NEW s \in Configured(c), s.element \notin Misserved PROVE s \in right
    <3>1. PICK i \in here : s = Element(Table(i), i)
      BY DEF Configured
    <3>2. Filed(i) /\ i \in rows /\ Len(i) > 1
      BY <1>1, <3>1 DEF Orderly
    <3>3. Table(i) \in Tables /\ Table(i) \notin Misserved /\ Home(Table(i)) = c
      BY <2>2, <2>5, <3>1, <3>2 DEF Filed
    <3>4. i[1] = <<c, 1>>
      BY <3>1, <3>2, <3>3 DEF Filed, PlaceOf
    <3>5. i \in Reached(c)
      BY <3>1, <3>4 DEF Reached
    <3>6. Table(i) \in DOMAIN X
      BY <3>3, AnswersAssumption
    <3>7. X[Table(i)] = Table(i)
      BY <2>1, <3>3, <3>6, AnswersAssumption
    <3> HIDE DEF X
    <3> QED BY <2>2, <3>1, <3>5, <3>6, <3>7
  <2> HIDE DEF right
  <2> QED BY <2>3, <2>4, <2>5
<1>2. TypeOK /\ Orderly => ServedAsConfigured
  BY <1>1 DEF ServedAsConfigured
<1> QED BY <1>2, OrderlyAlways, PTL
-----------------------------------------------------------------------------
(* The row i is lost with the row j.                                       *)
LostWith(i, j) ==
  \/ IsPrefix(j, i)
  \/ /\ Table(j) \in {"HttpCacheProfileAWSS3", "HttpCacheProfileAzureBlob"}
     /\ IsPrefix(Front(j), i)

Lost(i) == \E j \in failed \cup dead : LostWith(i, j)

(* Why a finished import is complete: of the document being imported every *)
(* row is in the database, to be inserted, or lost with one that failed or *)
(* was deleted; when the import ends none is to be inserted.               *)
NothingForgotten ==
  /\ \A c \in whole : \A i \in Imported(c, request.document) : i \in rows \/ Lost(i)
  /\ importing # NoConf =>
       \A i \in Imported(importing, request.document) : i \in rows \cup todo \/ Lost(i)

(* What a document has does not depend on what is in the database.         *)
LEMMA DocumentsStay ==
  ASSUME UNCHANGED scope
  PROVE  \A c, kind : Imported(c, kind)' = Imported(c, kind)
BY DEF Imported, Document, Below, Siblings, Row, Table

\* In a bare document no row is below another.
LEMMA BareIsFlat ==
  ASSUME NEW c, NEW i \in Document(c, "bare"), NEW j \in Document(c, "bare")
  PROVE  ~IsStrictPrefix(i, j)
<1>1. ASSUME NEW k \in Document(c, "bare")
      PROVE  SubSeq(k, 1, 2) = k /\ Len(k) = 2
  <2>1. PICK t, n : k = Append(Row(c), <<t, n>>)
    BY DEF Document, Below
  <2> DEFINE S == {<<c, 1>>, <<t, n>>}
  <2>2. Row(c) \in Seq(S) /\ Len(Row(c)) = 1 /\ <<t, n>> \in S
    BY DEF Row
  <2> HIDE DEF S
  <2>3. k \in Seq(S) /\ Len(k) = 2
    BY <2>1, <2>2, AppendProperties
  <2> QED BY <2>3, SubSeqFull
<1>2. ASSUME IsPrefix(i, j) PROVE i = j
  <2>1. Len(i) = 2 /\ Len(j) = 2
    BY <1>1
  <2>2. SubSeq(i, 1, 2) = i /\ SubSeq(j, 1, 2) = j
    BY <1>1
  <2> QED BY <1>2, <2>1, <2>2 DEF IsPrefix
<1> QED BY <1>2 DEF IsStrictPrefix

(* An import that ran to its end left out no row of FreeSWITCH's document, *)
(* but for the call centre's queues that have no parameters and the rows   *)
(* lost with a failed INSERT or a deletion meanwhile (or hidden behind one *)
(* of those, among the S3 and Azure rows).                                 *)
THEOREM ImportsAreWhole == Spec => []ImportIsWhole
<1>1. Init => NothingForgotten
  BY DEF Init, NothingForgotten
<1>2. ASSUME TypeOK, Orderly, NothingForgotten, [Next]_vars PROVE NothingForgotten'
  <2>0. ASSUME NEW i \in rows PROVE LostWith(i, i)
    <3>1. i \in Path
      BY <1>2 DEF Orderly, Filed
    <3>2. Len(i) \in Nat
      BY <3>1 DEF Path
    <3> QED BY <3>2 DEF LostWith, IsPrefix
  \* Nothing is taken away, but what is deleted.
  <2>1. ASSUME /\ UNCHANGED <<scope, request, importing>>
               /\ whole' \subseteq whole
               /\ failed \subseteq failed' /\ dead \subseteq dead'
               /\ \A i \in rows : i \in rows' \/ i \in dead'
               /\ \A i \in todo : i \in rows' \cup todo' \/ Lost(i)'
        PROVE  NothingForgotten'
    <3>1. \A i : Lost(i) => Lost(i)'
      BY <2>1 DEF Lost
    <3>2. \A i \in rows : i \in rows' \/ Lost(i)'
      BY <2>0, <2>1 DEF Lost
    <3> HIDE DEF Lost
    <3> QED BY <1>2, <2>1, <3>1, <3>2, DocumentsStay DEF NothingForgotten
  <2>2. ASSUME NEW confs, NEW kind, NEW stops, Begin(confs, kind, stops)
        PROVE  NothingForgotten'
    BY <2>2 DEF Begin, NothingForgotten
  <2>3. ASSUME NotLocated PROVE NothingForgotten'
    BY <2>1, <2>3 DEF NotLocated
  <2>4. ASSUME StartConf PROVE NothingForgotten'
    <3>1. /\ importing = NoConf /\ UNCHANGED <<scope, request, dead, failed, whole>>
          /\ rows \subseteq rows'
          /\ \/ importing' = NoConf
             \/ todo' = Imported(importing', request.document)
      BY <2>4 DEF StartConf
    <3>2. \A i : Lost(i)' <=> Lost(i)
      BY <3>1 DEF Lost
    <3> HIDE DEF Lost
    <3> QED BY <1>2, <3>1, <3>2, DocumentsStay DEF NothingForgotten
  <2>5. ASSUME InsertNext PROVE NothingForgotten'
    <3>1. PICK i \in todo :
            /\ \/ rows' = rows \cup {i} /\ todo' = todo \ {i} /\ UNCHANGED failed
               \/ todo' = todo \ Passed(i) /\ failed' = failed \cup {i} /\ UNCHANGED rows
            /\ UNCHANGED <<scope, request, importing, dead, whole>>
      BY <2>5 DEF InsertNext
    <3>2. ASSUME NEW j \in todo PROVE j \in rows' \cup todo' \/ Lost(j)'
      BY <3>1 DEF Passed, Lost, LostWith
    <3> QED BY <2>1, <3>1, <3>2
  <2>6. ASSUME ImportEnds PROVE NothingForgotten'
    <3>1. /\ todo = {} /\ importing # NoConf /\ importing' = NoConf
          /\ whole' = whole \cup {importing}
          /\ UNCHANGED <<scope, rows, request, dead, failed>>
      BY <2>6 DEF ImportEnds
    <3>2. \A i : Lost(i)' <=> Lost(i)
      BY <3>1 DEF Lost
    <3> HIDE DEF Lost
    <3> QED BY <1>2, <3>1, <3>2, DocumentsStay DEF NothingForgotten
  <2>7. ASSUME Crash PROVE NothingForgotten'
    <3>1. importing' = NoConf /\ UNCHANGED <<scope, rows, request, dead, failed, whole>>
      BY <2>7 DEF Crash
    <3>2. \A i : Lost(i)' <=> Lost(i)
      BY <3>1 DEF Lost
    <3> HIDE DEF Lost
    <3> QED BY <1>2, <3>1, <3>2, DocumentsStay DEF NothingForgotten
  <2>8. ASSUME NEW gone, DropRows(gone), UNCHANGED <<scope, import>> PROVE NothingForgotten'
    BY <2>1, <2>8 DEF DropRows, import
  <2>9. ASSUME Administer PROVE NothingForgotten'
    <3>1. ASSUME NEW t, NEW n, SetConfig(t, n) PROVE NothingForgotten'
      BY <2>1, <3>1 DEF SetConfig, import
    <3>2. ASSUME NEW i, Switch(i) PROVE NothingForgotten'
      BY <2>1, <3>2 DEF Switch, import
    <3>3. ASSUME NEW i, DelConfig(i) PROVE NothingForgotten'
      BY <2>8, <3>3 DEF DelConfig
    <3>4. ASSUME NEW c, TruncateModuleConfig(c) PROVE NothingForgotten'
      BY <2>8, <3>4 DEF TruncateModuleConfig
    <3>5. ASSUME NEW c, FromScratch(c) PROVE NothingForgotten'
      BY <2>1, <3>5 DEF FromScratch
    <3> QED BY <2>9, <3>1, <3>2, <3>3, <3>4, <3>5 DEF Administer
  <2>10. ASSUME UNCHANGED vars PROVE NothingForgotten'
    BY <2>1, <2>10 DEF vars, import
  <2> QED BY <1>2, <2>2, <2>3, <2>4, <2>5, <2>6, <2>7, <2>9, <2>10
          DEF Next, Import, ImportAll, ImportConfModules
<1>3. NothingForgotten => ImportIsWhole
  <2>1. ASSUME NEW c, NEW i \in Document(c, request.document)
        PROVE  i \in Imported(c, request.document) \/ Bare(c, request.document, i)
    <3>1. CASE c = "Callcenter" /\ request.document = "bare" /\ Table(i) = "CallcenterQueue"
      BY <2>1, <3>1, BareIsFlat DEF Bare
    <3>2. CASE ~(c = "Callcenter" /\ request.document = "bare" /\ Table(i) = "CallcenterQueue")
      BY <2>1, <3>2 DEF Imported
    <3> QED BY <3>1, <3>2
  <2> QED BY <2>1 DEF NothingForgotten, ImportIsWhole, Lost, LostWith
<1> QED BY <1>1, <1>2, <1>3, OrderlyAlways, PTL DEF Spec
=============================================================================
