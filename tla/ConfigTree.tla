----------------------------- MODULE ConfigTree -----------------------------
(***************************************************************************)
(* The configurations CustomPBX keeps for FreeSWITCH: rows in a tree under *)
(* the configuration's own row.  A document of FreeSWITCH is imported row  *)
(* by row, without a transaction, while administrators add, switch, delete *)
(* and truncate rows; FreeSWITCH asks for the result over xml_curl.  The   *)
(* process may stop in the middle of an import, an INSERT may fail.        *)
(* A row is the path of names that leads to it, <<table, number>> each,    *)
(* from the configuration's row on.                                        *)
(***************************************************************************)
EXTENDS Integers, Sequences, FiniteSets, SequencesExt, ConfigTables

CONSTANTS
  Scopes,      \* sets of configurations, one of which a behaviour looks at
  Copies,      \* rows of one table under a configuration looked at alone (bound)
  MaxFaults,   \* failed statements and stops of the process (bound)
  MaxEdits     \* requests of administrators that change something (bound)

VARIABLES
  scope,       \* the configurations of this behaviour
  rows,        \* the rows of the database
  off,         \* those that are not enabled
  request,     \* what is imported: which document, and on which terms
  pending,     \* configurations the request has yet to import
  importing,   \* the configuration being imported, or NoConf
  todo,        \* the rows of its document that are yet to be inserted
  dead,        \* rows deleted since the request began: their ids dangle
  failed,      \* rows the importer skipped
  whole,       \* configurations whose import ran to its end, since then
  faults,      \* bound: MaxFaults
  edits        \* bound: MaxEdits

import == <<request, pending, importing, todo, failed, whole>>
vars   == <<scope, rows, off, import, dead, faults, edits>>

NoConf == "none"
Documents == {"full", "bare", "empty"}

Row(c)     == <<<<c, 1>>>>
Table(i)   == Last(i)[1]
Within(i)  == {j \in rows : IsPrefix(i, j)}
Tables     == DOMAIN Schema
Configurations == DOMAIN GetConfigSection

\* A configuration's layouts are imported along with the conferences.
ASSUME ConfigAssumption ==
  /\ \A s \in Scopes : IsFiniteSet(s) /\ s \subseteq Configurations
  /\ \A s \in Scopes : "Conference" \in s => "ConferenceLayouts" \in s
  /\ Copies \in Nat /\ MaxFaults \in Nat /\ MaxEdits \in Nat

\* The configuration a row's table belongs to, wherever the row is filed.
Home(t) == LET up == Schema[t] IN
           IF up \notin Tables THEN up ELSE
           IF Schema[up] \notin Tables THEN Schema[up] ELSE Schema[Schema[up]]

(***************************************************************************)
(* Documents.  A full one has rows of every table, a bare one only those   *)
(* at the top, an empty one is what "from scratch" imports.                *)
(***************************************************************************)
Siblings(i) == 1 .. IF Len(i) = 1 /\ Cardinality(scope) = 1 THEN Copies ELSE 1

Below(places) == UNION {{Append(i, <<t, n>>) : t \in {u \in Tables : Schema[u] = Table(i)},
                                               n \in Siblings(i)} : i \in places}

Document(c, kind) ==
  LET top  == Below({Row(c)})
      next == Below(top)
  IN CASE kind = "empty" -> {}
       [] kind = "bare"  -> top
       [] kind = "full"  -> top \cup next \cup Below(next)

\* setConfigCallcenter passes over the queues that have no parameters.
Imported(c, kind) ==
  IF c = "Callcenter" /\ kind = "bare"
  THEN {i \in Document(c, kind) : Table(i) # "CallcenterQueue"}
  ELSE Document(c, kind)

\* The setters are called in the order of the walk, depth first.
Importer(c) == IF c = "PostLoadSwitch" THEN InitConfigModule["Switch"]
               ELSE InitConfigModule[c]

Rank(walk, step) == <<CHOOSE k \in DOMAIN walk : walk[k] = step[1], step[2]>>

Earlier(walk, i, j) ==
  \/ IsStrictPrefix(i, j)
  \/ \E k \in DOMAIN i \cap DOMAIN j :
       /\ \A l \in 1 .. k - 1 : i[l] = j[l]
       /\ i[k] # j[k]
       /\ LET a == Rank(walk, i[k])
              b == Rank(walk, j[k])
          IN a[1] < b[1] \/ (a[1] = b[1] /\ a[2] < b[2])

(***************************************************************************)
(* Requests of an import.                                                  *)
(***************************************************************************)
Begin(confs, kind, stops) ==
  /\ importing = NoConf /\ pending = <<>>
  /\ request' = [document |-> kind, stops |-> stops]
  /\ pending' = confs
  /\ dead' = {} /\ failed' = {} /\ whole' = {}
  /\ UNCHANGED <<scope, rows, off, importing, todo, faults, edits>>

\* Mutant: the layouts are imported along with every configuration.
ImportWithLayouts(c, kind) == Begin(<<c, "ConferenceLayouts">>, kind, TRUE)

\* One configuration; that of the conferences brings its layouts along.
ImportConfModules(c, kind) ==
  Begin(IF c = "Conference" THEN <<c, "ConferenceLayouts">> ELSE <<c>>, kind, TRUE)

\* All configurations of FreeSWITCH, or those of a file, in its order.
ImportAll(kind) == \E order \in SetToSeqs(scope) : Begin(order, kind, FALSE)

(* A configuration that cannot be imported ends the request, or is passed. *)
GiveUp == pending' = IF request.stops THEN <<>> ELSE Tail(pending)

\* xml_locate does not answer, or with another configuration.
NotLocated ==
  /\ importing = NoConf /\ pending # <<>>
  /\ faults < MaxFaults /\ faults' = faults + 1
  /\ GiveUp
  /\ UNCHANGED <<scope, rows, off, request, importing, todo, dead, failed, whole, edits>>

(* setConf refuses a configuration that there is; some importers refuse a  *)
(* document with nothing in it, once the configuration's row is made.      *)
StartConf ==
  /\ importing = NoConf /\ pending # <<>>
  /\ LET c == Importer(Head(pending)).row
         doc == Imported(c, request.document)
         refused == doc = {} /\ c \in {"Acl", "Distributor", "PostLoadModules"}
     IN IF Row(c) \in rows
        THEN GiveUp /\ UNCHANGED <<rows, importing, todo>>
        ELSE /\ rows' = rows \cup {Row(c)}
             /\ IF refused
                THEN GiveUp /\ UNCHANGED <<importing, todo>>
                ELSE /\ importing' = c /\ todo' = doc
                     /\ pending' = Tail(pending)
  /\ UNCHANGED <<scope, off, request, dead, failed, whole, faults, edits>>

\* Mutant: a failed row takes the rest of its list with it.
PassedSiblings(i) == {j \in todo : IsPrefix(Front(i), j)}

(* An INSERT fails when the row's parent is gone, when its name is taken,  *)
(* or because the database does not answer; the rows below it are passed.  *)
Passed(i) ==
  {j \in todo : \/ IsPrefix(i, j)
                \/ /\ Table(i) \in {"HttpCacheProfileAWSS3", "HttpCacheProfileAzureBlob"}
                   /\ IsPrefix(Front(i), j)}

InsertNext ==
  \E i \in todo :
    /\ Table(i) \in SetConfRows
    /\ \A j \in todo \ {i} : Earlier(Importer(importing).walk, Tail(i), Tail(j))
    /\ LET possible == i \notin rows /\ \A j \in dead : ~ IsStrictPrefix(j, i)
       IN \/ /\ possible
             /\ rows' = rows \cup {i} /\ todo' = todo \ {i}
             /\ UNCHANGED <<failed, faults>>
          \/ /\ IF possible THEN faults < MaxFaults /\ faults' = faults + 1
                            ELSE faults' = faults
             /\ todo' = todo \ Passed(i)
             /\ failed' = failed \cup {i}
             /\ UNCHANGED rows
    /\ UNCHANGED <<scope, off, request, pending, importing, dead, whole, edits>>

ImportEnds ==
  /\ importing # NoConf /\ todo = {}
  /\ importing' = NoConf
  /\ whole' = whole \cup {importing}
  /\ UNCHANGED <<scope, rows, off, request, pending, todo, dead, failed, faults, edits>>

\* CustomPBX stops: what was imported stays.
Crash ==
  /\ importing # NoConf
  /\ faults < MaxFaults /\ faults' = faults + 1
  /\ importing' = NoConf /\ pending' = <<>> /\ todo' = {}
  /\ UNCHANGED <<scope, rows, off, request, dead, failed, whole, edits>>

(***************************************************************************)
(* Requests of administrators.                                             *)
(***************************************************************************)
Offered(kind, t) == \E r \in Registered : t \in r[kind]

\* configParentFor, and getConferenceLayoutConfig for the layouts.
ConfigParentFor(t) ==
  IF Schema[t] = "ConferenceLayouts" THEN "ConferenceLayouts"
  ELSE GetModuleByName[GetModuleNameByConfName[GetConfNameByStruct[t]]]

Edit == edits < MaxEdits /\ edits' = edits + 1

DropRows(gone) ==
  /\ rows' = rows \ gone
  /\ off' = off \ gone
  /\ dead' = dead \cup gone

\* A new row below one there is; at the top, below the row of the
\* configuration that is looked up for the table.
SetConfig(t, n) ==
  /\ Edit
  /\ Offered("add", t)
  /\ \E parent \in rows :
       /\ IF Schema[t] \in Tables THEN Table(parent) = Schema[t]
                                  ELSE parent = Row(ConfigParentFor(t))
       /\ Append(parent, <<t, n>>) \notin rows
       /\ rows' = rows \cup {Append(parent, <<t, n>>)}
  /\ UNCHANGED <<scope, off, import, dead, faults>>

Switch(i) ==
  /\ Edit
  /\ IF Len(i) = 1 THEN TRUE ELSE Offered("switch", Table(i))
  /\ off' = IF i \in off THEN off \ {i} ELSE off \cup {i}
  /\ UNCHANGED <<scope, rows, import, dead, faults>>

DelConfig(i) ==
  /\ Edit
  /\ Len(i) > 1 /\ Offered("delete", Table(i))
  /\ DropRows(Within(i))
  /\ UNCHANGED <<scope, import, faults>>

TruncateModuleConfig(c) ==
  /\ Edit
  /\ Row(c) \in rows
  /\ DropRows(Within(Row(c)) \cup (IF c = "Conference" THEN Within(Row("ConferenceLayouts")) ELSE {}))
  /\ UNCHANGED <<scope, import, faults>>

\* InitConfigModule with a document that has a name only.
FromScratch(c) ==
  /\ Edit
  /\ Row(c) \notin rows
  /\ rows' = rows \cup {Row(c)}
  /\ whole' = whole \ {c}
  /\ UNCHANGED <<scope, off, request, pending, importing, todo, failed, dead, faults>>

(***************************************************************************)
(* The answer to FreeSWITCH: the rows under each element of the document.  *)
(* A row counts when it is enabled and everything above it is.             *)
(***************************************************************************)
Live(i) == \A k \in 1 .. Len(i) : LET j == SubSeq(i, 1, k) IN j \in rows \ off

\* Mutant: what is above a row is not looked at.
ReachedAlone(c) == {i \in rows \ off : Len(i) > 1 /\ i[1] = <<c, 1>>}

\* The rows an XML function comes by, from the configuration's row down.
Reached(c) == {i \in rows : Live(i) /\ Len(i) > 1 /\ i[1] = <<c, 1>>}

Element(e, i) == [element |-> e, row |-> i]

SofiaGatewayRows ==
  {"SofiaProfileGateway", "SofiaProfileGatewayParameter", "SofiaProfileGatewayVariable"}

(* XMLSofia builds each profile's list of gateways by appending to the list *)
(* of the profiles before it: the profile's last gateway is left, behind    *)
(* those profiles.  (From the fourth profile on the two lists can share an  *)
(* array and a profile would be listed under itself: see the hazards;       *)
(* Copies stays below that.)                                                *)
SofiaGateways(profile) ==
  LET gateways == {i \in rows : Live(i) /\ IsStrictPrefix(profile, i)
                                /\ Table(i) = "SofiaProfileGateway"}
      earlier  == {i \in rows : Live(i) /\ Table(i) = "SofiaProfile"
                                /\ Last(i)[2] < Last(profile)[2]}
  IN IF gateways = {} THEN {}
     ELSE earlier \cup {CHOOSE i \in gateways : \A j \in gateways : Last(j)[2] <= Last(i)[2]}

Served(c) ==
  LET X == GetConfigSection[c]
      plain == {Element(e, i) : e \in DOMAIN X, i \in Reached(c)}
      right == {s \in plain : Table(s.row) = X[s.element]}
  IN IF c # "Sofia" THEN right
     ELSE LET given == UNION {SofiaGateways(i) : i \in {j \in rows : Live(j) /\ Table(j) = "SofiaProfile"}}
          IN {s \in right : \/ s.element \notin SofiaGatewayRows
                             \/ \E i \in given : IsPrefix(i, s.row)}
               \cup {Element("SofiaProfileGateway", i) : i \in given}

(***************************************************************************)
(* The system.                                                             *)
(***************************************************************************)
Init ==
  /\ scope \in Scopes
  /\ rows = {} /\ off = {} /\ dead = {} /\ failed = {} /\ whole = {} /\ todo = {}
  /\ request = [document |-> "empty", stops |-> TRUE]
  /\ pending = <<>> /\ importing = NoConf
  /\ faults = 0 /\ edits = 0

Import ==
  \/ \E kind \in Documents : \/ ImportAll(kind)
                              \/ \E c \in scope : ImportConfModules(c, kind)
  \/ NotLocated \/ StartConf \/ InsertNext \/ ImportEnds \/ Crash

ScopeTables == {t \in Tables : Home(t) \in scope}

Administer ==
  \/ \E t \in ScopeTables, n \in 1 .. Copies : SetConfig(t, n)
  \/ \E i \in rows : Switch(i) \/ DelConfig(i)
  \/ \E c \in scope : TruncateModuleConfig(c) \/ FromScratch(c)

Next == Import \/ Administer

Spec == Init /\ [][Next]_vars

-----------------------------------------------------------------------------
\* Types, with the importer at work on rows of one configuration only.
TypeOK ==
  /\ scope \in Scopes
  /\ off \subseteq rows
  /\ request \in [document : Documents, stops : BOOLEAN]
  /\ importing \in scope \cup {NoConf}
  /\ \A i \in todo : i[1] = <<importing, 1>>
  /\ whole \subseteq scope
  /\ faults \in 0 .. MaxFaults /\ edits \in 0 .. MaxEdits

(* Elements the code is known to answer wrongly: see the hazards.          *)
Misserved == {"PostLoadSwitchCliKeybinding", "PostLoadSwitchDefaultPtime"}
               \cup SofiaGatewayRows

(* Tables whose rows an administrator adds below another configuration:    *)
(* see the hazards.                                                        *)
Misfiled == {"DirectorySetting", "DirectoryProfile", "DirectoryProfileParameter",
             "SangomaCodecSetting"}

(* What the hand-kept lists must agree on, table by table.  The schema: a  *)
(* table is one of the configuration its parent's table is one of.         *)
ASSUME HomesAssumption ==
  /\ Configurations \cap Tables = {} /\ NoConf \notin Configurations
  /\ \A t \in Tables : Home(t) \in Configurations
  /\ \A t \in Tables : Schema[t] \in Tables => Home(Schema[t]) = Home(t)

\* An importer makes its own configuration's row.
ASSUME ImportersAssumption == \A c \in Configurations : Importer(c).row = c

\* A request adds a row below the configuration its table is one of.
ASSUME RequestsAssumption ==
  \A t \in Tables \ Misfiled :
    /\ Schema[t] \notin Misfiled
    /\ Schema[t] \notin Tables => ConfigParentFor(t) = Home(t)

\* The answer has an element for each table of the configuration, read from it.
ASSUME AnswersAssumption ==
  /\ \A t \in Tables \ Misserved : t \in DOMAIN GetConfigSection[Home(t)]
  /\ \A c \in Configurations : \A e \in DOMAIN GetConfigSection[c] \ Misserved :
       e \in Tables /\ Home(e) = c /\ GetConfigSection[c][e] = e

Configured(c) ==
  {Element(Table(i), i) : i \in {j \in rows : Live(j) /\ Len(j) > 1 /\ Home(Table(j)) = c
                                     /\ (Table(j) \in Misfiled => j[1] = <<c, 1>>)}}

(* What FreeSWITCH is given for a configuration is what is configured: the *)
(* row of every enabled place whose whole chain is enabled, wherever it is *)
(* filed, under its own element, and nothing else.  The schema, the        *)
(* importers, the handlers and the XML functions are four lists kept by    *)
(* hand (configAltData.go, altStruct, fsesl.go and the registries) that    *)
(* must agree for this.                                                    *)
ServedAsConfigured ==
  \A c \in scope :
    {s \in Served(c) : s.element \notin Misserved}
      = {s \in Configured(c) : s.element \notin Misserved}

\* A queue of the call centre without parameters: its importer passes over it.
Bare(c, kind, i) ==
  /\ c = "Callcenter" /\ Table(i) = "CallcenterQueue"
  /\ \A j \in Document(c, kind) : ~IsStrictPrefix(i, j)

(* An import that ran to its end left out no row of FreeSWITCH's document, *)
(* but the call centre's queues that have no parameters, the rows below    *)
(* one whose INSERT failed or that an administrator deleted meanwhile, and *)
(* the S3 and Azure rows' later siblings (their continue is that of the    *)
(* profiles' loop).                                                        *)
ImportIsWhole ==
  \A c \in whole : \A i \in Document(c, request.document) \ rows :
    \/ Bare(c, request.document, i)
    \/ \E j \in failed \cup dead :
         \/ IsPrefix(j, i)
         \/ /\ Table(j) \in {"HttpCacheProfileAWSS3", "HttpCacheProfileAzureBlob"}
            /\ IsPrefix(Front(j), i)
=============
