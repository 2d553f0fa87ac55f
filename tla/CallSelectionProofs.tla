------------------------- MODULE CallSelectionProofs -------------------------
(***************************************************************************)
(* Machine-checked proofs about CallSelection: refreshCallStateLocked      *)
(* selects correctly for any calls and any order of the walk.              *)
(***************************************************************************)
EXTENDS CallSelection, TLAPS

(* Every entry of the map has a creation time and a Talking flag. *)
LEMMA EntryType ==
  ASSUME activeCalls \in [Uuids -> CallState \cup {NoCall}], NEW c \in Uuids
  PROVE  /\ activeCalls[c].createdAt \in Times /\ activeCalls[c].createdAt \in Nat
         /\ activeCalls[c].talking \in BOOLEAN
<1>1. activeCalls[c] \in CallState \cup {NoCall}
  OBVIOUS
<1>2. CASE activeCalls[c] \in CallState
  BY <1>2, SelectionAssumption DEF CallState
<1>3. CASE activeCalls[c] = NoCall
  BY <1>3, SelectionAssumption DEF NoCall
<1> QED
  BY <1>1, <1>2, <1>3

(* SetCall, ReplaceCalls and every iteration of the loop keep the types. *)
LEMMA TypeStep == TypeOK /\ [Next]_vars => TypeOK'
<1> SUFFICES ASSUME TypeOK, [Next]_vars
             PROVE  TypeOK'
  OBVIOUS
<1> USE SelectionAssumption DEF TypeOK, Keys
<1>1. ASSUME NEW c \in Uuids, SetCall(c)
      PROVE  TypeOK'
  <2>1. activeCalls' \in [Uuids -> CallState \cup {NoCall}]
    BY <1>1 DEF SetCall
  <2> QED
    BY <1>1, <2>1 DEF SetCall, Walk
<1>2. CASE ReplaceCalls
  BY <1>2 DEF ReplaceCalls, Walk
<1>3. ASSUME NEW c \in Uuids, Visit(c)
      PROVE  TypeOK'
  <2>1. activeCalls[c].createdAt \in Times /\ activeCalls[c].talking \in BOOLEAN
    BY EntryType
  <2>2. /\ callDate' \in Times
        /\ selectedTalkingAt' \in Times
        /\ talking' \in BOOLEAN
    BY <1>3, <2>1 DEF Visit, CreatedAt, IsSelectedTalking
  <2> QED
    BY <1>3, <2>2 DEF Visit
<1>4. CASE UNCHANGED vars
  BY <1>4 DEF vars
<1> QED
  BY <1>1, <1>2, <1>3, <1>4 DEF Next

(* A walk that has just started has visited nothing. *)
LEMMA WalkLoopInv ==
  ASSUME Walk
  PROVE  LoopInv'
<1>1. Visited' = {}
  BY DEF Walk, Visited, Present
<1>2. ~talking' /\ lastUuid' = NoUuid /\ callDate' = 0
  BY DEF Walk
<1> QED
  BY <1>1, <1>2 DEF LoopInv, ShownWith, DirectionOfACandidate, Talks

(* FirstChoice with the map as a parameter. *)
First(m, c, S) ==
  /\ c \in S
  /\ \A d \in S : m[d].createdAt > 0 =>
                    m[c].createdAt > 0 /\ m[c].createdAt <= m[d].createdAt

(* One more call: it is the first choice if it is older, or if it is the   *)
(* first whose age is known; otherwise the first choice stays.             *)
LEMMA FirstChoiceStep ==
  ASSUME NEW m, NEW S, NEW o, NEW c,
         \A d \in S \cup {c} : m[d].createdAt \in Nat,
         First(m, o, S)
  PROVE  IF m[o].createdAt = 0 \/ (m[c].createdAt > 0 /\ m[c].createdAt < m[o].createdAt)
         THEN First(m, c, S \cup {c}) ELSE First(m, o, S \cup {c})
BY DEF First

(* The loop's invariant, said with First about the calls in S. *)
Summary(m, S, talk, date, last, dir, sel) ==
  LET T == {c \in S : m[c].talking} IN
  /\ talk <=> T # {}
  /\ S = {} => last = NoUuid /\ date = 0
  /\ S # {} => /\ First(m, last, IF talk THEN T ELSE S)
               /\ \E c \in S : First(m, c, S) /\ date = m[c].createdAt
               /\ dir = last \/ (talk /\ First(m, dir, S))
  /\ talk => sel = m[last].createdAt

(* The loop's invariant is the summary of the calls visited. *)
LEMMA LoopInvIsSummary ==
  LoopInv <=> Summary(activeCalls, Visited, talking, callDate, lastUuid,
                      direction, selectedTalkingAt)
BY DEF LoopInv, Summary, First, FirstChoice, CreatedAt, Talks, ShownWith,
       DirectionOfACandidate

(* One iteration keeps the summary: what was right for the calls visited   *)
(* so far is right when one more has been visited.                         *)
LEMMA SummaryStep ==
  ASSUME NEW m, NEW S, NEW c, c \notin S,
         \A d \in S \cup {c} : m[d].createdAt \in Nat /\ m[d].talking \in BOOLEAN,
         NEW talk \in BOOLEAN, NEW date, NEW last, NEW dir, NEW sel,
         Summary(m, S, talk, date, last, dir, sel),
         NEW oldest \in BOOLEAN, NEW selected \in BOOLEAN,
         oldest <=> date = 0 \/ (m[c].createdAt > 0 /\ m[c].createdAt < date),
         selected <=> /\ m[c].talking
                      /\ ~talk \/ sel = 0 \/ (m[c].createdAt > 0 /\ m[c].createdAt < sel)
  PROVE  Summary(m, S \cup {c}, talk \/ selected,
                 IF oldest THEN m[c].createdAt ELSE date,
                 IF selected \/ (oldest /\ ~talk) THEN c ELSE last,
                 IF selected \/ oldest THEN c ELSE dir,
                 IF selected THEN m[c].createdAt ELSE sel)
<1> DEFINE T == {d \in S : m[d].talking}
           R == S \cup {c}
           U == {d \in R : m[d].talking}
           talk1 == talk \/ selected
           date1 == IF oldest THEN m[c].createdAt ELSE date
           last1 == IF selected \/ (oldest /\ ~talk) THEN c ELSE last
           dir1  == IF selected \/ oldest THEN c ELSE dir
           sel1  == IF selected THEN m[c].createdAt ELSE sel
<1>1. /\ m[c].talking => U = T \cup {c}
      /\ ~m[c].talking => U = T
  OBVIOUS
<1>2. talk <=> T # {}
  BY DEF Summary
<1>3. talk1 <=> U # {}
  <2>1. CASE talk
    BY <1>1, <1>2, <2>1
  <2>2. CASE ~talk
    BY <1>1, <1>2, <2>2
  <2> QED
    BY <2>1, <2>2
<1>4. PICK o : \/ S = {}
               \/ o \in S /\ First(m, o, S) /\ date = m[o].createdAt
  BY DEF Summary
<1>5. /\ oldest => First(m, c, R)
      /\ ~oldest => S # {} /\ First(m, o, R) /\ o \in R
  <2>1. CASE S = {}
    <3>1. oldest
      BY <2>1 DEF Summary
    <3>2. First(m, c, R)
      BY <2>1 DEF First
    <3> QED
      BY <3>1, <3>2
  <2>2. CASE S # {}
    BY <2>2, <1>4, FirstChoiceStep
  <2> QED
    BY <2>1, <2>2
<1>6. \E d \in R : First(m, d, R) /\ date1 = m[d].createdAt
  BY <1>4, <1>5
<1>7. CASE talk
  <2>1. First(m, last, T) /\ sel = m[last].createdAt /\ talk1
    BY <1>2, <1>7 DEF Summary
  <2>2. ASSUME m[c].talking
        PROVE  First(m, last1, U)
    <3>1. \A d \in T \cup {c} : m[d].createdAt \in Nat
      OBVIOUS
    <3>2. last \in T
      BY <2>1 DEF First
    <3>3. selected <=> m[last].createdAt = 0
                       \/ (m[c].createdAt > 0 /\ m[c].createdAt < m[last].createdAt)
      BY <1>7, <2>1, <2>2
    <3>4. IF selected THEN First(m, c, T \cup {c}) ELSE First(m, last, T \cup {c})
      BY <2>1, <3>1, <3>3, FirstChoiceStep
    <3>5. T \cup {c} = U
      BY <1>1, <2>2
    <3> QED
      BY <1>7, <3>4, <3>5
  <2>3. ASSUME ~m[c].talking
        PROVE  First(m, last1, U)
    <3>1. ~selected /\ U = T
      BY <1>1, <2>3
    <3> QED
      BY <1>7, <2>1, <3>1
  <2>4. First(m, last1, IF talk1 THEN U ELSE R) /\ (talk1 => sel1 = m[last1].createdAt)
    <3>1. First(m, last1, U)
      BY <1>7, <2>1, <2>2, <2>3
    <3>2. sel1 = m[last1].createdAt
      BY <1>7, <2>1
    <3> QED
      BY <2>1, <3>1, <3>2
  <2>5. dir1 = last1 \/ (talk1 /\ First(m, dir1, R))
    <3>1. CASE selected
      BY <3>1
    <3>2. CASE ~selected /\ oldest
      BY <3>2, <1>5, <2>1
    <3>3. CASE ~selected /\ ~oldest
      <4>1. dir = last \/ First(m, dir, S)
        BY <1>5, <3>3 DEF Summary
      <4>2. First(m, dir, S) => First(m, dir, R)
        <5> SUFFICES ASSUME First(m, dir, S)
                     PROVE  First(m, dir, R)
          OBVIOUS
        <5>1. m[dir].createdAt = m[o].createdAt
          BY <1>4, <1>5, <3>3 DEF First
        <5> QED
          BY <1>4, <1>5, <3>3, <5>1, FirstChoiceStep
      <4> QED
        BY <1>7, <2>1, <3>3, <4>1, <4>2
    <3> QED
      BY <3>1, <3>2, <3>3
  <2> QED
    BY <1>3, <1>6, <2>4, <2>5 DEF Summary
<1>8. CASE ~talk
  <2>1. T = {} /\ (S # {} => First(m, last, S) /\ dir = last)
    BY <1>2, <1>8 DEF Summary
  <2>2. CASE selected
    <3>1. U = {c}
      BY <1>1, <2>1, <2>2
    <3>2. First(m, c, U)
      BY <3>1 DEF First
    <3> QED
      BY <1>3, <1>6, <2>2, <3>2 DEF Summary
  <2>3. CASE ~selected
    <3>1. ~talk1 /\ U = {}
      BY <1>3, <1>8, <2>3
    <3>2. First(m, last1, R) /\ dir1 = last1
      <4>1. CASE oldest
        BY <1>5, <1>8, <2>3, <4>1
      <4>2. CASE ~oldest
        <5>1. First(m, last, S) /\ dir = last /\ First(m, o, S)
          BY <1>4, <1>5, <2>1, <4>2
        <5>2. m[last].createdAt = m[o].createdAt
          BY <5>1 DEF First
        <5>3. First(m, last, R)
          BY <1>4, <1>5, <4>2, <5>1, <5>2, FirstChoiceStep
        <5> QED
          BY <2>3, <4>2, <5>1, <5>3
      <4> QED
        BY <4>1, <4>2
    <3> QED
      BY <1>3, <1>6, <3>1, <3>2 DEF Summary
  <2> QED
    BY <2>2, <2>3
<1> QED
  BY <1>7, <1>8

(* An iteration of refreshCallStateLocked keeps the loop's invariant. *)
LEMMA VisitLoopInv ==
  ASSUME TypeOK, LoopInv, NEW c \in Uuids, Visit(c)
  PROVE  LoopInv'
<1>1. c \notin Visited /\ Visited' = Visited \cup {c} /\ Visited \subseteq Uuids
  BY DEF Visit, Visited, Present, Keys, TypeOK
<1>2. \A d \in Visited \cup {c} :
        activeCalls[d].createdAt \in Nat /\ activeCalls[d].talking \in BOOLEAN
  BY <1>1, EntryType DEF TypeOK
<1>3. Summary(activeCalls, Visited, talking, callDate, lastUuid, direction,
              selectedTalkingAt)
  BY LoopInvIsSummary
<1>4. IsOldest(c) \in BOOLEAN /\ IsSelectedTalking(c) \in BOOLEAN /\ talking \in BOOLEAN
  BY <1>2 DEF IsOldest, IsSelectedTalking, TypeOK
<1>5. Summary(activeCalls, Visited \cup {c}, talking', callDate', lastUuid',
              direction', selectedTalkingAt')
  <2>1. IsOldest(c) <=> \/ callDate = 0
                        \/ /\ activeCalls[c].createdAt > 0
                           /\ activeCalls[c].createdAt < callDate
    BY DEF IsOldest, CreatedAt
  <2>2. IsSelectedTalking(c) <=>
          /\ activeCalls[c].talking
          /\ \/ ~talking \/ selectedTalkingAt = 0
             \/ /\ activeCalls[c].createdAt > 0
                /\ activeCalls[c].createdAt < selectedTalkingAt
    BY DEF IsSelectedTalking, CreatedAt
  <2>3. Summary(activeCalls, Visited \cup {c}, talking \/ IsSelectedTalking(c),
                IF IsOldest(c) THEN activeCalls[c].createdAt ELSE callDate,
                IF IsSelectedTalking(c) \/ (IsOldest(c) /\ ~talking) THEN c ELSE lastUuid,
                IF IsSelectedTalking(c) \/ IsOldest(c) THEN c ELSE direction,
                IF IsSelectedTalking(c) THEN activeCalls[c].createdAt
                                        ELSE selectedTalkingAt)
    BY <1>1, <1>2, <1>3, <1>4, <2>1, <2>2, SummaryStep
  <2> QED
    BY <2>3 DEF Visit, CreatedAt
<1>6. Summary(activeCalls, Visited, talking, callDate, lastUuid, direction,
              selectedTalkingAt)'
  BY <1>1, <1>5 DEF Visit
<1> QED
  BY <1>6, LoopInvIsSummary, PTL

(* The loop's invariant is inductive. *)
LEMMA LoopInvStep == TypeOK /\ LoopInv /\ [Next]_vars => LoopInv'
<1> SUFFICES ASSUME TypeOK, LoopInv, [Next]_vars
             PROVE  LoopInv'
  OBVIOUS
<1>1. CASE ReplaceCalls \/ \E c \in Uuids : SetCall(c)
  BY <1>1, WalkLoopInv DEF ReplaceCalls, SetCall
<1>2. CASE \E c \in Uuids : Visit(c)
  BY <1>2, VisitLoopInv
<1>3. CASE UNCHANGED vars
  BY <1>3 DEF vars, LoopInv, ShownWith, DirectionOfACandidate, Visited, Present,
              Keys, Talks, FirstChoice, CreatedAt
<1> QED
  BY <1>1, <1>2, <1>3 DEF Next

(* In every reachable state the loop's variables summarise the calls visited. *)
THEOREM LoopCorrect == Spec => [](TypeOK /\ LoopInv)
<1>1. Init => TypeOK /\ LoopInv
  <2> SUFFICES ASSUME Init
               PROVE  TypeOK /\ LoopInv
    OBVIOUS
  <2>1. TypeOK
    BY SelectionAssumption DEF Init, TypeOK
  <2>2. Present = {} /\ Visited = {}
    BY DEF Init, Present, Visited, Keys, NoCall
  <2>3. LoopInv
    BY <2>2 DEF Init, LoopInv, ShownWith, DirectionOfACandidate, Talks
  <2> QED
    BY <2>1, <2>3
<1>2. TypeOK /\ LoopInv /\ [Next]_vars => (TypeOK /\ LoopInv)'
  BY TypeStep, LoopInvStep
<1> QED
  BY <1>1, <1>2, PTL DEF Spec

(* After every walk the user is shown with the right call, for any calls   *)
(* and any order of the walk.                                              *)
THEOREM SelectionCorrect == Spec => [](SelectionIsRight /\ DirectionIsExplained)
<1>1. TypeOK /\ LoopInv => SelectionIsRight /\ DirectionIsExplained
  <2> SUFFICES ASSUME LoopInv, todo = {}
               PROVE  ShownWith(Present) /\ DirectionOfACandidate(Present)
    BY DEF SelectionIsRight, DirectionIsExplained
  <2>1. Visited = Present
    BY DEF Visited
  <2> QED
    BY <2>1 DEF LoopInv
<1> QED
  BY <1>1, LoopCorrect, PTL

(* The loop keeps the types of CallSelection.                              *)
THEOREM SelectionTypeCorrect == Spec => []TypeOK
<1> QED BY LoopCorrect, PTL

(* Whatever order the loop visits the calls in, the direction it reports   *)
(* is that of the call it reports or of an older call that is not talking  *)
(* (refreshCallStateLocked).                                               *)
THEOREM DirectionCorrect == Spec => []DirectionIsExplained
<1> QED BY SelectionCorrect, PTL
=============================================================================
