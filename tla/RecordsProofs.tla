------------------------------ MODULE RecordsProofs ------------------------------
(***************************************************************************)
(* Theorems about RecursiveSplitter, DistributedThinning, Where and         *)
(* DataExtractor.                                                          *)
(*                                                                         *)
(* RecursiveSplitter, for any number of ids, of categories and of calls.    *)
(* groupBy writes the new list behind its own back: the end of the last    *)
(* group written stays below the group being found, which lies within the  *)
(* old group last read (CursorsOK).  The old list, as it was when the call *)
(* began, leads to the next slot to be read (OldList); the new one, as far *)
(* as it has been written, leads to the next slot to be written (NewList). *)
(* The sets of slots the two pass through are the witnesses of the proofs.  *)
(* What the lists mean is a second invariant (GroupsInv), whose witnesses   *)
(* are sets of segments: the old list holds the groups under all criteria  *)
(* but the last, the new one those under all of them, for the ids up to the *)
(* group being found.  Sorting an old group by category puts every new one *)
(* in one piece; ids that are moved stay within their group.               *)
(*                                                                         *)
(* DistributedThinning, for any number of ranks, locations and categories.  *)
(* Where a rank is determines what it has sent and worked out, as a         *)
(* function of the observations and of who holds them (PostedInv, WorkInv); *)
(* there is nothing else to know about the interleaving.  What is gathered *)
(* is then a function of the observations alone, read at the ids of the    *)
(* rank's accessor, which are either all ids or those of the rank: the     *)
(* groups of the ranks are the same or of different records.               *)
(*                                                                         *)
(* Where, for every clause.  What is selected is what all comparisons, or   *)
(* one of them, let pass (SelectionJoins); those of the opposite clause are *)
(* the opposites of those of the clause, one by one (OppositesCorrespond). *)
(*                                                                         *)
(* DataExtractor, for any regular tables and any number of look-ups.  Each  *)
(* scheduled coordinate keeps the rows of a dimension grouped (RowsGrouped),*)
(* so that in the end they are listed in the order of the coordinates, one  *)
(* after the other (RowsListed).  The range of a dimension holds what the   *)
(* values passed so far select, rows that agree in all coordinates matched  *)
(* (Searched), in which the next coordinate therefore ascends: what a      *)
(* binary search finds there is what the method calls for (MatchFinds).    *)
(* The cells an interpolation takes are those around the values             *)
(* (LinearAnswers, BilinearAnswers).                                       *)
(***************************************************************************)
EXTENDS RecursiveSplitter, DistributedThinning, Where, DataExtractor, OrderLemmas

-----------------------------------------------------------------------------
(* RecursiveSplitter: the linked lists.                                     *)

(* From slot l of the array e one comes to a group of two ids or more and,  *)
(* behind its last id, to another slot of L.                               *)
Leads(e, L, l) ==
  /\ l <= e[l] /\ e[l] + 1 < n
  /\ e[l] < e[e[l] + 1] /\ e[e[l] + 1] < n
  /\ e[e[l] + 1] + 1 \in L

(* L holds the slots of a complete list.                                   *)
Complete(e, L) ==
  /\ L \subseteq 0 .. n /\ 0 \in L
  /\ \A l \in L : l < n => e[l] = n \/ Leads(e, L, l)

(* L holds the slots of a list that has been written up to slot s.          *)
WrittenTo(e, L, s) ==
  /\ L \subseteq 0 .. s /\ 0 \in L /\ s \in L
  /\ \A l \in L : l # s => Leads(e, L, l) /\ e[e[l] + 1] < s

ListWellFormed == pc = "idle" => \E L \in SUBSET (0 .. n) : Complete(encodedGroups, L)

OldList == pc # "idle" =>
  \E L \in SUBSET (0 .. n) : Complete(before, L) /\ lastIndexInGroup + 1 \in L

NewList == pc # "idle" =>
  \E L \in SUBSET (0 .. n) : WrittenTo(encodedGroups, L, lastIndexInLastGroup + 1)

CursorsOK ==
  /\ pc = "outer" => lastIndexInLastGroup <= lastIndexInGroup
  /\ pc = "inner" => /\ lastIndexInLastGroup < newFirstIndex
                     /\ newFirstIndex <= newLastIndex
                     /\ newLastIndex <= lastIndexInGroup

ListInv == /\ TypeOK /\ UnreadLinksKept
        /\ ListWellFormed /\ OldList /\ NewList /\ CursorsOK

LEMMA SizeIsNat == ASSUME TypeOK PROVE n \in Nat
  BY SplitterAssumption DEF TypeOK

LEMMA RearrangementsAreTyped ==
  ASSUME NEW q \in Rearrangements PROVE q \in [Ids -> Ids]
  BY DEF Rearrangements, Bijections

LEMMA InitListInv == Init => ListInv
<1> SUFFICES ASSUME Init PROVE ListInv
  OBVIOUS
<1>0. n \in Nat /\ pc = "idle"
  BY SplitterAssumption DEF Init
<1>1. TypeOK
  <2>1. encodedGroups \in [Ids -> 0 .. n]
    BY <1>0 DEF Init, Ids
  <2>2. categories \in Vectors
    BY DEF Init, Vectors
  <2>3. given \in Seq(Vectors) /\ reordered \in 0 .. MaxReorder
    BY SplitterAssumption DEF Init
  <2>4. orderedIds \in [Ids -> Ids]
    BY DEF Init
  <2> QED
    BY <1>0, <2>1, <2>2, <2>3, <2>4 DEF Init, TypeOK
<1>2. ListWellFormed
  <2>1. CASE n = 0
    <3>1. Complete(encodedGroups, {0})
      BY <2>1 DEF Complete
    <3> QED
      BY <1>0, <3>1 DEF ListWellFormed
  <2>2. CASE n = 1
    <3>1. encodedGroups[0] = n
      BY <2>2 DEF Init, Ids
    <3>2. Complete(encodedGroups, {0})
      BY <2>2, <3>1 DEF Complete
    <3> QED
      BY <1>0, <3>2 DEF ListWellFormed
  <2>3. CASE n > 1
    <3>1. encodedGroups[0] = 0 /\ encodedGroups[1] = n - 1
      BY <1>0, <2>3 DEF Init, Ids
    <3>2. Complete(encodedGroups, {0, n})
      BY <1>0, <2>3, <3>1 DEF Complete, Leads
    <3> QED
      BY <1>0, <3>2 DEF ListWellFormed
  <2> QED
    BY <1>0, <2>1, <2>2, <2>3
<1> QED
  BY <1>0, <1>1, <1>2 DEF ListInv, UnreadLinksKept, OldList, NewList, CursorsOK

-----------------------------------------------------------------------------
(* The steps, one by one.                                                  *)

LEMMA GroupByListInv == ASSUME ListInv, GroupBy PROVE ListInv'
<1>0. n \in Nat /\ pc = "idle" /\ pc' = "outer" /\ n' = n
  BY SizeIsNat DEF ListInv, GroupBy
<1>1. TypeOK'
  <2>1. categories' \in Vectors /\ Vectors' = Vectors /\ Ids' = Ids
    BY DEF GroupBy, Vectors, Ids
  <2>2. given' \in Seq(Vectors)
    BY <2>1 DEF GroupBy, ListInv, TypeOK
  <2> QED
    BY <1>0, <2>1, <2>2 DEF GroupBy, ListInv, TypeOK, arrays
<1>2. PICK L \in SUBSET (0 .. n) : Complete(encodedGroups, L)
  BY <1>0 DEF ListInv, ListWellFormed
<1>3. OldList'
  <2>1. lastIndexInGroup' + 1 \in L /\ before' = encodedGroups
    BY <1>2 DEF GroupBy, Complete
  <2> QED
    BY <1>0, <1>2, <2>1 DEF OldList, Complete, Leads
<1>4. NewList'
  <2>1. WrittenTo(encodedGroups, {0}, 0)' /\ lastIndexInLastGroup' + 1 = 0
    BY DEF GroupBy, WrittenTo
  <2> QED
    BY <1>0, <2>1 DEF NewList
<1>5. UnreadLinksKept' /\ CursorsOK' /\ ListWellFormed'
  BY <1>0 DEF GroupBy, UnreadLinksKept, CursorsOK, ListWellFormed, arrays
<1> QED
  BY <1>1, <1>3, <1>4, <1>5 DEF ListInv

(* The next old group is where the list said when the call began.          *)
LEMMA OldGroup ==
  ASSUME ListInv, pc = "outer", OldGroupLeft
  PROVE  LET first == encodedGroups[lastIndexInGroup + 1]
             last  == encodedGroups[first + 1]
         IN /\ lastIndexInGroup + 1 \in Ids /\ first \in Int /\ last \in Int
            /\ lastIndexInGroup < first /\ first < last /\ last < n
            /\ \E L \in SUBSET (0 .. n) : Complete(before, L) /\ last + 1 \in L
<1> DEFINE first == encodedGroups[lastIndexInGroup + 1]
           last  == encodedGroups[first + 1]
<1>0. /\ n \in Nat /\ lastIndexInGroup \in -1 .. n - 1
      /\ encodedGroups \in [Ids -> 0 .. n] /\ before \in [Ids -> 0 .. n]
  BY SizeIsNat DEF ListInv, TypeOK
<1>1. lastIndexInGroup + 1 \in Ids /\ first \in 0 .. n /\ first + 1 < n
  BY <1>0 DEF OldGroupLeft, Ids
<1>2. first = before[lastIndexInGroup + 1]
  BY <1>0, <1>1 DEF ListInv, UnreadLinksKept
<1>3. PICK L \in SUBSET (0 .. n) : Complete(before, L) /\ lastIndexInGroup + 1 \in L
  BY DEF ListInv, OldList
<1>4. Leads(before, L, lastIndexInGroup + 1)
  <2>1. lastIndexInGroup + 1 < n /\ first # n
    BY <1>0, <1>1 DEF Ids
  <2> QED
    BY <1>2, <1>3, <2>1 DEF Complete
<1>5. first > lastIndexInGroup /\ first + 1 \in Ids
  BY <1>0, <1>1, <1>2, <1>4 DEF Leads, Ids
<1>6. last = before[first + 1] /\ last \in 0 .. n
  <2>1. first + 1 > lastIndexInGroup
    BY <1>0, <1>1, <1>5
  <2> QED
    BY <1>0, <1>5, <2>1 DEF ListInv, UnreadLinksKept
<1>7. first < last /\ last < n /\ last + 1 \in L
  BY <1>2, <1>4, <1>6 DEF Leads
<1> QED
  BY <1>1, <1>3, <1>5, <1>6, <1>7

LEMMA NextGroupListInv == ASSUME ListInv, NextGroup PROVE ListInv'
<1> DEFINE first == encodedGroups[lastIndexInGroup + 1]
           last  == encodedGroups[first + 1]
<1>0. /\ n \in Nat /\ pc = "outer" /\ OldGroupLeft /\ pc' = "inner"
      /\ UNCHANGED <<n, ops, encodedGroups, categories, lastIndexInLastGroup,
                     given, before, reordered>>
      /\ lastIndexInGroup' = last /\ newFirstIndex' = first /\ newLastIndex' = first
  BY SizeIsNat DEF ListInv, NextGroup
<1>1. /\ first \in Int /\ last \in Int
      /\ lastIndexInGroup < first /\ first < last /\ last < n
      /\ \E L \in SUBSET (0 .. n) : Complete(before, L) /\ last + 1 \in L
  BY <1>0, OldGroup
<1>2. /\ lastIndexInGroup \in -1 .. n - 1 /\ lastIndexInLastGroup \in -1 .. n - 1
      /\ lastIndexInLastGroup <= lastIndexInGroup
  BY <1>0 DEF ListInv, TypeOK, CursorsOK
<1>3. orderedIds' \in [Ids -> Ids]
  <2>1. PICK q \in Rearrangements : orderedIds' = Permuted(q)
    BY DEF NextGroup
  <2>2. q \in [Ids -> Ids] /\ orderedIds \in [Ids -> Ids]
    BY RearrangementsAreTyped DEF ListInv, TypeOK
  <2> QED
    BY <2>1, <2>2 DEF Permuted
<1> HIDE DEF first, last
<1>4. TypeOK'
  <2>1. first \in 0 .. n /\ last \in -1 .. n - 1
    BY <1>0, <1>1, <1>2
  <2> QED
    BY <1>0, <1>3, <2>1 DEF ListInv, TypeOK, Ids, Vectors
<1>5. UnreadLinksKept'
  <2>1. ASSUME NEW i \in Ids, i > last PROVE i > lastIndexInGroup
    BY <1>0, <1>1, <1>2, <2>1 DEF Ids
  <2> QED
    BY <1>0, <2>1 DEF ListInv, UnreadLinksKept, Ids
<1>6. OldList'
  BY <1>0, <1>1 DEF OldList, Complete, Leads
<1>7. NewList'
  <2>1. PICK L \in SUBSET (0 .. n) : WrittenTo(encodedGroups, L, lastIndexInLastGroup + 1)
    BY <1>0 DEF ListInv, NewList
  <2>2. WrittenTo(encodedGroups, L, lastIndexInLastGroup + 1)'
    BY <1>0, <2>1 DEF WrittenTo, Leads
  <2> QED
    BY <1>0, <2>2 DEF NewList
<1>8. CursorsOK' /\ ListWellFormed'
  BY <1>0, <1>1, <1>2 DEF CursorsOK, ListWellFormed
<1> QED
  BY <1>4, <1>5, <1>6, <1>7, <1>8 DEF ListInv

(* The steps that look at the ids of the old group.                        *)
LEMMA AdvanceTypes ==
  ASSUME ListInv, pc = "inner", Advance, n' = n,
         lastIndexInLastGroup' \in -1 .. n - 1, newFirstIndex' \in 0 .. n,
         encodedGroups' \in [Ids -> 0 .. n]
  PROVE  TypeOK'
<1>1. n \in Nat /\ newLastIndex \in 0 .. n - 1 /\ lastIndexInGroup \in -1 .. n - 1
  BY SizeIsNat DEF ListInv, TypeOK, CursorsOK
<1>2. newLastIndex' \in 0 .. n /\ pc' \in {"idle", "outer", "inner"}
  BY <1>1 DEF Advance
<1> QED
  BY <1>1, <1>2 DEF Advance, ListInv, TypeOK, Ids, Vectors

LEMMA OldListKept ==
  ASSUME ListInv, pc # "idle", UNCHANGED <<n, before, lastIndexInGroup>>
  PROVE  OldList'
  BY DEF ListInv, OldList, Complete, Leads

LEMMA NewListKept ==
  ASSUME ListInv, pc # "idle", UNCHANGED <<n, encodedGroups, lastIndexInLastGroup>>
  PROVE  NewList'
<1>1. PICK L \in SUBSET (0 .. n) : WrittenTo(encodedGroups, L, lastIndexInLastGroup + 1)
  BY DEF ListInv, NewList
<1>2. WrittenTo(encodedGroups, L, lastIndexInLastGroup + 1)'
  BY <1>1 DEF WrittenTo, Leads
<1> QED
  BY <1>2 DEF NewList

(* The cursors in the midst of the old group.                              *)
LEMMA InnerBounds ==
  ASSUME ListInv, pc = "inner"
  PROVE  /\ n \in Nat
         /\ lastIndexInLastGroup \in -1 .. n - 1 /\ lastIndexInGroup \in -1 .. n - 1
         /\ newFirstIndex \in 0 .. n /\ newLastIndex \in 0 .. n
         /\ lastIndexInLastGroup < newFirstIndex /\ newFirstIndex <= newLastIndex
         /\ newLastIndex <= lastIndexInGroup
  BY SizeIsNat DEF ListInv, TypeOK, CursorsOK

LEMMA ContinueListInv == ASSUME ListInv, Continue \/ EndSingle PROVE ListInv'
<1>0. /\ pc = "inner" /\ Advance
      /\ UNCHANGED <<n, ops, encodedGroups, lastIndexInGroup, lastIndexInLastGroup, before>>
  BY DEF Continue, EndSingle, Advance
<1>1. /\ pc' = IF newLastIndex = lastIndexInGroup THEN "outer" ELSE "inner"
      /\ newLastIndex' = newLastIndex + 1
      /\ \/ newFirstIndex' = newFirstIndex /\ newLastIndex # lastIndexInGroup
         \/ newFirstIndex' = newLastIndex + 1
  BY DEF Continue, EndSingle, Advance, CategoryContinues
<1>2. TypeOK'
  <2>1. lastIndexInLastGroup' \in -1 .. n - 1 /\ encodedGroups' \in [Ids -> 0 .. n]
    BY <1>0 DEF ListInv, TypeOK
  <2>2. newFirstIndex' \in 0 .. n
    BY <1>0, <1>1, InnerBounds
  <2> QED
    BY <1>0, <2>1, <2>2, AdvanceTypes
<1>3. UnreadLinksKept'
  BY <1>0 DEF ListInv, UnreadLinksKept, Ids
<1>4. CursorsOK' /\ ListWellFormed'
  BY <1>0, <1>1, InnerBounds DEF CursorsOK, ListWellFormed
<1> QED
  BY <1>0, <1>2, <1>3, <1>4, OldListKept, NewListKept DEF ListInv

(* A new group is entered in the list below what is still to be read.      *)
LEMMA EndGroupListInv == ASSUME ListInv, EndGroup PROVE ListInv'
<1> DEFINE s == lastIndexInLastGroup + 1
<1>0. /\ pc = "inner" /\ Advance /\ newLastIndex > newFirstIndex
      /\ UNCHANGED <<n, lastIndexInGroup, before>>
      /\ pc' = IF newLastIndex = lastIndexInGroup THEN "outer" ELSE "inner"
      /\ newLastIndex' = newLastIndex + 1 /\ newFirstIndex' = newLastIndex + 1
      /\ lastIndexInLastGroup' = newLastIndex
      /\ encodedGroups' = [encodedGroups EXCEPT ![s] = newFirstIndex,
                                                ![newFirstIndex + 1] = newLastIndex]
  BY DEF EndGroup, Advance
<1>1. /\ n \in Nat /\ s \in Int /\ lastIndexInGroup \in -1 .. n - 1
      /\ newFirstIndex \in Int /\ newLastIndex \in Int
      /\ 0 <= s /\ s <= newFirstIndex /\ newFirstIndex < newLastIndex
      /\ newLastIndex <= lastIndexInGroup /\ lastIndexInGroup < n
  BY <1>0, InnerBounds
<1> HIDE DEF s
<1>2. /\ encodedGroups \in [Ids -> 0 .. n] /\ s \in Ids /\ newFirstIndex + 1 \in Ids
      /\ Ids' = Ids
  <2>1. s \in Ids /\ newFirstIndex + 1 \in Ids /\ Ids' = Ids
    BY <1>0, <1>1 DEF Ids
  <2> QED
    BY <2>1 DEF ListInv, TypeOK
<1>3. /\ encodedGroups'[s] = newFirstIndex /\ encodedGroups'[newFirstIndex + 1] = newLastIndex
      /\ \A i \in Ids : i # s /\ i # newFirstIndex + 1 => encodedGroups'[i] = encodedGroups[i]
  BY <1>0, <1>1, <1>2
<1>4. TypeOK'
  <2>1. encodedGroups' \in [Ids -> 0 .. n]
    BY <1>0, <1>1, <1>2
  <2>2. lastIndexInLastGroup' \in -1 .. n - 1 /\ newFirstIndex' \in 0 .. n
    BY <1>0, <1>1
  <2> QED
    BY <1>0, <2>1, <2>2, AdvanceTypes
<1>5. UnreadLinksKept'
  <2> SUFFICES ASSUME NEW i \in Ids, i > lastIndexInGroup
               PROVE  encodedGroups'[i] = before[i]
    BY <1>0, <1>2 DEF UnreadLinksKept
  <2>1. i # s /\ i # newFirstIndex + 1
    BY <1>1 DEF Ids
  <2> QED
    BY <1>0, <1>3, <2>1 DEF ListInv, UnreadLinksKept
<1>6. CursorsOK' /\ ListWellFormed'
  BY <1>0, <1>1 DEF CursorsOK, ListWellFormed
<1>7. NewList'
  <2>1. PICK L \in SUBSET (0 .. n) : WrittenTo(encodedGroups, L, s)
    BY <1>0 DEF ListInv, NewList, s
  <2>0. PICK M : M = L \cup {newLastIndex + 1}
    OBVIOUS
  <2>2. M \subseteq 0 .. newLastIndex + 1 /\ 0 \in M /\ newLastIndex + 1 \in M /\ s \in M
    BY <1>1, <2>0, <2>1 DEF WrittenTo
  <2>3. ASSUME NEW l \in M, l # newLastIndex + 1
        PROVE  Leads(encodedGroups, M, l)' /\ encodedGroups'[encodedGroups'[l] + 1] < newLastIndex + 1
    <3>1. CASE l = s
      <4>1. newFirstIndex + 1 < n /\ newLastIndex < n /\ s <= newFirstIndex
        BY <1>1
      <4>2. encodedGroups'[l] = newFirstIndex /\ encodedGroups'[newFirstIndex + 1] = newLastIndex
        BY <1>3, <3>1
      <4> QED
        BY <1>0, <1>1, <2>2, <3>1, <4>1, <4>2 DEF Leads
    <3>2. CASE l # s
      <4>1. /\ l \in L /\ l \in 0 .. s /\ l < s
            /\ Leads(encodedGroups, L, l) /\ encodedGroups[encodedGroups[l] + 1] < s
        BY <1>1, <2>0, <2>1, <2>3, <3>2 DEF WrittenTo
      <4>2. l \in Ids /\ encodedGroups[l] \in 0 .. n
        BY <1>1, <1>2, <4>1 DEF Ids
      <4>3. encodedGroups'[l] = encodedGroups[l]
        BY <1>1, <1>3, <4>1, <4>2
      <4>4. encodedGroups[l] + 1 \in Ids /\ encodedGroups[encodedGroups[l] + 1] \in 0 .. n
        BY <1>1, <1>2, <4>1, <4>2 DEF Leads, Ids
      <4>5. encodedGroups[l] + 1 < s
        BY <1>1, <4>1, <4>2, <4>4 DEF Leads
      <4>6. encodedGroups'[encodedGroups[l] + 1] = encodedGroups[encodedGroups[l] + 1]
        BY <1>1, <1>3, <4>4, <4>5
      <4> QED
        BY <1>0, <1>1, <2>0, <4>1, <4>2, <4>3, <4>4, <4>6 DEF Leads
    <3> QED
      BY <3>1, <3>2
  <2>4. WrittenTo(encodedGroups, M, lastIndexInLastGroup + 1)'
    BY <1>0, <2>2, <2>3 DEF WrittenTo, Leads
  <2>5. M \in SUBSET (0 .. n')
    BY <1>0, <1>1, <2>0, <2>1
  <2> QED
    BY <1>0, <2>4, <2>5 DEF NewList
<1> QED
  BY <1>0, <1>4, <1>5, <1>6, <1>7, OldListKept DEF ListInv

(* The list is ended in the slot it has been written up to.                *)
LEMMA ReturnListInv == ASSUME ListInv, Return PROVE ListInv'
<1> DEFINE s == lastIndexInLastGroup + 1
<1>0. /\ n \in Nat /\ s \in 0 .. n /\ pc = "outer" /\ pc' = "idle" /\ n' = n
      /\ encodedGroups \in [Ids -> 0 .. n]
      /\ encodedGroups' = [i \in Ids |-> IF i = s THEN n ELSE encodedGroups[i]]
  BY SizeIsNat DEF ListInv, TypeOK, Return
<1> HIDE DEF s
<1>1. TypeOK'
  <2>1. encodedGroups' \in [Ids -> 0 .. n]
    BY <1>0
  <2> QED
    BY <1>0, <2>1 DEF Return, ListInv, TypeOK, Ids, Vectors, cursors
<1>2. ListWellFormed'
  <2>1. PICK L \in SUBSET (0 .. n) : WrittenTo(encodedGroups, L, s)
    BY <1>0 DEF ListInv, NewList, s
  <2>2. L \subseteq 0 .. n /\ 0 \in L
    BY <2>1 DEF WrittenTo
  <2>3. ASSUME NEW l \in L, l < n
        PROVE  encodedGroups'[l] = n \/ Leads(encodedGroups, L, l)'
    <3>1. l \in Ids
      BY <1>0, <2>2, <2>3 DEF Ids
    <3>2. CASE l = s
      BY <1>0, <3>1, <3>2
    <3>3. CASE l # s
      <4>1. /\ l < s /\ Leads(encodedGroups, L, l)
            /\ encodedGroups[encodedGroups[l] + 1] < s
        BY <1>0, <2>1, <3>3 DEF WrittenTo
      <4>2. encodedGroups[l] \in 0 .. n /\ encodedGroups[l] + 1 \in Ids
        BY <1>0, <3>1, <4>1 DEF Leads, Ids
      <4>3. encodedGroups[encodedGroups[l] + 1] \in 0 .. n
        BY <1>0, <4>2
      <4>4. encodedGroups[l] + 1 < s
        BY <1>0, <4>1, <4>2, <4>3 DEF Leads
      <4>5. /\ encodedGroups'[l] = encodedGroups[l]
            /\ encodedGroups'[encodedGroups[l] + 1] = encodedGroups[encodedGroups[l] + 1]
        BY <1>0, <3>1, <3>3, <4>2, <4>4
      <4> QED
        BY <1>0, <4>1, <4>5 DEF Leads
    <3> QED
      BY <3>2, <3>3
  <2>4. Complete(encodedGroups, L)'
    BY <1>0, <2>2, <2>3 DEF Complete, Leads
  <2> QED
    BY <1>0, <2>4 DEF ListWellFormed
<1> QED
  BY <1>0, <1>1, <1>2 DEF ListInv, UnreadLinksKept, OldList, NewList, CursorsOK

(* The order of the ids has nothing to do with the list.                   *)
LEMMA ReorderListInv == ASSUME ListInv, SortGroupsBy \/ ShuffleGroups PROVE ListInv'
<1>1. PICK q \in Rearrangements : Reorder(q) /\ pc = "idle" /\ reordered < MaxReorder
  BY DEF SortGroupsBy, ShuffleGroups, WithinGroups
<1>2. TypeOK'
  <2>1. orderedIds' \in [Ids -> Ids]
    BY <1>1, RearrangementsAreTyped DEF Reorder, Permuted, ListInv, TypeOK
  <2>2. reordered' \in 0 .. MaxReorder
    BY <1>1, SplitterAssumption DEF Reorder, ListInv, TypeOK
  <2> QED
    BY <1>1, <2>1, <2>2 DEF Reorder, ListInv, TypeOK, Ids, Vectors, cursors
<1>3. ListWellFormed'
  BY <1>1 DEF Reorder, ListInv, ListWellFormed, Complete, Leads
<1> QED
  BY <1>1, <1>2, <1>3 DEF Reorder, ListInv, UnreadLinksKept, OldList, NewList, CursorsOK

LEMMA StoppedListInv == ASSUME ListInv, UNCHANGED vars PROVE ListInv'
<1> USE DEF vars, arrays, cursors
<1>1. TypeOK' /\ UnreadLinksKept' /\ CursorsOK'
  BY DEF ListInv, TypeOK, UnreadLinksKept, CursorsOK, Ids, Vectors
<1>2. ListWellFormed'
  BY DEF ListInv, ListWellFormed, Complete, Leads
<1>3. CASE pc = "idle"
  BY <1>1, <1>2, <1>3 DEF ListInv, OldList, NewList
<1>4. CASE pc # "idle"
  BY <1>1, <1>2, <1>4, OldListKept, NewListKept DEF ListInv
<1> QED
  BY <1>3, <1>4

LEMMA NextListInv == ListInv /\ [Next]_vars => ListInv'
  BY GroupByListInv, NextGroupListInv, ContinueListInv, EndGroupListInv, ReturnListInv, ReorderListInv,
     StoppedListInv DEF Next, Stopped

LEMMA ListInvariant == Spec => []ListInv
  BY InitListInv, NextListInv, PTL DEF Spec

-----------------------------------------------------------------------------
(* The groups.  P holds the first and the last index of every group of two  *)
(* ids or more, and nothing that is not a group.                           *)

SegmentSets == SUBSET (Ids \X Ids)

Together(P, i, j) == \E p \in P : i \in p[1] .. p[2] /\ j \in p[1] .. p[2]

(* The segments are disjoint and e holds their ends.                       *)
SegmentsIn(e, P) ==
  /\ \A p \in P : p[1] < p[2] /\ e[p[1] + 1] = p[2]
  /\ \A p, r \in P : p = r \/ p[2] < r[1] \/ r[2] < p[1]

IsSlot(P, s) == s = 0 \/ \E p \in P : s = p[2] + 1

(* Slot s of e holds the first index of the next segment.                  *)
LeadsTo(e, P, s) ==
  \E r \in P : e[s] = r[1] /\ s <= r[1] /\ \A p \in P : p[1] < s \/ r[1] <= p[1]

(* The complete list of the segments P, and one that has been written up to *)
(* slot t.                                                                 *)
ListOf(e, P) ==
  /\ SegmentsIn(e, P)
  /\ \A s \in Ids : IsSlot(P, s) =>
       LeadsTo(e, P, s) \/ (e[s] = n /\ \A p \in P : p[1] < s)

ListTo(e, P, t) ==
  /\ SegmentsIn(e, P) /\ IsSlot(P, t) /\ \A p \in P : p[2] < t
  /\ \A s \in Ids : IsSlot(P, s) /\ s # t => LeadsTo(e, P, s)

Cat(i) == categories[orderedIds[i]]

Permutation ==
  /\ \A i, j \in Ids : orderedIds[i] = orderedIds[j] => i = j
  /\ \A a \in Ids : \E i \in Ids : orderedIds[i] = a

EqualUpTo(m, a, b) == \A k \in 1 .. m : given[k][a] = given[k][b]

(* Two ids are in one group if, and only if, they are equal under the first *)
(* m vectors of categories.                                                *)
Grouped(P, m) == \A i, j \in Ids : i # j =>
  (EqualUpTo(m, orderedIds[i], orderedIds[j]) <=> Together(P, i, j))

StillInOrder == ~ops /\ reordered = 0

IdleGroups(P) ==
  /\ ListOf(encodedGroups, P)
  /\ Grouped(P, Len(given))
  /\ StillInOrder => \A p \in P : \A i, j \in p[1] .. p[2] : i < j => orderedIds[i] < orderedIds[j]

(* The old groups, of which those up to lastIndexInGroup have been sorted.  *)
OldGroups(P) ==
  /\ ListOf(before, P)
  /\ IsSlot(P, lastIndexInGroup + 1)
  /\ given # <<>> /\ given[Len(given)] = categories
  /\ Grouped(P, Len(given) - 1)
  /\ \A p \in P : p[2] <= lastIndexInGroup =>
       \A i, j \in p[1] .. p[2] : i <= j => Cat(i) <= Cat(j)
  /\ StillInOrder => \A p \in P : \A i, j \in p[1] .. p[2] :
       i < j /\ (p[1] > lastIndexInGroup \/ Cat(i) = Cat(j)) => orderedIds[i] < orderedIds[j]

(* The indices below Processed have been divided into new groups.          *)
Processed == IF pc = "outer" THEN lastIndexInGroup + 1 ELSE newFirstIndex

NewGroups(P, Q) ==
  /\ ListTo(encodedGroups, Q, lastIndexInLastGroup + 1)
  /\ \A i, j \in Ids : i # j /\ i < Processed /\ j < Processed =>
       (Together(Q, i, j) <=> Together(P, i, j) /\ Cat(i) = Cat(j))

(* The new group being found, within the old one.                          *)
Window(P) == \E p \in P :
  /\ p[2] = lastIndexInGroup /\ p[1] <= newFirstIndex
  /\ \A i \in newFirstIndex .. newLastIndex : Cat(i) = Cat(newFirstIndex)
  /\ \A i \in p[1] .. newFirstIndex - 1 : Cat(i) # Cat(newFirstIndex)

GroupsInv ==
  /\ Permutation
  /\ pc = "idle" => \E P \in SegmentSets : IdleGroups(P)
  /\ pc # "idle" => \E P \in SegmentSets :
       /\ OldGroups(P) /\ (pc = "inner" => Window(P))
       /\ \E Q \in SegmentSets : NewGroups(P, Q)

-----------------------------------------------------------------------------
(* What a set of segments says.                                            *)

LEMMA SegmentTypes ==
  ASSUME n \in Nat, NEW P \in SegmentSets, NEW p \in P
  PROVE  /\ p[1] \in Ids /\ p[2] \in Ids /\ p = <<p[1], p[2]>>
         /\ p[1] \in Nat /\ p[2] \in Nat /\ p[1] < n /\ p[2] < n
  BY DEF SegmentSets, Ids

(* A segment that starts below a slot ends below it.                       *)
LEMMA EndsBelow ==
  ASSUME n \in Nat, NEW P \in SegmentSets, NEW e, SegmentsIn(e, P), NEW p \in P,
         NEW s, IsSlot(P, s), p[1] < s
  PROVE  p[2] < s
<1>1. p[1] \in Nat /\ p[2] \in Nat
  BY SegmentTypes
<1>2. CASE s = 0
  BY <1>1, <1>2
<1>3. ASSUME NEW r \in P, s = r[2] + 1 PROVE p[2] < s
  <2>1. r[1] \in Nat /\ r[2] \in Nat /\ (p = r \/ p[2] < r[1] \/ r[2] < p[1]) /\ r[1] < r[2]
    BY SegmentTypes DEF SegmentsIn
  <2> QED
    BY <1>1, <1>3, <2>1
<1> QED
  BY <1>2, <1>3 DEF IsSlot

LEMMA LeastOfSet ==
  ASSUME NEW S \in SUBSET Nat, S # {}
  PROVE  \E x \in S : \A y \in S : x <= y
<1> DEFINE T == {0 .. x : x \in S}
<1>1. T \subseteq FiniteSubsetsOf(Nat) /\ T # {}
  <2>1. \A x \in S : IsFiniteSet(0 .. x) /\ 0 .. x \subseteq Nat
    <3>1. \A x \in S : x \in Int
      OBVIOUS
    <3> QED
      BY <3>1, FS_Interval
  <2> QED
    BY <2>1 DEF FiniteSubsetsOf
<1>2. PICK t \in T : \A v \in T : ~ (<<v, t>> \in StrictSubsetOrdering(Nat))
  BY <1>1, FS_StrictSubsetOrderingWellFounded, WFMin
<1>3. PICK x \in S : t = 0 .. x
  OBVIOUS
<1>4. ASSUME NEW y \in S PROVE x <= y
  <2>1. 0 .. y \in T /\ 0 .. y \in SUBSET Nat /\ 0 .. x \in SUBSET Nat
    OBVIOUS
  <2>2. <<0 .. y, 0 .. x>> \notin StrictSubsetOrdering(Nat)
    BY <1>2, <1>3, <2>1
  <2>3. ~(0 .. y \subseteq 0 .. x /\ 0 .. y # 0 .. x)
    BY <2>1, <2>2 DEF StrictSubsetOrdering
  <2>4. y < x => x \notin 0 .. y /\ x \in 0 .. x /\ 0 .. y \subseteq 0 .. x
    OBVIOUS
  <2> QED
    BY <2>3, <2>4
<1> QED
  BY <1>4

(* Of the members of a set of numbers below b one is the greatest.         *)
LEMMA GreatestBelow ==
  ASSUME NEW S \in SUBSET Nat, NEW b \in Nat, \E x \in S : x < b
  PROVE  \E x \in S : x < b /\ \A y \in S : y < b => y <= x
<1> DEFINE D == {b - x : x \in {y \in S : y < b}}
<1>1. D \in SUBSET Nat /\ D # {}
  OBVIOUS
<1>2. PICK d \in D : \A y \in D : d <= y
  <2> HIDE DEF D
  <2> QED
    BY <1>1, LeastOfSet
<1>3. PICK x \in S : x < b /\ d = b - x
  OBVIOUS
<1>4. ASSUME NEW y \in S, y < b PROVE y <= x
  <2>1. b - y \in D
    BY <1>4
  <2>2. b - x <= b - y
    BY <1>2, <1>3, <2>1
  <2>3. x \in Int /\ y \in Int
    OBVIOUS
  <2> QED
    BY <2>2, <2>3
<1> QED
  BY <1>3, <1>4

(* The iterators visit the segments of the list and nothing else.          *)
LEMMA WalkIsList ==
  ASSUME TypeOK, NEW P \in SegmentSets, ListOf(encodedGroups, P)
  PROVE  Segments = P
<1> DEFINE e      == encodedGroups
           Firsts == {p[1] : p \in P}
           Closed(S) == First \in S /\ \A g \in S : g + 1 < n => NextFirst(g) \in S
<1>0. n \in Nat /\ e \in [Ids -> 0 .. n] /\ SegmentsIn(e, P)
  BY SizeIsNat DEF TypeOK, ListOf
<1>1. \A p \in P : /\ p[1] \in Nat /\ p[2] \in Nat /\ p[1] < p[2] /\ p[2] < n
                   /\ p[1] \in Ids /\ e[p[1] + 1] = p[2] /\ p = <<p[1], p[2]>>
  BY <1>0, SegmentTypes DEF SegmentsIn
<1>2. Firsts \in SUBSET Ids /\ Firsts \in SUBSET Nat
  BY <1>1
<1>3. Closed(Firsts \cup {n})
  <2>1. First \in Firsts \cup {n}
    <3>1. CASE n = 0
      BY <3>1 DEF First
    <3>2. CASE n # 0
      <4>1. 0 \in Ids /\ IsSlot(P, 0) /\ First = e[0]
        BY <1>0, <3>2 DEF Ids, IsSlot, First
      <4>2. LeadsTo(e, P, 0) \/ e[0] = n
        BY <4>1 DEF ListOf
      <4> QED
        BY <4>1, <4>2 DEF LeadsTo
    <3> QED
      BY <3>1, <3>2
  <2>2. ASSUME NEW g \in Firsts \cup {n}, g + 1 < n
        PROVE  NextFirst(g) \in Firsts \cup {n}
    <3>1. PICK p \in P : g = p[1]
      BY <1>0, <2>2
    <3>2. NextFirst(g) = IF p[2] + 1 < n THEN e[p[2] + 1] ELSE n
      BY <1>1, <3>1 DEF NextFirst
    <3>3. CASE p[2] + 1 < n
      <4>1. p[2] + 1 \in Ids /\ IsSlot(P, p[2] + 1)
        BY <1>0, <1>1, <3>3 DEF Ids, IsSlot
      <4>2. LeadsTo(e, P, p[2] + 1) \/ e[p[2] + 1] = n
        BY <4>1 DEF ListOf
      <4> QED
        BY <3>2, <3>3, <4>2 DEF LeadsTo
    <3> QED
      BY <3>2, <3>3
  <2> QED
    BY <2>1, <2>2
<1>4. ASSUME NEW S \in SUBSET (0 .. n), Closed(S) PROVE Firsts \subseteq S
  <2> DEFINE M == Firsts \ S
  <2> SUFFICES ASSUME M # {} PROVE FALSE
    OBVIOUS
  <2>1. PICK f \in M : \A g \in M : f <= g
    <3>1. M # {} /\ M \in SUBSET Nat
      BY <1>2
    <3> HIDE DEF M
    <3> QED
      BY <3>1, LeastOfSet
  <2>2. f \in Nat /\ f \in Firsts /\ f \notin S /\ f < n
    <3>1. PICK w \in P : f = w[1]
      OBVIOUS
    <3> QED
      BY <1>0, <1>1, <3>1
  <2>3. ASSUME NEW s \in Ids, IsSlot(P, s), s <= f, \A g \in Firsts : g < f => g < s
        PROVE  e[s] = f
    <3>1. PICK w \in P : w[1] = f
      BY <2>2
    <3>2. s \in Nat
      BY <1>0 DEF Ids
    <3>3. LeadsTo(e, P, s)
      BY <2>2, <2>3, <3>1, <3>2 DEF ListOf
    <3>4. PICK r \in P : e[s] = r[1] /\ s <= r[1] /\ \A p \in P : p[1] < s \/ r[1] <= p[1]
      BY <3>3 DEF LeadsTo
    <3>5. r[1] <= f
      BY <1>1, <2>2, <2>3, <3>1, <3>2, <3>4
    <3>6. ~(r[1] < f)
      BY <1>1, <2>2, <2>3, <3>2, <3>4
    <3> QED
      BY <1>1, <2>2, <3>4, <3>5, <3>6
  <2>4. CASE \E g \in Firsts : g < f
    <3>1. PICK g \in Firsts : g < f /\ \A h \in Firsts : h < f => h <= g
      <4>1. Firsts \in SUBSET Nat
        BY <1>2
      <4> HIDE DEF Firsts
      <4> QED
        BY <2>2, <2>4, <4>1, GreatestBelow
    <3>2. PICK r \in P : r[1] = g
      OBVIOUS
    <3>3. PICK w \in P : w[1] = f
      BY <2>2
    <3>4. r[2] < f
      BY <1>0, <1>1, <3>1, <3>2, <3>3 DEF SegmentsIn
    <3>5. r[2] + 1 \in Ids /\ IsSlot(P, r[2] + 1) /\ r[2] + 1 <= f /\ r[2] + 1 < n
      <4>1. r[2] \in Nat /\ IsSlot(P, r[2] + 1)
        BY <1>1 DEF IsSlot
      <4> HIDE DEF Firsts
      <4> QED
        BY <1>0, <2>2, <3>4, <4>1 DEF Ids
    <3>6. e[r[2] + 1] = f
      <4>1. \A h \in Firsts : h < f => h < r[2] + 1
        <5>1. g \in Nat /\ r[2] \in Nat /\ g < r[2]
          BY <1>1, <3>2
        <5>2. \A h \in Firsts : h \in Nat
          BY <1>2
        <5> HIDE DEF Firsts
        <5> QED
          BY <3>1, <5>1, <5>2
      <4> QED
        BY <2>3, <3>5, <4>1
    <3>7. NextFirst(g) = f
      BY <1>1, <3>2, <3>5, <3>6 DEF NextFirst
    <3>8. g \in S /\ g + 1 < n
      <4>1. g \in Nat /\ g + 1 < n
        BY <1>0, <1>1, <3>2
      <4>2. g \notin M
        BY <2>1, <2>2, <3>1, <4>1
      <4> QED
        BY <4>1, <4>2
    <3> QED
      BY <1>4, <2>2, <3>7, <3>8
  <2>5. CASE ~\E g \in Firsts : g < f
    <3>1. 0 \in Ids /\ IsSlot(P, 0) /\ 0 <= f /\ First = e[0]
      BY <1>0, <2>2 DEF Ids, IsSlot, First
    <3>2. First = f
      BY <2>3, <2>5, <3>1
    <3> QED
      BY <1>4, <2>2, <3>2
  <2> QED
    BY <2>4, <2>5
<1>5. Visited = Firsts
  <2>1. Visited \subseteq Firsts
    <3> SUFFICES ASSUME NEW f \in Visited PROVE f \in Firsts
      OBVIOUS
    <3>1. Firsts \cup {n} \in SUBSET (0 .. n)
      BY <1>0, <1>2 DEF Ids
    <3>2. f \in Firsts \cup {n} /\ f \in Ids
      BY <1>3, <3>1 DEF Visited
    <3> QED
      BY <1>0, <3>2 DEF Ids
  <2>2. Firsts \subseteq Visited
    BY <1>2, <1>4 DEF Visited
  <2> QED
    BY <2>1, <2>2
<1> QED
  BY <1>1, <1>5 DEF Segments

-----------------------------------------------------------------------------
(* Rearrangements of the ids.                                              *)

LEMMA RearrangementsAreOnto ==
  ASSUME n \in Nat, NEW q \in Rearrangements
  PROVE  /\ q \in [Ids -> Ids]
         /\ \A i, j \in Ids : q[i] = q[j] => i = j
         /\ \A k \in Ids : \E i \in Ids : q[i] = k
<1>1. q \in [Ids -> Ids] /\ \A i, j \in Ids : q[i] = q[j] => i = j
  <2>1. PICK m \in Sizes : /\ q \in [0 .. m - 1 -> 0 .. m - 1]
                           /\ \A i, j \in 0 .. m - 1 : q[i] = q[j] => i = j
    BY DEF Rearrangements, Bijections
  <2>2. DOMAIN q = Ids
    BY DEF Rearrangements
  <2>3. 0 .. m - 1 = Ids
    BY <2>1, <2>2
  <2> QED
    BY <2>1, <2>3
<1>2. q \in Injection(Ids, Ids)
  BY <1>1 DEF Injection, IsInjective
<1>3. IsFiniteSet(Ids)
  BY FS_Interval DEF Ids
<1>4. q \in Surjection(Ids, Ids)
  BY <1>2, <1>3, FS_Injection
<1> QED
  BY <1>1, <1>4 DEF Surjection

LEMMA PermutationKept ==
  ASSUME TypeOK, Permutation, NEW q \in Rearrangements,
         orderedIds' = Permuted(q), n' = n
  PROVE  Permutation'
<1>1. /\ q \in [Ids -> Ids]
      /\ \A i, j \in Ids : q[i] = q[j] => i = j
      /\ \A k \in Ids : \E i \in Ids : q[i] = k
  BY SizeIsNat, RearrangementsAreOnto
<1>2. Ids' = Ids /\ \A i \in Ids : orderedIds'[i] = orderedIds[q[i]]
  BY DEF Ids, Permuted
<1>3. ASSUME NEW i \in Ids, NEW j \in Ids, orderedIds'[i] = orderedIds'[j] PROVE i = j
  BY <1>1, <1>2, <1>3 DEF Permutation
<1>4. ASSUME NEW a \in Ids PROVE \E i \in Ids : orderedIds'[i] = a
  <2>1. PICK k \in Ids : orderedIds[k] = a
    BY DEF Permutation
  <2>2. PICK i \in Ids : q[i] = k
    BY <1>1
  <2> QED
    BY <1>2, <2>1, <2>2
<1> QED
  BY <1>2, <1>3, <1>4 DEF Permutation

(* Ids that move only within their group stay grouped as they are.         *)
LEMMA GroupsMoveTogether ==
  ASSUME TypeOK, NEW q \in Rearrangements, orderedIds' = Permuted(q), UNCHANGED <<n, given>>,
         NEW P \in SegmentSets, NEW e, SegmentsIn(e, P),
         \A i \in Ids : q[i] = i \/ \E p \in P : i \in p[1] .. p[2] /\ q[i] \in p[1] .. p[2],
         NEW m, Grouped(P, m)
  PROVE  Grouped(P, m)'
<1>1. q \in [Ids -> Ids] /\ \A i, j \in Ids : q[i] = q[j] => i = j
  BY SizeIsNat, RearrangementsAreOnto
<1>2. Ids' = Ids /\ \A i \in Ids : orderedIds'[i] = orderedIds[q[i]]
  BY DEF Ids, Permuted
<1>3. ASSUME NEW i \in Ids, NEW p \in P
      PROVE  i \in p[1] .. p[2] <=> q[i] \in p[1] .. p[2]
  <2>1. CASE q[i] = i
    BY <2>1
  <2>2. ASSUME NEW r \in P, i \in r[1] .. r[2], q[i] \in r[1] .. r[2]
        PROVE  i \in p[1] .. p[2] <=> q[i] \in p[1] .. p[2]
    <3>1. p = r \/ p[2] < r[1] \/ r[2] < p[1]
      BY DEF SegmentsIn
    <3>2. p[1] \in Nat /\ p[2] \in Nat /\ r[1] \in Nat /\ r[2] \in Nat
      BY SizeIsNat, SegmentTypes
    <3> QED
      BY <2>2, <3>1, <3>2
  <2> QED
    BY <2>1, <2>2
<1>4. \A i, j \in Ids : Together(P, i, j) <=> Together(P, q[i], q[j])
  BY <1>1, <1>3 DEF Together
<1>5. ASSUME NEW i \in Ids, NEW j \in Ids, i # j
      PROVE  EqualUpTo(m, orderedIds[i], orderedIds[j])' <=> Together(P, i, j)
  <2>1. q[i] \in Ids /\ q[j] \in Ids /\ q[i] # q[j]
    BY <1>1, <1>5
  <2>2. EqualUpTo(m, orderedIds[q[i]], orderedIds[q[j]]) <=> Together(P, q[i], q[j])
    BY <2>1 DEF Grouped
  <2>3. EqualUpTo(m, orderedIds[i], orderedIds[j])'
          <=> EqualUpTo(m, orderedIds[q[i]], orderedIds[q[j]])
    BY <1>2 DEF EqualUpTo
  <2> QED
    BY <1>4, <2>2, <2>3
<1> QED
  BY <1>2, <1>5 DEF Grouped

-----------------------------------------------------------------------------
(* The steps and the groups.                                               *)

LEMMA InitGroupsInv == Init => GroupsInv
<1> SUFFICES ASSUME Init PROVE GroupsInv
  OBVIOUS
<1>1. n \in Nat /\ pc = "idle" /\ given = <<>> /\ orderedIds = [i \in Ids |-> i]
  BY SplitterAssumption DEF Init
<1>2. Permutation
  BY <1>1 DEF Permutation
<1>3. \A m, a, b : m = 0 => EqualUpTo(m, a, b)
  BY DEF EqualUpTo
<1>4. Len(given) = 0
  BY <1>1
<1>5. CASE n <= 1
  <2>1. \A i, j \in Ids : i = j
    BY <1>1, <1>5 DEF Ids
  <2>2. {} \in SegmentSets
    BY DEF SegmentSets
  <2>3. n = 1 => encodedGroups[0] = n
    BY DEF Init, Ids
  <2>4. \A s \in Ids : n = 1 /\ s = 0
    BY <1>1, <1>5 DEF Ids
  <2>5. ListOf(encodedGroups, {})
    BY <2>3, <2>4 DEF ListOf, SegmentsIn
  <2>6. IdleGroups({})
    BY <2>1, <2>5 DEF IdleGroups, Grouped
  <2> QED
    BY <1>1, <1>2, <2>2, <2>6 DEF GroupsInv
<1>6. CASE n > 1
  <2>1. encodedGroups[0] = 0 /\ encodedGroups[1] = n - 1
    BY <1>1, <1>6 DEF Init, Ids
  <2>2. PICK p : p = <<0, n - 1>>
    OBVIOUS
  <2>3. PICK P : P = {p}
    OBVIOUS
  <2>4. P \in SegmentSets /\ p[1] = 0 /\ p[2] = n - 1
    BY <1>1, <1>6, <2>2, <2>3 DEF SegmentSets, Ids
  <2>5. ListOf(encodedGroups, P)
    <3>1. SegmentsIn(encodedGroups, P)
      BY <1>1, <1>6, <2>1, <2>3, <2>4 DEF SegmentsIn
    <3>2. \A s \in Ids : IsSlot(P, s) => s = 0
      BY <1>1, <2>3, <2>4 DEF IsSlot, Ids
    <3>3. LeadsTo(encodedGroups, P, 0)
      BY <2>1, <2>3, <2>4 DEF LeadsTo
    <3> QED
      BY <3>1, <3>2, <3>3 DEF ListOf
  <2>6. \A i, j \in Ids : Together(P, i, j)
    BY <2>3, <2>4 DEF Together, Ids
  <2>7. IdleGroups(P)
    <3>1. Grouped(P, Len(given))
      BY <1>3, <1>4, <2>6 DEF Grouped
    <3>2. \A i, j \in p[1] .. p[2] : i < j => orderedIds[i] < orderedIds[j]
      BY <1>1, <2>4 DEF Ids
    <3> QED
      BY <2>3, <2>5, <3>1, <3>2 DEF IdleGroups
  <2> QED
    BY <1>1, <1>2, <2>4, <2>7 DEF GroupsInv
<1> QED
  BY <1>1, <1>5, <1>6

LEMMA GroupByGroupsInv == ASSUME ListInv, GroupsInv, GroupBy PROVE GroupsInv'
<1>1. /\ n \in Nat /\ pc = "idle" /\ pc' = "outer" /\ TypeOK
      /\ UNCHANGED <<n, ops, orderedIds, encodedGroups, reordered>>
      /\ lastIndexInGroup' = -1 /\ lastIndexInLastGroup' = -1
      /\ categories' \in Vectors /\ given' = Append(given, categories')
      /\ before' = encodedGroups
  BY SizeIsNat DEF ListInv, GroupBy, arrays
<1>2. PICK P \in SegmentSets : IdleGroups(P)
  BY <1>1 DEF GroupsInv
<1>3. Ids' = Ids /\ SegmentSets' = SegmentSets /\ Permutation'
  BY <1>1 DEF Ids, SegmentSets, GroupsInv, Permutation
<1>4. /\ Len(given) \in Nat /\ Len(given') = Len(given) + 1
      /\ given' # <<>> /\ given'[Len(given')] = categories'
      /\ \A k \in 1 .. Len(given) : given'[k] = given[k]
  BY <1>1 DEF TypeOK
<1>5. ListOf(before, P)'
  BY <1>1, <1>2, <1>3 DEF IdleGroups, ListOf, SegmentsIn, LeadsTo
<1>7. PICK m : m = Len(given)
  OBVIOUS
<1>8. Grouped(P, m)'
  <2>1. \A a, b : EqualUpTo(m, a, b)' <=> EqualUpTo(m, a, b)
    BY <1>4, <1>7 DEF EqualUpTo
  <2> QED
    BY <1>1, <1>2, <1>3, <1>7, <2>1 DEF IdleGroups, Grouped
<1>9. (Len(given) - 1)' = m
  BY <1>4, <1>7
<1>10. \A p \in P : p[1] \in Nat /\ p[2] \in Nat
  BY <1>1, SegmentTypes
<1>11. IsSlot(P, lastIndexInGroup + 1)'
  BY <1>1 DEF IsSlot
<1>12. \A p \in P : ~(p[2] <= lastIndexInGroup')
  BY <1>1, <1>10
<1>13. StillInOrder' => \A p \in P : \A i, j \in p[1] .. p[2] :
         i < j => orderedIds'[i] < orderedIds'[j]
  BY <1>1, <1>2 DEF StillInOrder, IdleGroups
<1>14. OldGroups(P)'
  BY <1>4, <1>5, <1>8, <1>9, <1>11, <1>12, <1>13 DEF OldGroups
<1>15. NewGroups(P, {})'
  <2>1. ListTo(encodedGroups, {}, lastIndexInLastGroup + 1)'
    BY <1>1 DEF ListTo, SegmentsIn, IsSlot
  <2>2. \A i \in Ids : ~(i < Processed')
    BY <1>1 DEF Processed, Ids
  <2> QED
    BY <1>3, <2>1, <2>2 DEF NewGroups
<1>16. {} \in SegmentSets'
  BY DEF SegmentSets
<1> QED
  BY <1>1, <1>3, <1>14, <1>15, <1>16 DEF GroupsInv

(* The next old group, if there is one, is the next of the old segments.   *)
LEMMA OldSegment ==
  ASSUME ListInv, pc = "outer", NEW P \in SegmentSets, OldGroups(P),
         NEW c, c = lastIndexInGroup + 1
  PROVE  /\ OldGroupLeft =>
              \E r \in P : /\ r[1] = encodedGroups[c] /\ r[2] = encodedGroups[r[1] + 1]
                           /\ c <= r[1] /\ \A p \in P : p[1] < c \/ r[1] <= p[1]
         /\ ~OldGroupLeft => \A p \in P : p[1] < c
<1>1. /\ n \in Nat /\ lastIndexInGroup \in -1 .. n - 1 /\ IsSlot(P, c) /\ c \in 0 .. n
      /\ ListOf(before, P)
  BY SizeIsNat DEF ListInv, TypeOK, OldGroups
<1>2. \A p \in P : /\ p[1] \in Nat /\ p[2] \in Nat /\ p[1] < p[2] /\ p[2] < n
                   /\ before[p[1] + 1] = p[2]
  BY <1>1, SegmentTypes DEF ListOf, SegmentsIn
<1>3. \A i \in Ids : i > lastIndexInGroup => encodedGroups[i] = before[i]
  BY DEF ListInv, UnreadLinksKept
<1>4. CASE c = n
  <2>1. ~OldGroupLeft /\ \A p \in P : p[1] < c
    BY <1>1, <1>2, <1>4 DEF OldGroupLeft
  <2> QED
    BY <2>1
<1>5. CASE c < n
  <2>1. c \in Ids /\ before[c] = encodedGroups[c]
    BY <1>1, <1>3, <1>5 DEF Ids
  <2>2. CASE LeadsTo(before, P, c)
    <3>1. PICK r \in P : /\ before[c] = r[1] /\ c <= r[1]
                         /\ \A p \in P : p[1] < c \/ r[1] <= p[1]
      BY <2>2 DEF LeadsTo
    <3>2. r[1] + 1 \in Ids /\ r[1] + 1 > lastIndexInGroup /\ r[1] + 1 < n
      BY <1>1, <1>2, <3>1 DEF Ids
    <3>3. encodedGroups[r[1] + 1] = r[2]
      BY <1>2, <1>3, <3>2
    <3>4. OldGroupLeft
      BY <1>5, <2>1, <3>1, <3>2 DEF OldGroupLeft
    <3> QED
      BY <2>1, <3>1, <3>3, <3>4
  <2>3. CASE before[c] = n /\ \A p \in P : p[1] < c
    <3>1. ~OldGroupLeft
      BY <1>1, <2>1, <2>3 DEF OldGroupLeft
    <3> QED
      BY <2>3, <3>1
  <2> QED
    BY <1>1, <2>1, <2>2, <2>3 DEF ListOf
<1> QED
  BY <1>1, <1>4, <1>5

LEMMA NextGroupGroupsInv == ASSUME ListInv, GroupsInv, NextGroup PROVE GroupsInv'
<1>1. PICK c : c = lastIndexInGroup + 1
  OBVIOUS
<1>2. /\ n \in Nat /\ pc = "outer" /\ pc' = "inner" /\ TypeOK /\ OldGroupLeft /\ Permutation
      /\ UNCHANGED <<n, ops, encodedGroups, categories, lastIndexInLastGroup,
                     given, before, reordered>>
  BY SizeIsNat DEF ListInv, NextGroup, GroupsInv
<1>3. PICK P \in SegmentSets : OldGroups(P) /\ \E Q \in SegmentSets : NewGroups(P, Q)
  BY <1>2 DEF GroupsInv
<1>4. PICK Q \in SegmentSets : NewGroups(P, Q)
  BY <1>3
<1>5. PICK r \in P : /\ r[1] = encodedGroups[c] /\ r[2] = encodedGroups[r[1] + 1]
                     /\ c <= r[1] /\ \A p \in P : p[1] < c \/ r[1] <= p[1]
  BY <1>1, <1>2, <1>3, OldSegment
<1>6. PICK q \in Rearrangements : /\ MovesWithin(q, r[1], r[2])
                                  /\ IsSortedStable(q, categories, r[1], r[2])
                                  /\ orderedIds' = Permuted(q)
  BY <1>1, <1>5 DEF NextGroup
<1>7. lastIndexInGroup' = r[2] /\ newFirstIndex' = r[1] /\ newLastIndex' = r[1]
  BY <1>1, <1>5 DEF NextGroup
<1>8. /\ lastIndexInGroup \in -1 .. n - 1 /\ c \in 0 .. n /\ IsSlot(P, c)
      /\ ListOf(before, P) /\ SegmentsIn(before, P)
      /\ lastIndexInLastGroup \in -1 .. n - 1 /\ lastIndexInLastGroup <= lastIndexInGroup
  BY <1>1, <1>2, <1>3 DEF ListInv, TypeOK, CursorsOK, OldGroups, ListOf
<1>9. \A p \in P : /\ p[1] \in Nat /\ p[2] \in Nat /\ p[1] < p[2] /\ p[2] < n
                   /\ p[1] \in Ids /\ p[2] \in Ids
                   /\ (p = r \/ p[2] < r[1] \/ r[2] < p[1])
                   /\ (p[1] < c => p[2] < c)
  BY <1>2, <1>8, SegmentTypes, EndsBelow DEF SegmentsIn
<1>10. q \in [Ids -> Ids] /\ \A i, j \in Ids : q[i] = q[j] => i = j
  BY <1>2, RearrangementsAreOnto
<1>11. /\ Ids' = Ids /\ SegmentSets' = SegmentSets
       /\ \A i \in Ids : orderedIds'[i] = orderedIds[q[i]]
       /\ \A i \in Ids : i \in r[1] .. r[2] => q[i] \in r[1] .. r[2]
       /\ \A i \in Ids : i \notin r[1] .. r[2] => q[i] = i
  BY <1>2, <1>6 DEF Ids, SegmentSets, Permuted, MovesWithin
<1>12. \A i \in Ids : i \notin r[1] .. r[2] => /\ orderedIds'[i] = orderedIds[i]
                                               /\ Cat(i)' = Cat(i)
  BY <1>2, <1>11 DEF Cat
<1>13. Permutation'
  BY <1>2, <1>6, PermutationKept
<1>14. Grouped(P, Len(given) - 1)'
  <2>1. \A i \in Ids : q[i] = i \/ \E p \in P : i \in p[1] .. p[2] /\ q[i] \in p[1] .. p[2]
    BY <1>11
  <2>2. PICK m : m = Len(given) - 1
    OBVIOUS
  <2>3. Grouped(P, m)
    BY <1>3, <2>2 DEF OldGroups
  <2>4. Grouped(P, m)'
    BY <1>2, <1>6, <1>8, <2>1, <2>3, GroupsMoveTogether
  <2> QED
    BY <1>2, <2>2, <2>4
<1>15. \A i, j \in r[1] .. r[2] : i < j =>
         \/ Cat(i)' < Cat(j)'
         \/ Cat(i)' = Cat(j)' /\ (ops \/ q[i] < q[j])
  <2>1. r[1] .. r[2] \subseteq Ids
    BY <1>2, <1>9 DEF Ids
  <2>2. \A i \in r[1] .. r[2] : Cat(i)' = categories[orderedIds[q[i]]]
    BY <1>2, <1>11, <2>1 DEF Cat
  <2> QED
    BY <1>6, <2>2 DEF IsSortedStable
<1>16. \A i \in Ids : Cat(i)' \in Int /\ Cat(i) \in Int
  <2>1. categories \in [Ids -> Int] /\ orderedIds \in [Ids -> Ids]
    BY <1>2, SplitterAssumption DEF TypeOK, Vectors
  <2>2. \A i \in Ids : orderedIds'[i] \in Ids
    BY <1>10, <1>11, <2>1
  <2> QED
    BY <1>2, <2>1, <2>2 DEF Cat
<1>17. ASSUME NEW p \in P, p # r, NEW i \in p[1] .. p[2]
       PROVE  i \in Ids /\ i \notin r[1] .. r[2]
  <2>1. /\ p[1] \in Nat /\ p[2] \in Nat /\ r[1] \in Nat /\ r[2] \in Nat /\ p[2] < n
        /\ (p[2] < r[1] \/ r[2] < p[1])
    BY <1>9, <1>17
  <2> QED
    BY <1>2, <2>1 DEF Ids
<1>18. ASSUME NEW p \in P, p[2] <= lastIndexInGroup', NEW i \in p[1] .. p[2],
              NEW j \in p[1] .. p[2], i <= j
       PROVE  Cat(i)' <= Cat(j)'
  <2>1. CASE p = r
    <3>1. i \in Ids /\ j \in Ids /\ i \in Int /\ j \in Int
      BY <1>2, <1>9 DEF Ids
    <3>2. CASE i = j
      BY <1>16, <3>1, <3>2
    <3>3. CASE i < j
      BY <1>15, <1>16, <2>1, <3>1, <3>3
    <3> QED
      BY <1>18, <3>1, <3>2, <3>3
  <2>2. CASE p # r
    <3>1. p[2] <= lastIndexInGroup
      BY <1>1, <1>5, <1>7, <1>8, <1>9, <1>18, <2>2
    <3>2. Cat(i) <= Cat(j)
      BY <1>3, <1>18, <3>1 DEF OldGroups
    <3> QED
      BY <1>12, <1>17, <2>2, <3>2
  <2> QED
    BY <2>1, <2>2
<1>19. ASSUME StillInOrder, NEW p \in P, NEW i \in p[1] .. p[2], NEW j \in p[1] .. p[2], i < j,
              p[1] > lastIndexInGroup' \/ Cat(i)' = Cat(j)'
       PROVE  orderedIds'[i] < orderedIds'[j]
  <2>1. CASE p = r
    <3>1. i \in Ids /\ j \in Ids /\ i \in r[1] .. r[2] /\ j \in r[1] .. r[2]
      BY <1>2, <1>9, <2>1 DEF Ids
    <3>2. r[1] \in Int /\ r[1] > lastIndexInGroup /\ ~(r[1] > lastIndexInGroup')
      BY <1>1, <1>5, <1>7, <1>8, <1>9
    <3>3. q[i] < q[j]
      BY <1>15, <1>16, <1>19, <2>1, <3>1, <3>2 DEF StillInOrder
    <3>4. q[i] \in r[1] .. r[2] /\ q[j] \in r[1] .. r[2]
      BY <1>11, <3>1
    <3>5. orderedIds[q[i]] < orderedIds[q[j]]
      BY <1>3, <1>19, <3>2, <3>3, <3>4 DEF OldGroups
    <3> QED
      BY <1>11, <3>1, <3>5
  <2>2. CASE p # r
    <3>1. /\ i \in Ids /\ j \in Ids /\ orderedIds'[i] = orderedIds[i]
          /\ orderedIds'[j] = orderedIds[j] /\ Cat(i)' = Cat(i) /\ Cat(j)' = Cat(j)
      BY <1>12, <1>17, <2>2
    <3>2. p[1] > lastIndexInGroup \/ Cat(i) = Cat(j)
      BY <1>1, <1>5, <1>7, <1>8, <1>9, <1>19, <3>1
    <3>3. orderedIds[i] < orderedIds[j]
      BY <1>3, <1>19, <3>2 DEF OldGroups
    <3> QED
      BY <3>1, <3>3
  <2> QED
    BY <2>1, <2>2
<1>20. OldGroups(P)'
  <2>1. ListOf(before, P)'
    BY <1>2, <1>8 DEF ListOf, SegmentsIn, LeadsTo, Ids
  <2>2. IsSlot(P, lastIndexInGroup + 1)'
    BY <1>7 DEF IsSlot
  <2>3. (given # <<>> /\ given[Len(given)] = categories)'
    BY <1>2, <1>3 DEF OldGroups
  <2>4. StillInOrder' <=> StillInOrder
    BY <1>2 DEF StillInOrder
  <2> QED
    BY <1>14, <1>18, <1>19, <2>1, <2>2, <2>3, <2>4 DEF OldGroups
<1>21. NewGroups(P, Q)'
  <2>1. /\ ListTo(encodedGroups, Q, lastIndexInLastGroup + 1)
        /\ \A i, j \in Ids : i # j /\ i < c /\ j < c =>
             (Together(Q, i, j) <=> Together(P, i, j) /\ Cat(i) = Cat(j))
    BY <1>1, <1>2, <1>4 DEF NewGroups, Processed
  <2>2. ListTo(encodedGroups, Q, lastIndexInLastGroup + 1)'
    BY <1>2, <2>1 DEF ListTo, SegmentsIn, LeadsTo, Ids
  <2>3. ASSUME NEW i \in Ids, NEW j \in Ids, i # j, i < r[1], j < r[1]
        PROVE  Together(Q, i, j) <=> Together(P, i, j) /\ Cat(i)' = Cat(j)'
    <3>1. Cat(i)' = Cat(i) /\ Cat(j)' = Cat(j) /\ i \in Int /\ j \in Int
      BY <1>2, <1>9, <1>12, <2>3 DEF Ids
    <3>2. CASE i < c /\ j < c
      BY <2>1, <2>3, <3>1, <3>2
    <3>3. CASE ~(i < c /\ j < c)
      <4>1. ASSUME NEW p \in P, i \in p[1] .. p[2], j \in p[1] .. p[2] PROVE FALSE
        <5>1. /\ p[1] \in Nat /\ p[2] \in Nat /\ (p[1] < c \/ r[1] <= p[1])
              /\ (p[1] < c => p[2] < c) /\ r[1] \in Nat
          BY <1>5, <1>9
        <5> QED
          BY <1>8, <2>3, <3>1, <3>3, <4>1, <5>1
      <4>2. ASSUME NEW p \in Q, i \in p[1] .. p[2], j \in p[1] .. p[2] PROVE FALSE
        <5>1. p[1] \in Nat /\ p[2] \in Nat
          BY <1>2, SegmentTypes
        <5>2. p[2] < lastIndexInLastGroup + 1
          BY <2>1 DEF ListTo
        <5> QED
          BY <1>1, <1>8, <3>1, <3>3, <4>2, <5>1, <5>2
      <4> QED
        BY <4>1, <4>2 DEF Together
    <3> QED
      BY <3>2, <3>3
  <2>4. Processed' = r[1]
    BY <1>2, <1>7 DEF Processed
  <2> QED
    BY <1>11, <2>2, <2>3, <2>4 DEF NewGroups
<1>22. Window(P)'
  <2>1. \A i \in r[1] .. r[1] : Cat(i)' = Cat(r[1])'
    BY <1>9
  <2>2. r[1] .. r[1] - 1 = {}
    BY <1>9
  <2>3. Cat(newFirstIndex)' = Cat(r[1])'
    BY <1>7 DEF Cat
  <2>4. r[1] <= r[1]
    BY <1>9
  <2> QED
    BY <1>7, <2>1, <2>2, <2>3, <2>4 DEF Window
<1> QED
  BY <1>2, <1>11, <1>13, <1>20, <1>21, <1>22 DEF GroupsInv

(* In the midst of an old group: what the window says of it.               *)
LEMMA InWindow ==
  ASSUME ListInv, pc = "inner", NEW P \in SegmentSets, OldGroups(P), Window(P)
  PROVE  /\ \A i \in Ids : Cat(i) \in Int
         /\ \E r \in P :
              /\ r[1] \in Nat /\ r[2] = lastIndexInGroup /\ r[1] <= newFirstIndex
              /\ \A i \in newFirstIndex .. newLastIndex : Cat(i) = Cat(newFirstIndex)
              /\ \A i \in r[1] .. newFirstIndex - 1 : Cat(i) # Cat(newFirstIndex)
              /\ \A i, j \in r[1] .. r[2] : i <= j => Cat(i) <= Cat(j)
              /\ \A p \in P : p = r \/ p[2] < r[1] \/ r[2] < p[1]
<1>1. \A i \in Ids : Cat(i) \in Int
  BY SplitterAssumption DEF ListInv, TypeOK, Vectors, Cat
<1>2. PICK r \in P :
        /\ r[2] = lastIndexInGroup /\ r[1] <= newFirstIndex
        /\ \A i \in newFirstIndex .. newLastIndex : Cat(i) = Cat(newFirstIndex)
        /\ \A i \in r[1] .. newFirstIndex - 1 : Cat(i) # Cat(newFirstIndex)
  BY DEF Window
<1>3. r[1] \in Nat
  BY InnerBounds, SegmentTypes
<1>4. \A i, j \in r[1] .. r[2] : i <= j => Cat(i) <= Cat(j)
  <2>1. r[2] <= lastIndexInGroup
    BY <1>2, InnerBounds
  <2> QED
    BY <2>1 DEF OldGroups
<1>5. \A p \in P : p = r \/ p[2] < r[1] \/ r[2] < p[1]
  BY DEF OldGroups, ListOf, SegmentsIn
<1> QED
  BY <1>1, <1>2, <1>3, <1>4, <1>5

(* The old groups are not concerned by the search for new ones.            *)
LEMMA OldGroupsKept ==
  ASSUME NEW P, OldGroups(P),
         UNCHANGED <<n, ops, orderedIds, categories, lastIndexInGroup, given, before, reordered>>
  PROVE  OldGroups(P)'
<1>1. Ids' = Ids /\ (StillInOrder' <=> StillInOrder) /\ \A i : Cat(i)' = Cat(i)
  BY DEF Ids, StillInOrder, Cat
<1>2. ListOf(before, P)' /\ IsSlot(P, lastIndexInGroup + 1)'
  BY <1>1 DEF OldGroups, ListOf, SegmentsIn, LeadsTo, IsSlot
<1>3. \A m : Grouped(P, m)' <=> Grouped(P, m)
  BY <1>1 DEF Grouped, EqualUpTo
<1> QED
  BY <1>1, <1>2, <1>3 DEF OldGroups

(* A group of more ids continues.                                          *)
LEMMA ContinueGroupsInv == ASSUME ListInv, GroupsInv, Continue PROVE GroupsInv'
<1>1. /\ pc = "inner" /\ pc' = "inner" /\ newLastIndex # lastIndexInGroup
      /\ Cat(newLastIndex) = Cat(newLastIndex + 1) /\ newLastIndex' = newLastIndex + 1
      /\ UNCHANGED <<n, ops, orderedIds, encodedGroups, categories, lastIndexInGroup,
                     lastIndexInLastGroup, newFirstIndex, given, before, reordered>>
  BY DEF Continue, CategoryContinues, Advance, Cat
<1>2. PICK P \in SegmentSets : /\ OldGroups(P) /\ Window(P)
                               /\ \E Q \in SegmentSets : NewGroups(P, Q)
  BY <1>1 DEF GroupsInv
<1>3. PICK Q \in SegmentSets : NewGroups(P, Q)
  BY <1>2
<1>4. Ids' = Ids /\ SegmentSets' = SegmentSets /\ \A i : Cat(i)' = Cat(i)
  BY <1>1 DEF Ids, SegmentSets, Cat
<1>5. OldGroups(P)'
  BY <1>1, <1>2, OldGroupsKept
<1>6. NewGroups(P, Q)'
  <2>1. ListTo(encodedGroups, Q, lastIndexInLastGroup + 1)'
    BY <1>1, <1>3, <1>4 DEF NewGroups, ListTo, SegmentsIn, LeadsTo
  <2>2. Processed' = Processed
    BY <1>1 DEF Processed
  <2> QED
    BY <1>3, <1>4, <2>1, <2>2 DEF NewGroups
<1>7. Window(P)'
  <2>1. PICK r \in P :
          /\ r[2] = lastIndexInGroup /\ r[1] <= newFirstIndex
          /\ \A i \in newFirstIndex .. newLastIndex : Cat(i) = Cat(newFirstIndex)
          /\ \A i \in r[1] .. newFirstIndex - 1 : Cat(i) # Cat(newFirstIndex)
    BY <1>2 DEF Window
  <2>2. newFirstIndex \in Int /\ newLastIndex \in Int /\ newFirstIndex <= newLastIndex
    BY <1>1, InnerBounds
  <2>3. \A i \in newFirstIndex .. newLastIndex + 1 : Cat(i) = Cat(newFirstIndex)
    <3>1. \A i \in newFirstIndex .. newLastIndex + 1 :
            i \in newFirstIndex .. newLastIndex \/ i = newLastIndex + 1
      BY <2>2
    <3>2. newLastIndex \in newFirstIndex .. newLastIndex
      BY <2>2
    <3> QED
      BY <1>1, <2>1, <3>1, <3>2
  <2>4. Cat(newFirstIndex)' = Cat(newFirstIndex)
    BY <1>1 DEF Cat
  <2> QED
    BY <1>1, <1>4, <2>1, <2>3, <2>4 DEF Window
<1>8. Permutation'
  BY <1>1, <1>4 DEF GroupsInv, Permutation
<1> QED
  BY <1>1, <1>4, <1>5, <1>6, <1>7, <1>8 DEF GroupsInv

(* The ids of the window are those of its category, up to where it ends:    *)
(* Q, with the window if there are two of them, groups what has been       *)
(* processed then.                                                         *)
LEMMA WindowEnds ==
  ASSUME ListInv, pc = "inner", ~CategoryContinues,
         NEW P \in SegmentSets, OldGroups(P), Window(P),
         NEW Q \in SegmentSets, NewGroups(P, Q),
         NEW R, R = Q \cup (IF newLastIndex > newFirstIndex
                              THEN {<<newFirstIndex, newLastIndex>>} ELSE {})
  PROVE  /\ \A i, j \in Ids : i # j /\ i <= newLastIndex /\ j <= newLastIndex =>
              (Together(R, i, j) <=> Together(P, i, j) /\ Cat(i) = Cat(j))
         /\ newLastIndex # lastIndexInGroup =>
              \E r \in P : /\ r[2] = lastIndexInGroup /\ r[1] <= newLastIndex
                           /\ \A i \in r[1] .. newLastIndex : Cat(i) # Cat(newLastIndex + 1)
<1>1. PICK f : f = newFirstIndex
  OBVIOUS
<1>2. PICK l : l = newLastIndex
  OBVIOUS
<1>3. /\ n \in Nat /\ f \in Nat /\ l \in Nat /\ f <= l /\ l <= lastIndexInGroup
      /\ lastIndexInLastGroup \in Int /\ lastIndexInGroup \in Int
      /\ lastIndexInLastGroup < f /\ lastIndexInGroup < n
  BY <1>1, <1>2, InnerBounds
<1>4. \A i \in Ids : Cat(i) \in Int
  BY InWindow
<1>5. PICK r \in P :
        /\ r[1] \in Nat /\ r[2] = lastIndexInGroup /\ r[1] <= f
        /\ \A i \in f .. l : Cat(i) = Cat(f)
        /\ \A i \in r[1] .. f - 1 : Cat(i) # Cat(f)
        /\ \A i, j \in r[1] .. r[2] : i <= j => Cat(i) <= Cat(j)
        /\ \A p \in P : p = r \/ p[2] < r[1] \/ r[2] < p[1]
  BY <1>1, <1>2, InWindow
<1>6. \A p \in Q : p[1] \in Nat /\ p[2] \in Nat /\ p[2] < f
  <2>1. \A p \in Q : p[2] < lastIndexInLastGroup + 1
    BY DEF NewGroups, ListTo
  <2> QED
    BY <1>3, <2>1, SegmentTypes
<1>7. \A i, j \in Ids : i # j /\ i < f /\ j < f =>
        (Together(Q, i, j) <=> Together(P, i, j) /\ Cat(i) = Cat(j))
  BY <1>1 DEF NewGroups, Processed
<1>8. \A i, j : Together(R, i, j) <=> \/ Together(Q, i, j)
                                      \/ l > f /\ i \in f .. l /\ j \in f .. l
  <2>1. <<f, l>>[1] = f /\ <<f, l>>[2] = l
    OBVIOUS
  <2>2. CASE l > f
    BY <1>1, <1>2, <2>1, <2>2 DEF Together
  <2>3. CASE ~(l > f)
    BY <1>1, <1>2, <2>3 DEF Together
  <2> QED
    BY <2>2, <2>3
<1>9. \A i, j : Together(Q, i, j) <=> Together(Q, j, i)
  BY DEF Together
<1>10. \A i, j : Together(P, i, j) <=> Together(P, j, i)
  BY DEF Together
<1>11. ASSUME NEW i \in Ids, NEW j \in Ids, i < f, f <= j, j <= l
       PROVE  ~Together(R, i, j) /\ ~(Together(P, i, j) /\ Cat(i) = Cat(j))
  <2>1. i \in Int /\ j \in Int
    BY <1>3 DEF Ids
  <2>2. ~Together(Q, i, j)
    BY <1>3, <1>6, <1>11, <2>1 DEF Together
  <2>3. ASSUME NEW p \in P, i \in p[1] .. p[2], j \in p[1] .. p[2] PROVE Cat(i) # Cat(j)
    <3>1. p[1] \in Nat /\ p[2] \in Nat
      BY <1>3, SegmentTypes
    <3>2. p = r
      BY <1>3, <1>5, <1>11, <2>1, <2>3, <3>1
    <3>3. i \in r[1] .. f - 1 /\ j \in f .. l
      BY <1>3, <1>5, <1>11, <2>1, <2>3, <3>1, <3>2
    <3> QED
      BY <1>5, <3>3
  <2> QED
    BY <1>3, <1>8, <1>11, <2>1, <2>2, <2>3 DEF Together
<1>12. ASSUME NEW i \in Ids, NEW j \in Ids, i # j, f <= i, i <= l, f <= j, j <= l
       PROVE  Together(R, i, j) /\ Together(P, i, j) /\ Cat(i) = Cat(j)
  <2>1. i \in f .. l /\ j \in f .. l /\ l > f
    BY <1>3, <1>12 DEF Ids
  <2>2. i \in r[1] .. r[2] /\ j \in r[1] .. r[2]
    BY <1>3, <1>5, <2>1
  <2> QED
    BY <1>5, <1>8, <2>1, <2>2 DEF Together
<1>13. ASSUME NEW i \in Ids, NEW j \in Ids, i # j, i <= l, j <= l
       PROVE  Together(R, i, j) <=> Together(P, i, j) /\ Cat(i) = Cat(j)
  <2>1. i \in Int /\ j \in Int
    BY <1>3 DEF Ids
  <2>2. CASE i < f /\ j < f
    BY <1>3, <1>7, <1>8, <1>13, <2>1, <2>2
  <2>3. CASE i < f /\ ~(j < f)
    BY <1>3, <1>11, <1>13, <2>1, <2>3
  <2>4. CASE ~(i < f) /\ j < f
    <3>1. ~Together(R, j, i) /\ ~(Together(P, j, i) /\ Cat(j) = Cat(i))
      BY <1>3, <1>11, <1>13, <2>1, <2>4
    <3>2. Together(R, i, j) <=> Together(R, j, i)
      BY DEF Together
    <3> QED
      BY <1>10, <3>1, <3>2
  <2>5. CASE ~(i < f) /\ ~(j < f)
    BY <1>3, <1>12, <1>13, <2>1, <2>5
  <2> QED
    BY <2>2, <2>3, <2>4, <2>5
<1>14. ASSUME l # lastIndexInGroup
       PROVE  \A i \in r[1] .. l : Cat(i) # Cat(l + 1)
  <2>1. Cat(l) # Cat(l + 1)
    BY <1>2, <1>14 DEF CategoryContinues, Cat
  <2> SUFFICES ASSUME NEW i \in r[1] .. l PROVE Cat(i) # Cat(l + 1)
    OBVIOUS
  <2>2. /\ i \in r[1] .. r[2] /\ l \in r[1] .. r[2] /\ l + 1 \in r[1] .. r[2] /\ i <= l
        /\ i \in Ids /\ l \in Ids /\ l + 1 \in Ids
    BY <1>3, <1>5, <1>14 DEF Ids
  <2>3. Cat(i) <= Cat(l) /\ Cat(l) <= Cat(l + 1)
    BY <1>3, <1>5, <2>2
  <2>4. Cat(i) \in Int /\ Cat(l) \in Int /\ Cat(l + 1) \in Int
    BY <1>4, <2>2
  <2> QED
    BY <2>1, <2>3, <2>4
<1>15. r[1] <= l
  BY <1>3, <1>5
<1> QED
  BY <1>2, <1>5, <1>13, <1>14, <1>15

(* A new group has ended: it is in the list if it has two ids or more.     *)
LEMMA EndGroupsInv == ASSUME ListInv, GroupsInv, EndSingle \/ EndGroup PROVE GroupsInv'
<1>1. PICK f : f = newFirstIndex
  OBVIOUS
<1>2. PICK l : l = newLastIndex
  OBVIOUS
<1>3. PICK t : t = lastIndexInLastGroup + 1
  OBVIOUS
<1>4. /\ pc = "inner" /\ ~CategoryContinues
      /\ pc' = (IF l = lastIndexInGroup THEN "outer" ELSE "inner")
      /\ newFirstIndex' = l + 1 /\ newLastIndex' = l + 1
      /\ UNCHANGED <<n, ops, orderedIds, categories, lastIndexInGroup, given, before, reordered>>
  BY <1>2 DEF EndSingle, EndGroup, Advance
<1>5. /\ n \in Nat /\ f \in Nat /\ l \in Nat /\ f <= l /\ l <= lastIndexInGroup
      /\ t \in Int /\ lastIndexInGroup \in Int /\ t <= f /\ lastIndexInGroup < n /\ 0 <= t
  BY <1>1, <1>2, <1>3, <1>4, InnerBounds
<1>6. PICK P \in SegmentSets : /\ OldGroups(P) /\ Window(P)
                               /\ \E Q \in SegmentSets : NewGroups(P, Q)
  BY <1>4 DEF GroupsInv
<1>7. PICK Q \in SegmentSets : NewGroups(P, Q)
  BY <1>6
<1>8. PICK R : R = Q \cup (IF l > f THEN {<<f, l>>} ELSE {})
  OBVIOUS
<1>9. /\ \A i, j \in Ids : i # j /\ i <= l /\ j <= l =>
           (Together(R, i, j) <=> Together(P, i, j) /\ Cat(i) = Cat(j))
      /\ l # lastIndexInGroup =>
           \E r \in P : /\ r[2] = lastIndexInGroup /\ r[1] <= l
                        /\ \A i \in r[1] .. l : Cat(i) # Cat(l + 1)
  BY <1>1, <1>2, <1>4, <1>6, <1>7, <1>8, WindowEnds
<1>10. /\ Ids' = Ids /\ SegmentSets' = SegmentSets /\ \A i : Cat(i)' = Cat(i)
  BY <1>4 DEF Ids, SegmentSets, Cat
<1>11. R \in SegmentSets
  <2>1. f \in Ids /\ l \in Ids
    BY <1>5 DEF Ids
  <2> QED
    BY <1>8, <2>1 DEF SegmentSets
<1>12. ListTo(encodedGroups, R, lastIndexInLastGroup + 1)'
  <2>1. ListTo(encodedGroups, Q, t)
    BY <1>3, <1>7 DEF NewGroups
  <2>2. CASE EndSingle
    <3>1. R = Q
      BY <1>1, <1>2, <1>5, <1>8, <2>2 DEF EndSingle
    <3>2. UNCHANGED <<encodedGroups, lastIndexInLastGroup>>
      BY <2>2 DEF EndSingle
    <3> QED
      BY <1>3, <1>10, <2>1, <3>1, <3>2 DEF ListTo, SegmentsIn, LeadsTo
  <2>3. CASE EndGroup
    <3>1. PICK w : w = <<f, l>>
      OBVIOUS
    <3>2. l > f /\ R = Q \cup {w} /\ w[1] = f /\ w[2] = l
      BY <1>1, <1>2, <1>8, <2>3, <3>1 DEF EndGroup
    <3>3. /\ encodedGroups' = [encodedGroups EXCEPT ![t] = f, ![f + 1] = l]
          /\ lastIndexInLastGroup' + 1 = l + 1
      BY <1>1, <1>2, <1>3, <2>3 DEF EndGroup
    <3>4. t \in Ids /\ f + 1 \in Ids /\ encodedGroups \in [Ids -> 0 .. n]
      <4>1. t \in Ids /\ f + 1 \in Ids
        BY <1>5, <3>2 DEF Ids
      <4> QED
        BY <4>1 DEF ListInv, TypeOK
    <3>5. /\ encodedGroups'[t] = f /\ encodedGroups'[f + 1] = l
          /\ \A i \in Ids : i # t /\ i # f + 1 => encodedGroups'[i] = encodedGroups[i]
      BY <1>5, <3>3, <3>4
    <3>6. \A p \in Q : /\ p[1] \in Nat /\ p[2] \in Nat /\ p[1] < p[2] /\ p[2] < t
                       /\ p[1] + 1 \in Ids /\ encodedGroups[p[1] + 1] = p[2]
      <4> SUFFICES ASSUME NEW p \in Q
                   PROVE  /\ p[1] \in Nat /\ p[2] \in Nat /\ p[1] < p[2] /\ p[2] < t
                          /\ p[1] + 1 \in Ids /\ encodedGroups[p[1] + 1] = p[2]
        OBVIOUS
      <4>1. p[1] \in Nat /\ p[2] \in Nat /\ p[2] < n
        BY <1>5, SegmentTypes
      <4>2. p[1] < p[2] /\ p[2] < t /\ encodedGroups[p[1] + 1] = p[2]
        BY <2>1 DEF ListTo, SegmentsIn
      <4> QED
        BY <1>5, <4>1, <4>2 DEF Ids
    <3>7. SegmentsIn(encodedGroups', R)
      <4>1. ASSUME NEW p \in R PROVE p[1] < p[2] /\ encodedGroups'[p[1] + 1] = p[2]
        <5>1. CASE p = w
          BY <3>2, <3>5, <5>1
        <5>2. CASE p \in Q
          <6>1. p[1] + 1 # t /\ p[1] + 1 # f + 1
            BY <1>5, <3>6, <5>2
          <6> QED
            BY <3>5, <3>6, <5>2, <6>1
        <5> QED
          BY <3>2, <5>1, <5>2
      <4>2. ASSUME NEW p \in Q PROVE p[2] < w[1]
        BY <1>5, <3>2, <3>6
      <4>3. \A p, r \in Q : p = r \/ p[2] < r[1] \/ r[2] < p[1]
        BY <2>1 DEF ListTo, SegmentsIn
      <4> QED
        BY <3>2, <4>1, <4>2, <4>3 DEF SegmentsIn
    <3>8. IsSlot(R, l + 1) /\ \A p \in R : p[2] < l + 1
      BY <1>5, <3>2, <3>6 DEF IsSlot
    <3>9. ASSUME NEW s \in Ids, IsSlot(R, s), s # l + 1 PROVE LeadsTo(encodedGroups', R, s)
      <4>1. IsSlot(Q, s)
        BY <3>2, <3>9 DEF IsSlot
      <4>2. CASE s = t
        <5>1. \A p \in R : p[1] < s \/ w[1] <= p[1]
          BY <1>5, <3>2, <3>6, <4>2
        <5> QED
          BY <1>5, <3>2, <3>5, <4>2, <5>1 DEF LeadsTo
      <4>3. CASE s # t
        <5>1. LeadsTo(encodedGroups, Q, s)
          BY <2>1, <3>9, <4>1, <4>3 DEF ListTo
        <5>2. PICK r \in Q : /\ encodedGroups[s] = r[1] /\ s <= r[1]
                             /\ \A p \in Q : p[1] < s \/ r[1] <= p[1]
          BY <5>1 DEF LeadsTo
        <5>3. encodedGroups'[s] = encodedGroups[s]
          <6>1. s # f + 1
            BY <1>5, <3>6, <5>2, <3>9 DEF Ids
          <6> QED
            BY <3>5, <4>3, <6>1
        <5>4. \A p \in R : p[1] < s \/ r[1] <= p[1]
          BY <1>5, <3>2, <3>6, <5>2
        <5> QED
          BY <3>2, <5>2, <5>3, <5>4 DEF LeadsTo
      <4> QED
        BY <4>2, <4>3
    <3> QED
      BY <1>10, <3>3, <3>7, <3>8, <3>9 DEF ListTo
  <2> QED
    BY <2>2, <2>3
<1>13. Processed' = l + 1
  BY <1>4 DEF Processed
<1>14. NewGroups(P, R)'
  <2>1. \A i \in Ids : i < l + 1 <=> i <= l
    BY <1>5 DEF Ids
  <2> QED
    BY <1>9, <1>10, <1>12, <1>13, <2>1 DEF NewGroups
<1>15. OldGroups(P)'
  BY <1>4, <1>6, OldGroupsKept
<1>16. pc' = "inner" => Window(P)'
  <2> SUFFICES ASSUME l # lastIndexInGroup PROVE Window(P)'
    BY <1>4
  <2>1. PICK r \in P : /\ r[2] = lastIndexInGroup /\ r[1] <= l
                       /\ \A i \in r[1] .. l : Cat(i) # Cat(l + 1)
    BY <1>9
  <2>2. r[1] \in Nat /\ r[1] <= l + 1 /\ (l + 1) - 1 = l
    BY <1>5, <2>1, SegmentTypes
  <2>3. \A i \in l + 1 .. l + 1 : Cat(i) = Cat(l + 1)
    BY <1>5
  <2>4. Cat(newFirstIndex)' = Cat(l + 1)
    BY <1>4 DEF Cat
  <2> QED
    BY <1>4, <1>10, <2>1, <2>2, <2>3, <2>4 DEF Window
<1>17. Permutation'
  BY <1>4, <1>10 DEF GroupsInv, Permutation
<1>18. pc' # "idle"
  BY <1>4
<1> QED
  BY <1>10, <1>11, <1>14, <1>15, <1>16, <1>17, <1>18 DEF GroupsInv

(* The new list is terminated: the new groups are the groups.              *)
LEMMA ReturnGroupsInv == ASSUME ListInv, GroupsInv, Return PROVE GroupsInv'
<1>1. PICK t : t = lastIndexInLastGroup + 1
  OBVIOUS
<1>2. PICK c : c = lastIndexInGroup + 1
  OBVIOUS
<1>3. /\ n \in Nat /\ pc = "outer" /\ pc' = "idle" /\ ~OldGroupLeft /\ Permutation
      /\ UNCHANGED <<n, ops, orderedIds, categories, given, before, reordered>>
      /\ encodedGroups' = [i \in Ids |-> IF i = t THEN n ELSE encodedGroups[i]]
      /\ encodedGroups \in [Ids -> 0 .. n]
      /\ t \in Int /\ c \in Int /\ t <= c /\ 0 <= t /\ c <= n
  <2>1. /\ n \in Nat /\ lastIndexInGroup \in -1 .. n - 1 /\ lastIndexInLastGroup \in -1 .. n - 1
        /\ lastIndexInLastGroup <= lastIndexInGroup
    BY SizeIsNat DEF ListInv, TypeOK, CursorsOK, Return
  <2> QED
    BY <1>1, <1>2, <2>1 DEF ListInv, TypeOK, GroupsInv, Return
<1>4. PICK P \in SegmentSets : OldGroups(P) /\ \E Q \in SegmentSets : NewGroups(P, Q)
  BY <1>3 DEF GroupsInv
<1>5. PICK Q \in SegmentSets : NewGroups(P, Q)
  BY <1>4
<1>6. \A p \in P : p[1] \in Nat /\ p[2] \in Nat /\ p[2] < c
  <2>1. IsSlot(P, c) /\ SegmentsIn(before, P)
    BY <1>2, <1>4 DEF OldGroups, ListOf
  <2>2. \A p \in P : p[1] < c
    BY <1>2, <1>3, <1>4, OldSegment
  <2> QED
    BY <1>3, <2>1, <2>2, SegmentTypes, EndsBelow
<1>7. /\ ListTo(encodedGroups, Q, t)
      /\ \A i, j \in Ids : i # j /\ i < c /\ j < c =>
           (Together(Q, i, j) <=> Together(P, i, j) /\ Cat(i) = Cat(j))
  BY <1>1, <1>2, <1>3, <1>5 DEF NewGroups, Processed
<1>8. \A p \in Q : /\ p[1] \in Nat /\ p[2] \in Nat /\ p[1] < p[2] /\ p[2] < t
                   /\ p[1] + 1 \in Ids /\ encodedGroups[p[1] + 1] = p[2]
  <2> SUFFICES ASSUME NEW p \in Q
               PROVE  /\ p[1] \in Nat /\ p[2] \in Nat /\ p[1] < p[2] /\ p[2] < t
                      /\ p[1] + 1 \in Ids /\ encodedGroups[p[1] + 1] = p[2]
    OBVIOUS
  <2>1. p[1] \in Nat /\ p[2] \in Nat /\ p[2] < n
    BY <1>3, SegmentTypes
  <2>2. p[1] < p[2] /\ p[2] < t /\ encodedGroups[p[1] + 1] = p[2]
    BY <1>7 DEF ListTo, SegmentsIn
  <2> QED
    BY <1>3, <2>1, <2>2 DEF Ids
<1>9. Ids' = Ids /\ SegmentSets' = SegmentSets /\ (StillInOrder' <=> StillInOrder)
  BY <1>3 DEF Ids, SegmentSets, StillInOrder
<1>10. ListOf(encodedGroups, Q)'
  <2>1. SegmentsIn(encodedGroups', Q)
    <3>1. ASSUME NEW p \in Q PROVE p[1] < p[2] /\ encodedGroups'[p[1] + 1] = p[2]
      <4>1. p[1] + 1 # t
        BY <1>3, <1>8
      <4> QED
        BY <1>3, <1>8, <4>1
    <3> QED
      BY <1>7, <3>1 DEF ListTo, SegmentsIn
  <2>2. ASSUME NEW s \in Ids, IsSlot(Q, s)
        PROVE  LeadsTo(encodedGroups', Q, s) \/ (encodedGroups'[s] = n /\ \A p \in Q : p[1] < s)
    <3>1. CASE s = t
      <4>1. \A p \in Q : p[1] < s
        BY <1>3, <1>8, <3>1
      <4> QED
        BY <1>3, <3>1, <4>1
    <3>2. CASE s # t
      <4>1. LeadsTo(encodedGroups, Q, s)
        BY <1>7, <2>2, <3>2 DEF ListTo
      <4>2. encodedGroups'[s] = encodedGroups[s]
        BY <1>3, <3>2
      <4> QED
        BY <4>1, <4>2 DEF LeadsTo
    <3> QED
      BY <3>1, <3>2
  <2> QED
    BY <1>3, <1>9, <2>1, <2>2 DEF ListOf
<1>11. ASSUME NEW i \in Ids, NEW j \in Ids, i # j
       PROVE  Together(Q, i, j) <=> Together(P, i, j) /\ Cat(i) = Cat(j)
  <2>1. CASE i < c /\ j < c
    BY <1>7, <1>11, <2>1
  <2>2. CASE ~(i < c /\ j < c)
    <3>1. i \in Int /\ j \in Int
      BY <1>3 DEF Ids
    <3>2. ~Together(P, i, j)
      BY <1>3, <1>6, <2>2, <3>1 DEF Together
    <3>3. ~Together(Q, i, j)
      BY <1>3, <1>8, <2>2, <3>1 DEF Together
    <3> QED
      BY <3>2, <3>3
  <2> QED
    BY <2>1, <2>2
<1>12. Grouped(Q, Len(given))'
  <2>1. PICK m : m = Len(given)
    OBVIOUS
  <2>2. m \in Nat /\ m >= 1 /\ given[m] = categories /\ Grouped(P, m - 1)
    <3>1. given \in Seq(Vectors) /\ given # <<>>
      BY <1>4 DEF ListInv, TypeOK, OldGroups
    <3>2. Len(given) \in Nat /\ Len(given) # 0
      BY <3>1
    <3> QED
      BY <1>4, <2>1, <3>2 DEF OldGroups
  <2>3. \A a, b : EqualUpTo(m, a, b) <=> EqualUpTo(m - 1, a, b) /\ given[m][a] = given[m][b]
    <3>1. \A k : k \in 1 .. m <=> k \in 1 .. m - 1 \/ k = m
      BY <2>2
    <3> QED
      BY <3>1 DEF EqualUpTo
  <2>4. \A i, j \in Ids : i # j =>
          (EqualUpTo(m, orderedIds[i], orderedIds[j]) <=> Together(Q, i, j))
    BY <1>11, <2>2, <2>3 DEF Grouped, Cat
  <2> QED
    BY <1>3, <1>9, <2>1, <2>4 DEF Grouped, EqualUpTo
<1>13. ASSUME StillInOrder, NEW p \in Q, NEW i \in p[1] .. p[2], NEW j \in p[1] .. p[2], i < j
       PROVE  orderedIds[i] < orderedIds[j]
  <2>1. i \in Ids /\ j \in Ids /\ i # j
    <3>1. p[1] \in Nat /\ p[2] \in Nat /\ p[2] < n
      BY <1>3, SegmentTypes
    <3> QED
      BY <1>3, <1>13, <3>1 DEF Ids
  <2>2. Together(Q, i, j)
    BY DEF Together
  <2>3. PICK r \in P : i \in r[1] .. r[2] /\ j \in r[1] .. r[2] /\ Cat(i) = Cat(j)
    BY <1>11, <2>1, <2>2 DEF Together
  <2> QED
    BY <1>4, <1>13, <2>3 DEF OldGroups
<1>14. IdleGroups(Q)'
  BY <1>3, <1>9, <1>10, <1>12, <1>13 DEF IdleGroups
<1>15. Permutation'
  BY <1>3, <1>9 DEF Permutation
<1> QED
  BY <1>3, <1>9, <1>14, <1>15 DEF GroupsInv

(* Sorting and shuffling the groups moves ids within their group.          *)
LEMMA ReorderGroupsInv == ASSUME ListInv, GroupsInv, SortGroupsBy \/ ShuffleGroups PROVE GroupsInv'
<1>1. PICK q \in WithinGroups : Reorder(q) /\ pc = "idle"
  BY DEF SortGroupsBy, ShuffleGroups
<1>2. PICK P \in SegmentSets : IdleGroups(P)
  BY <1>1 DEF GroupsInv
<1>3. TypeOK /\ Permutation /\ Segments = P /\ SegmentsIn(encodedGroups, P)
  BY <1>2, WalkIsList DEF ListInv, GroupsInv, IdleGroups, ListOf
<1>4. /\ q \in Rearrangements
      /\ \A i \in Ids : q[i] = i \/ \E p \in P : i \in p[1] .. p[2] /\ q[i] \in p[1] .. p[2]
  BY <1>3 DEF WithinGroups
<1>5. /\ orderedIds' = Permuted(q) /\ reordered' = reordered + 1 /\ reordered \in Nat
      /\ UNCHANGED <<n, ops, encodedGroups, pc, given>>
  BY <1>1, <1>3, SplitterAssumption DEF Reorder, TypeOK
<1>6. Permutation'
  BY <1>3, <1>4, <1>5, PermutationKept
<1>7. Grouped(P, Len(given))'
  <2>1. PICK m : m = Len(given)
    OBVIOUS
  <2>2. Grouped(P, m)'
    BY <1>2, <1>3, <1>4, <1>5, <2>1, GroupsMoveTogether DEF IdleGroups
  <2> QED
    BY <1>5, <2>1, <2>2
<1>8. Ids' = Ids /\ SegmentSets' = SegmentSets /\ ~StillInOrder'
  BY <1>5 DEF Ids, SegmentSets, StillInOrder
<1>9. ListOf(encodedGroups, P)'
  BY <1>2, <1>5, <1>8 DEF IdleGroups, ListOf, SegmentsIn, LeadsTo
<1>10. IdleGroups(P)'
  BY <1>7, <1>8, <1>9 DEF IdleGroups
<1> QED
  BY <1>1, <1>5, <1>6, <1>8, <1>10 DEF GroupsInv

LEMMA StoppedGroupsInv == ASSUME GroupsInv, UNCHANGED vars PROVE GroupsInv'
<1>1. UNCHANGED <<n, ops, orderedIds, encodedGroups, pc, categories, lastIndexInGroup,
                  lastIndexInLastGroup, newFirstIndex, newLastIndex, given, before, reordered>>
  BY DEF vars, arrays, cursors
<1>2. /\ Ids' = Ids /\ SegmentSets' = SegmentSets /\ (StillInOrder' <=> StillInOrder)
      /\ \A i : Cat(i)' = Cat(i)
  BY <1>1 DEF Ids, SegmentSets, StillInOrder, Cat
<1>3. Permutation'
  BY <1>1, <1>2 DEF GroupsInv, Permutation
<1>4. CASE pc = "idle"
  <2>1. PICK P \in SegmentSets : IdleGroups(P)
    BY <1>4 DEF GroupsInv
  <2>2. ListOf(encodedGroups, P)'
    BY <1>1, <1>2, <2>1 DEF IdleGroups, ListOf, SegmentsIn, LeadsTo
  <2>3. \A m : Grouped(P, m)' <=> Grouped(P, m)
    BY <1>1, <1>2 DEF Grouped, EqualUpTo
  <2>4. IdleGroups(P)'
    BY <1>1, <1>2, <2>1, <2>2, <2>3 DEF IdleGroups
  <2> QED
    BY <1>1, <1>2, <1>3, <1>4, <2>4 DEF GroupsInv
<1>5. CASE pc # "idle"
  <2>1. PICK P \in SegmentSets : /\ OldGroups(P) /\ (pc = "inner" => Window(P))
                                 /\ \E Q \in SegmentSets : NewGroups(P, Q)
    BY <1>5 DEF GroupsInv
  <2>2. PICK Q \in SegmentSets : NewGroups(P, Q)
    BY <2>1
  <2>3. OldGroups(P)'
    BY <1>1, <2>1, OldGroupsKept
  <2>4. NewGroups(P, Q)'
    <3>1. ListTo(encodedGroups, Q, lastIndexInLastGroup + 1)'
      BY <1>1, <1>2, <2>2 DEF NewGroups, ListTo, SegmentsIn, LeadsTo
    <3>2. Processed' = Processed
      BY <1>1 DEF Processed
    <3> QED
      BY <1>2, <2>2, <3>1, <3>2 DEF NewGroups
  <2>5. pc = "inner" => Window(P)'
    <3>1. Cat(newFirstIndex)' = Cat(newFirstIndex)
      BY <1>1 DEF Cat
    <3> QED
      BY <1>1, <1>2, <2>1, <3>1 DEF Window
  <2> QED
    BY <1>1, <1>2, <1>3, <1>5, <2>3, <2>4, <2>5 DEF GroupsInv
<1> QED
  BY <1>4, <1>5

LEMMA GroupsInvariant == Spec => [](ListInv /\ GroupsInv)
<1>1. ListInv /\ GroupsInv /\ [Next]_vars => GroupsInv'
  BY GroupByGroupsInv, NextGroupGroupsInv, ContinueGroupsInv, EndGroupsInv, ReturnGroupsInv,
     ReorderGroupsInv, StoppedGroupsInv DEF Next, Stopped
<1> QED
  BY InitListInv, InitGroupsInv, NextListInv, <1>1, PTL DEF Spec

-----------------------------------------------------------------------------
(* The cursors and the links stay within the arrays: no criterion, and no   *)
(* order of the calls, makes groupBy read or write outside them.           *)
THEOREM SplitterTypeCorrect == Spec => []TypeOK
<1>1. ListInv => TypeOK
  BY DEF ListInv
<1> QED
  BY <1>1, ListInvariant, PTL

(* No link of the old list is overwritten before it has been read, however *)
(* many groups the old ones fall into.                                     *)
THEOREM LinksAreKept == Spec => []UnreadLinksKept
<1>1. ListInv => UnreadLinksKept
  BY DEF ListInv
<1> QED
  BY <1>1, ListInvariant, PTL

(* Between calls the iterators find a list that leads from group to group,  *)
(* always further to the right, and ends.                                  *)
THEOREM ListStaysWellFormed == Spec => []ListWellFormed
<1>1. ListInv => ListWellFormed
  BY DEF ListInv
<1> QED
  BY <1>1, ListInvariant, PTL

(* RecursiveSplitter.h: between calls the iterators visit exactly the      *)
(* classes of ids that are equal under every criterion so far, whatever    *)
(* the criteria, and whatever the order of the ids within the groups.      *)
THEOREM IteratorsVisitClasses == Spec => []GroupsAreClasses
<1>1. ListInv /\ GroupsInv => GroupsAreClasses
  <2> SUFFICES ASSUME ListInv, GroupsInv, pc = "idle"
               PROVE  /\ groups = Classes
                      /\ multiElementGroups = {c \in Classes : Cardinality(c) > 1}
    BY DEF GroupsAreClasses
  <2>1. PICK P \in SegmentSets : IdleGroups(P)
    BY DEF GroupsInv
  <2>2. n \in Nat /\ TypeOK /\ Permutation /\ Segments = P /\ orderedIds \in [Ids -> Ids]
    BY <2>1, SizeIsNat, WalkIsList DEF ListInv, TypeOK, GroupsInv, IdleGroups
  <2>3. \A p \in P : /\ p[1] \in Nat /\ p[2] \in Nat /\ p[1] < p[2] /\ p[2] < n
                     /\ p[1] .. p[2] \subseteq Ids
    <3> SUFFICES ASSUME NEW p \in P
                 PROVE  /\ p[1] \in Nat /\ p[2] \in Nat /\ p[1] < p[2] /\ p[2] < n
                        /\ p[1] .. p[2] \subseteq Ids
      OBVIOUS
    <3>1. p[1] \in Nat /\ p[2] \in Nat /\ p[2] < n
      BY <2>2, SegmentTypes
    <3>2. p[1] < p[2]
      BY <2>1 DEF IdleGroups, ListOf, SegmentsIn
    <3> QED
      BY <2>2, <3>1, <3>2 DEF Ids
  <2> DEFINE class(a) == {b \in Ids : Equivalent(a, b)}
  <2>4. \A i, j \in Ids : i # j =>
          (Equivalent(orderedIds[i], orderedIds[j]) <=> Together(P, i, j))
    <3>1. DOMAIN given = 1 .. Len(given)
      BY <2>2 DEF TypeOK
    <3> QED
      BY <2>1, <3>1 DEF IdleGroups, Grouped, EqualUpTo, Equivalent
  <2>5. \A a \in Ids : Equivalent(a, a)
    BY DEF Equivalent
  <2>6. ASSUME NEW p \in P, NEW i \in p[1] .. p[2]
        PROVE  IdsAt(p[1], p[2]) = class(orderedIds[i])
    <3>1. i \in Ids /\ p[1] .. p[2] \subseteq Ids
      BY <2>3
    <3>2. ASSUME NEW j \in p[1] .. p[2] PROVE orderedIds[j] \in class(orderedIds[i])
      <4>1. j \in Ids /\ orderedIds[j] \in Ids /\ orderedIds[i] \in Ids
        BY <2>2, <3>1
      <4>2. i # j => Together(P, i, j)
        BY DEF Together
      <4> QED
        BY <2>4, <2>5, <3>1, <4>1, <4>2
    <3>3. ASSUME NEW b \in class(orderedIds[i]) PROVE b \in IdsAt(p[1], p[2])
      <4>1. PICK j \in Ids : orderedIds[j] = b
        BY <2>2 DEF Permutation
      <4>2. CASE i = j
        BY <4>1, <4>2 DEF IdsAt
      <4>3. CASE i # j
        <5>1. Together(P, i, j)
          BY <2>4, <3>1, <4>1, <4>3
        <5>2. PICK r \in P : i \in r[1] .. r[2] /\ j \in r[1] .. r[2]
          BY <5>1 DEF Together
        <5>3. r = p \/ r[2] < p[1] \/ p[2] < r[1]
          BY <2>1 DEF IdleGroups, ListOf, SegmentsIn
        <5>4. r = p
          BY <2>3, <5>2, <5>3
        <5> QED
          BY <4>1, <5>2, <5>4 DEF IdsAt
      <4> QED
        BY <4>2, <4>3
    <3> QED
      BY <3>2, <3>3 DEF IdsAt
  <2>7. ASSUME NEW i \in Ids, \A p \in P : i \notin p[1] .. p[2]
        PROVE  class(orderedIds[i]) = {orderedIds[i]}
    <3>1. ASSUME NEW b \in class(orderedIds[i]) PROVE b = orderedIds[i]
      <4>1. PICK j \in Ids : orderedIds[j] = b
        BY <2>2 DEF Permutation
      <4>2. ~Together(P, i, j)
        BY <2>7 DEF Together
      <4> QED
        BY <2>4, <4>1, <4>2
    <3>2. orderedIds[i] \in class(orderedIds[i])
      BY <2>2, <2>5
    <3> QED
      BY <3>1, <3>2
  <2>8. ASSUME NEW p \in P PROVE Cardinality(IdsAt(p[1], p[2])) > 1
    <3>1. PICK a : a = orderedIds[p[1]]
      OBVIOUS
    <3>2. PICK b : b = orderedIds[p[2]]
      OBVIOUS
    <3>3. p[1] \in Ids /\ p[2] \in Ids /\ p[1] # p[2] /\ a # b
      BY <2>2, <2>3, <3>1, <3>2 DEF Permutation
    <3>4. {a, b} \subseteq IdsAt(p[1], p[2]) /\ IdsAt(p[1], p[2]) \subseteq Ids
      BY <2>2, <2>3, <3>1, <3>2 DEF IdsAt
    <3>5. IsFiniteSet(IdsAt(p[1], p[2]))
      <4>1. IsFiniteSet(Ids)
        BY <2>2, FS_Interval DEF Ids
      <4> QED
        BY <3>4, <4>1, FS_Subset
    <3>6. Cardinality({a}) = 1 /\ IsFiniteSet({a})
      BY FS_Singleton
    <3>7. Cardinality({a} \cup {b}) = Cardinality({a}) + 1
      BY <3>3, <3>6, FS_AddElement
    <3>8. /\ Cardinality({a, b}) <= Cardinality(IdsAt(p[1], p[2]))
          /\ Cardinality(IdsAt(p[1], p[2])) \in Nat
      BY <3>4, <3>5, FS_Subset, FS_CardinalityType
    <3>9. {a, b} = {a} \cup {b}
      OBVIOUS
    <3> QED
      BY <3>6, <3>7, <3>8, <3>9
  <2>9. \A c \in Classes : \E i \in Ids : c = class(orderedIds[i])
    BY <2>2 DEF Classes, Permutation
  <2>10. \A i \in Ids : class(orderedIds[i]) \in Classes
    BY <2>2 DEF Classes
  <2> HIDE DEF class
  <2>11. multiElementGroups \subseteq {c \in Classes : Cardinality(c) > 1}
    <3> SUFFICES ASSUME NEW p \in P
                 PROVE  IdsAt(p[1], p[2]) \in Classes /\ Cardinality(IdsAt(p[1], p[2])) > 1
      BY <2>2 DEF multiElementGroups
    <3>1. p[1] \in p[1] .. p[2] /\ p[1] \in Ids
      BY <2>3
    <3> QED
      BY <2>6, <2>8, <2>10, <3>1
  <2>12. ASSUME NEW i \in Ids
         PROVE  \/ \E p \in P : class(orderedIds[i]) = IdsAt(p[1], p[2])
                \/ /\ class(orderedIds[i]) = {orderedIds[i]}
                   /\ \A p \in P : i \notin p[1] .. p[2]
    BY <2>6, <2>7
  <2>13. {c \in Classes : Cardinality(c) > 1} \subseteq multiElementGroups
    <3> SUFFICES ASSUME NEW c \in Classes, Cardinality(c) > 1
                 PROVE  c \in multiElementGroups
      OBVIOUS
    <3>1. PICK i \in Ids : c = class(orderedIds[i])
      BY <2>9
    <3>2. Cardinality({orderedIds[i]}) = 1
      BY FS_Singleton
    <3>3. c # {orderedIds[i]}
      <4>1. Cardinality(c) # 1
        OBVIOUS
      <4> QED
        BY <3>2, <4>1
    <3>4. \E p \in P : class(orderedIds[i]) = IdsAt(p[1], p[2])
      BY <2>12, <3>1, <3>3
    <3>5. PICK p \in P : c = IdsAt(p[1], p[2])
      BY <3>1, <3>4
    <3> QED
      BY <2>2, <3>5 DEF multiElementGroups
  <2>14. \A i : i \in UNION {s[1] .. s[2] : s \in Segments} <=> \E p \in P : i \in p[1] .. p[2]
    BY <2>2
  <2>15. groups \subseteq Classes
    <3>1. ASSUME NEW i \in Ids, \A p \in P : i \notin p[1] .. p[2]
          PROVE  {orderedIds[i]} \in Classes
      BY <2>7, <2>10, <3>1
    <3> QED
      BY <2>11, <2>14, <3>1 DEF groups
  <2>16. Classes \subseteq groups
    <3> SUFFICES ASSUME NEW c \in Classes PROVE c \in groups
      OBVIOUS
    <3>1. PICK i \in Ids : c = class(orderedIds[i])
      BY <2>9
    <3>2. CASE \E p \in P : c = IdsAt(p[1], p[2])
      BY <2>2, <3>2 DEF groups, multiElementGroups
    <3>3. CASE c = {orderedIds[i]} /\ \A p \in P : i \notin p[1] .. p[2]
      BY <2>14, <3>3 DEF groups
    <3> QED
      BY <2>12, <3>1, <3>2, <3>3
  <2> QED
    BY <2>11, <2>13, <2>15, <2>16
<1> QED
  BY <1>1, GroupsInvariant, PTL

(* Without the OPS mode the ids ascend in every group, after any number of *)
(* calls of groupBy: every sort of an old group is stable.                 *)
THEOREM IdsStayInOrder == Spec => []IdsAscendInGroups
<1>1. ListInv /\ GroupsInv => IdsAscendInGroups
  <2> SUFFICES ASSUME ListInv, GroupsInv, pc = "idle", StillInOrder
               PROVE  \A s \in Segments : \A i, j \in s[1] .. s[2] :
                        i < j => orderedIds[i] < orderedIds[j]
    BY DEF IdsAscendInGroups, StillInOrder
  <2>1. PICK P \in SegmentSets : IdleGroups(P)
    BY DEF GroupsInv
  <2>2. Segments = P
    BY <2>1, WalkIsList DEF ListInv, IdleGroups
  <2> QED
    BY <2>1, <2>2 DEF IdleGroups
<1> QED
  BY <1>1, GroupsInvariant, PTL

-----------------------------------------------------------------------------
(* The inputs.                                                             *)

(* The list of the elements in ascending order.                            *)
LEMMA InOrderLists ==
  ASSUME NEW S, IsFiniteSet(S), S \subseteq Int
  PROVE  Lists(InOrder(S), S)
  BY AscendingLists DEF InOrder

N == Cardinality(Ranks)

Given == /\ obs \in Datasets /\ set \in Settings
         /\ holder \in [Locs -> {0} \cup Ranks] /\ IsDistribution(holder)

LEMMA InputTypes ==
  ASSUME Given
  PROVE  /\ Ranks = 1 .. N /\ N \in Nat \ {0} /\ IsFiniteSet(Locs) /\ Locs \subseteq Nat
         /\ \A l \in Locs : /\ obs[l].apply \in BOOLEAN /\ obs[l].passing \subseteq {1, 2}
                            /\ obs[l].time \in Nat /\ obs[l].category \in Nat
                            /\ obs[l].priority \in Nat /\ obs[l].record \in Nat
         /\ set.single \in BOOLEAN /\ set.byCategory \in BOOLEAN /\ set.all \in BOOLEAN
<1>1. /\ Ranks = 1 .. N /\ IsFiniteSet(Ranks) /\ Ranks # {}
      /\ IsFiniteSet(Locs) /\ Locs \subseteq Nat
  BY ThinningAssumption DEF Given, N
<1>2. N \in Nat /\ N # 0
  BY <1>1, FS_CardinalityType, FS_EmptySet DEF N
<1>3. obs \in [Locs -> [apply : BOOLEAN, passing : SUBSET {1, 2}, time : Nat,
                        category : Nat, priority : Nat, record : Nat]]
  BY ThinningAssumption DEF Given
<1>4. set \in [single : BOOLEAN, byCategory : BOOLEAN, all : BOOLEAN,
               grouping : {"none", "category", "other"}]
  BY ThinningAssumption DEF Given
<1> QED
  BY <1>1, <1>2, <1>3, <1>4

LEMMA HeldTypes ==
  ASSUME Given
  PROVE  /\ \A r : Held(r) \subseteq Locs /\ IsFiniteSet(Held(r)) /\ Lists(Local(r), Held(r))
         /\ \A l \in Locs : \E r \in Ranks : l \in Held(r)
         /\ Replicated => \A r : Held(r) = Locs
         /\ ~Replicated => \A l \in Locs : holder[l] \in Ranks /\ \A r \in Ranks : l \in Held(r) <=> r = holder[l]
<1>1. \A r : Held(r) \subseteq Locs /\ IsFiniteSet(Held(r))
  BY InputTypes, FS_Subset DEF Held
<1>2. \A r : Lists(Local(r), Held(r))
  <2> TAKE r
  <2>1. Held(r) \subseteq Int
    BY <1>1, InputTypes
  <2> QED
    BY <1>1, <2>1, InOrderLists DEF Local
<1>3. 1 \in Ranks /\ 0 \notin Ranks
  BY InputTypes
<1>4. \A l \in Locs : holder[l] \in {0} \cup Ranks
  BY DEF Given
<1>5. Replicated => \A r : Held(r) = Locs
  BY DEF Replicated, Held
<1>6. ~Replicated => \A l \in Locs : holder[l] \in Ranks /\ \A r \in Ranks : l \in Held(r) <=> r = holder[l]
  <2>1. ~Replicated => \A l \in Locs : holder[l] # 0
    BY DEF Replicated, Given, IsDistribution
  <2> QED
    BY <1>3, <1>4, <2>1 DEF Held
<1>7. \A l \in Locs : \E r \in Ranks : l \in Held(r)
  BY <1>3, <1>4 DEF Held
<1> QED
  BY <1>1, <1>2, <1>5, <1>6, <1>7

-----------------------------------------------------------------------------
(* The ids of the accessor, and vectors gathered in their order.            *)

Scope(r) == IF Communicates THEN Locs ELSE Held(r)

Enumerates(s, S) ==
  /\ s = [i \in DOMAIN s |-> s[i]]
  /\ \E T \in Nat : DOMAIN s = 1 .. T
  /\ \A i \in DOMAIN s : s[i] \in S
  /\ \A i, k \in DOMAIN s : s[i] = s[k] => i = k
  /\ \A l \in S : \E i \in DOMAIN s : s[i] = l

Vector(val, r) == [i \in DOMAIN Local(r) |-> val[Local(r)[i]]]

LEMMA LocalVectors ==
  ASSUME Given, NEW A, NEW val \in [Locs -> A], NEW r
  PROVE  /\ Local(r) \in Seq(Locs) /\ Vector(val, r) \in Seq(A)
         /\ Len(Local(r)) = Len(Vector(val, r))
         /\ DOMAIN Local(r) = 1 .. Cardinality(Held(r)) /\ Len(Local(r)) = Cardinality(Held(r))
         /\ Enumerates(Local(r), Held(r))
<1>1. Lists(Local(r), Held(r)) /\ Held(r) \subseteq Locs /\ IsFiniteSet(Held(r))
  BY HeldTypes
<1>2. DOMAIN Local(r) = 1 .. Cardinality(Held(r)) /\ Cardinality(Held(r)) \in Nat
  BY <1>1, FS_CardinalityType DEF Lists
<1>3. Local(r) = [i \in 1 .. Cardinality(Held(r)) |-> Local(r)[i]]
  BY DEF Local, InOrder
<1>4. \A i \in 1 .. Cardinality(Held(r)) : Local(r)[i] \in Locs
  BY <1>1, <1>2 DEF Lists
<1>5. Local(r) \in Seq(Locs) /\ Len(Local(r)) = Cardinality(Held(r))
  BY <1>2, <1>3, <1>4
<1>6. Vector(val, r) \in Seq(A) /\ Len(Vector(val, r)) = Cardinality(Held(r))
  BY <1>2, <1>4 DEF Vector
<1>7. Enumerates(Local(r), Held(r))
  BY <1>1, <1>2, <1>3 DEF Enumerates, Lists
<1> QED
  BY <1>2, <1>5, <1>6, <1>7

LEMMA GlobalVectors ==
  ASSUME Given, Communicates, NEW A, NEW val \in [Locs -> A]
  PROVE  /\ Enumerates(GlobalOrder, Locs)
         /\ FlattenSeq([q \in Ranks |-> Vector(val, q)]) = [i \in DOMAIN GlobalOrder |-> val[GlobalOrder[i]]]
<1> DEFINE S == [q \in 1 .. N |-> Local(q)]
           U == [q \in 1 .. N |-> Vector(val, q)]
<1>1. ~Replicated /\ Ranks = 1 .. N /\ N \in Nat \ {0}
  BY InputTypes DEF Communicates
<1>2. GlobalOrder = FlattenSeq(S)
  BY <1>1 DEF GlobalOrder
<1>3. \A q \in 1 .. N : S[q] = Local(q) /\ U[q] = Vector(val, q)
  OBVIOUS
<1>4. S \in [1 .. N -> Seq(Locs)] /\ U \in [1 .. N -> Seq(A)] /\ \A q \in 1 .. N : Len(S[q]) = Len(U[q])
  BY LocalVectors
<1> HIDE DEF S, U
<1>5. FlattenSeq(S) \in Seq(Locs) /\ FlattenSeq(U) \in Seq(A)
  BY <1>1, <1>4, FlattenPlaces
<1>6. PICK T, from, at : /\ Places(T, from, at, N, S)
                         /\ IsPlaced(FlattenSeq(S), T, from, at, S)
                         /\ IsPlaced(FlattenSeq(U), T, from, at, U)
  BY <1>1, <1>4, FlattenPlaces
<1> DEFINE ids == FlattenSeq(S)
<1>7. /\ T \in Nat /\ DOMAIN ids = 1 .. T /\ DOMAIN FlattenSeq(U) = 1 .. T
      /\ \A i \in 1 .. T : /\ from[i] \in 1 .. N /\ at[i] \in DOMAIN Local(from[i])
                           /\ ids[i] = Local(from[i])[at[i]]
                           /\ FlattenSeq(U)[i] = val[ids[i]]
  <2>1. \A i \in 1 .. T : from[i] \in 1 .. N /\ at[i] \in 1 .. Len(S[from[i]])
    BY <1>6 DEF Places
  <2>2. \A q \in 1 .. N : DOMAIN Local(q) = 1 .. Len(S[q])
    BY <1>3, LocalVectors
  <2>3. \A i \in 1 .. T : ids[i] = Local(from[i])[at[i]] /\ FlattenSeq(U)[i] = Vector(val, from[i])[at[i]]
    BY <1>3, <1>6, <2>1 DEF IsPlaced
  <2>4. \A i \in 1 .. T : Vector(val, from[i])[at[i]] = val[Local(from[i])[at[i]]]
    BY <2>1, <2>2 DEF Vector
  <2> QED
    BY <1>6, <2>1, <2>2, <2>3, <2>4 DEF Places, IsPlaced
<1> HIDE DEF ids
<1>8. \A i \in 1 .. T : ids[i] \in Locs /\ from[i] = holder[ids[i]]
  <2> TAKE i \in 1 .. T
  <2>1. Lists(Local(from[i]), Held(from[i])) /\ Held(from[i]) \subseteq Locs
    BY HeldTypes
  <2>2. ids[i] \in Held(from[i])
    BY <1>7, <2>1 DEF Lists
  <2> QED
    BY <1>1, <1>7, <2>1, <2>2, HeldTypes
<1>9. ASSUME NEW i \in 1 .. T, NEW k \in 1 .. T, ids[i] = ids[k] PROVE i = k
  <2>1. from[i] = from[k]
    BY <1>8, <1>9
  <2>2. at[i] = at[k]
    <3>1. Lists(Local(from[i]), Held(from[i]))
      BY HeldTypes
    <3>2. at[i] \in DOMAIN Local(from[i]) /\ ids[i] = Local(from[i])[at[i]]
      BY <1>7
    <3>3. at[k] \in DOMAIN Local(from[i]) /\ ids[k] = Local(from[i])[at[k]]
      BY <1>7, <2>1
    <3>4. \A j, m \in DOMAIN Local(from[i]) :
            Local(from[i])[j] = Local(from[i])[m] => j = m
      BY <3>1 DEF Lists
    <3>5. Local(from[i])[at[i]] = Local(from[i])[at[k]]
      BY <1>9, <3>2, <3>3
    <3> QED
      BY <3>2, <3>3, <3>4, <3>5
  <2> QED
    BY <1>6, <2>1, <2>2 DEF Places
<1>10. ASSUME NEW l \in Locs PROVE \E i \in 1 .. T : ids[i] = l
  <2>1. holder[l] \in 1 .. N /\ l \in Held(holder[l]) /\ Lists(Local(holder[l]), Held(holder[l]))
    BY <1>1, HeldTypes
  <2>2. PICK j \in DOMAIN Local(holder[l]) : Local(holder[l])[j] = l
    BY <2>1 DEF Lists
  <2>3. j \in 1 .. Len(S[holder[l]])
    BY <1>3, <2>1, <2>2, LocalVectors
  <2>4. PICK i \in 1 .. T : from[i] = holder[l] /\ at[i] = j
    BY <1>6, <2>1, <2>3 DEF Places
  <2> QED
    BY <1>7, <2>2, <2>4
<1>11. ids = [i \in DOMAIN ids |-> ids[i]]
  BY <1>5 DEF ids
<1>12. Enumerates(ids, Locs)
  BY <1>7, <1>8, <1>9, <1>10, <1>11 DEF Enumerates
<1>13. FlattenSeq(U) = [i \in DOMAIN ids |-> val[ids[i]]]
  <2>1. FlattenSeq(U) = [i \in DOMAIN FlattenSeq(U) |-> FlattenSeq(U)[i]]
    BY <1>5
  <2> QED
    BY <1>7, <2>1
<1> QED
  BY <1>1, <1>2, <1>12, <1>13 DEF ids, U

LEMMA IdsEnumerate ==
  ASSUME Given, NEW r \in Ranks
  PROVE  Enumerates(AccessorIds(r), Scope(r))
<1> DEFINE val == [l \in Locs |-> 0]
<1>1. val \in [Locs -> {0}]
  OBVIOUS
<1> HIDE DEF val
<1>2. Communicates => Enumerates(AccessorIds(r), Scope(r))
  BY <1>1, GlobalVectors DEF AccessorIds, Scope
<1>3. ~Communicates => Enumerates(AccessorIds(r), Scope(r))
  BY <1>1, LocalVectors DEF AccessorIds, Scope
<1> QED
  BY <1>2, <1>3

(* What a rank gets from a gather: the values at the accessor's ids.        *)
Gathers(r, k, val) == Gathered(r, k) = [i \in DOMAIN AccessorIds(r) |-> val[AccessorIds(r)[i]]]

LEMMA GatherOrders ==
  ASSUME Given, NEW r \in Ranks, NEW k, NEW A, NEW val \in [Locs -> A],
         \A q \in Ranks : Communicates \/ q = r => posted[q][k].values = Vector(val, q)
  PROVE  Gathers(r, k, val)
<1>1. CASE Communicates
  <2>1. [q \in Ranks |-> posted[q][k].values] = [q \in Ranks |-> Vector(val, q)]
    BY <1>1
  <2>2. Gathered(r, k) = FlattenSeq([q \in Ranks |-> Vector(val, q)]) /\ AccessorIds(r) = GlobalOrder
    BY <1>1, <2>1 DEF Gathered, AccessorIds
  <2>3. FlattenSeq([q \in Ranks |-> Vector(val, q)])
          = [i \in DOMAIN GlobalOrder |-> val[GlobalOrder[i]]]
    BY <1>1, GlobalVectors
  <2> QED
    BY <2>2, <2>3 DEF Gathers
<1>2. CASE ~Communicates
  BY <1>2 DEF Gathers, Gathered, AccessorIds, Vector
<1> QED
  BY <1>1, <1>2

-----------------------------------------------------------------------------
(* The invariant: what each rank has sent and worked out is determined by   *)
(* the inputs and the step it is at.                                       *)

ValidOf    == [l \in Locs |-> Valid(l)]
CategoryAt == [l \in Locs |-> Category(l)]
PriorityOf == [l \in Locs |-> obs[l].priority]

Message(what, val, r) == [what |-> what, values |-> Vector(val, r)]

ValidIds(r) == {i \in DOMAIN AccessorIds(r) : Valid(AccessorIds(r)[i])}

GroupOf(r, j) == {i \in ValidIds(r) : Category(AccessorIds(r)[i]) = Category(AccessorIds(r)[j])}

Priorities(r) == [i \in DOMAIN AccessorIds(r) |-> obs[AccessorIds(r)[i]].priority]

Groups(r) == {GroupOf(r, j) : j \in ValidIds(r)}

Thinned(r) == {AccessorIds(r)[i] : i \in UNION {g \ {Best(g, Priorities(r))} : g \in Groups(r)}}

Outcome(r) == (ChangeThinned(Thinned(r)) \cap Held(r)) \cup FailingQC(r)

Steps == {"check", "valid", "category", "priority", "flag", "done", "threw"}

PostedInv(r) ==
  /\ rankPc[r] \in {"check", "threw", "valid"} => posted[r] = <<>>
  /\ rankPc[r] = "category" => posted[r] = <<Message("valid", ValidOf, r)>>
  /\ rankPc[r] = "priority" => posted[r] = <<Message("valid", ValidOf, r), Message("category", CategoryAt, r)>>
  /\ rankPc[r] \in {"flag", "done"} =>
       posted[r] = <<Message("valid", ValidOf, r), Message("category", CategoryAt, r),
                     Message("priority", PriorityOf, r)>>

WorkInv(r) ==
  /\ IF rankPc[r] \in {"priority", "flag", "done"} THEN ToSet(validIds[r]) = ValidIds(r)
                                               ELSE validIds[r] = <<>>
  /\ groupsOf[r] = IF rankPc[r] \in {"flag", "done"} THEN Groups(r) ELSE {}
  /\ flagged[r] = IF rankPc[r] = "done" THEN Outcome(r) ELSE {}

ThinningInv ==
  /\ Given
  /\ rankPc \in [Ranks -> Steps]
  /\ DOMAIN posted = Ranks /\ DOMAIN validIds = Ranks /\ DOMAIN groupsOf = Ranks /\ DOMAIN flagged = Ranks
  /\ \A r \in Ranks : PostedInv(r) /\ WorkInv(r)

LEMMA InputsKept ==
  ASSUME obs' = obs, set' = set, holder' = holder
  PROVE  /\ Given' = Given /\ Communicates' = Communicates
         /\ \A r : /\ Held(r)' = Held(r) /\ Local(r)' = Local(r) /\ AccessorIds(r)' = AccessorIds(r)
                   /\ ValidIds(r)' = ValidIds(r) /\ Groups(r)' = Groups(r)
                   /\ Outcome(r)' = Outcome(r)
                   /\ Message("valid", ValidOf, r)' = Message("valid", ValidOf, r)
                   /\ Message("category", CategoryAt, r)' = Message("category", CategoryAt, r)
                   /\ Message("priority", PriorityOf, r)' = Message("priority", PriorityOf, r)
<1>1. Given' = Given
  BY DEF Given, IsDistribution, HasRecords, RecordNumber
<1>2. Communicates' = Communicates
  BY DEF Communicates, Grouping, Replicated
<1>3. \A r : Held(r)' = Held(r)
  BY DEF Held
<1>4. \A r : Local(r)' = Local(r)
  BY DEF Local, InOrder, Held
<1>5. GlobalOrder' = GlobalOrder
  BY <1>4 DEF GlobalOrder, Replicated
<1>6. \A r : AccessorIds(r)' = AccessorIds(r)
  BY <1>2, <1>4, <1>5 DEF AccessorIds
<1>7. \A l : Record(l)' = Record(l)
  BY DEF Record, RecordNumber
<1>8. \A l : Passes(l)' = Passes(l)
  BY DEF Passes
<1>9. \A S : LaunchPosition(S)' = LaunchPosition(S)
  BY <1>8 DEF LaunchPosition, Earlier
<1>10. \A l : Valid(l)' = Valid(l)
  BY <1>7, <1>8, <1>9 DEF Valid, Apply, HasRecords
<1>11. \A l : Category(l)' = Category(l)
  BY DEF Category, Grouping, RecordNumber
<1>12. \A r : ValidIds(r)' = ValidIds(r)
  BY <1>6, <1>10 DEF ValidIds
<1>13. \A r, j : GroupOf(r, j)' = GroupOf(r, j)
  BY <1>6, <1>11, <1>12 DEF GroupOf
<1>14. \A r : Groups(r)' = Groups(r)
  BY <1>12, <1>13 DEF Groups
<1>15. \A r : Priorities(r)' = Priorities(r)
  BY <1>6 DEF Priorities
<1>16. \A r : Thinned(r)' = Thinned(r)
  BY <1>6, <1>14, <1>15 DEF Thinned, Best
<1>17. \A T : ChangeThinned(T)' = ChangeThinned(T)
  BY <1>7 DEF ChangeThinned, HasRecords
<1>18. \A r : Outcome(r)' = Outcome(r)
  BY <1>3, <1>16, <1>17 DEF Outcome, FailingQC
<1>19. ValidOf' = ValidOf /\ CategoryAt' = CategoryAt /\ PriorityOf' = PriorityOf
  BY <1>10, <1>11 DEF ValidOf, CategoryAt, PriorityOf
<1>20. \A r : /\ Message("valid", ValidOf, r)' = Message("valid", ValidOf, r)
              /\ Message("category", CategoryAt, r)' = Message("category", CategoryAt, r)
              /\ Message("priority", PriorityOf, r)' = Message("priority", PriorityOf, r)
  BY <1>4, <1>19 DEF Message, Vector
<1> QED
  BY <1>1, <1>2, <1>3, <1>4, <1>6, <1>12, <1>14, <1>18, <1>20

LEMMA InitThinningInv == ThinningInit => ThinningInv
<1> SUFFICES ASSUME ThinningInit PROVE ThinningInv
  OBVIOUS
<1>1. Given
  BY DEF ThinningInit, Given
<1>2. /\ rankPc = [r \in Ranks |-> "check"] /\ posted = [r \in Ranks |-> <<>>]
      /\ validIds = [r \in Ranks |-> <<>>] /\ groupsOf = [r \in Ranks |-> {}]
      /\ flagged = [r \in Ranks |-> {}]
  BY DEF ThinningInit
<1>3. ASSUME NEW r \in Ranks PROVE PostedInv(r) /\ WorkInv(r)
  BY <1>2 DEF PostedInv, WorkInv
<1> QED
  BY <1>1, <1>2, <1>3 DEF ThinningInv, Steps

(* A vector is complete once a rank has arrived.                           *)
LEMMA ArrivedMeans ==
  ASSUME ThinningInv, NEW r \in Ranks, Arrived(r), NEW q \in Ranks, Communicates \/ q = r
  PROVE  /\ rankPc[r] = "category" => posted[q][1].values = Vector(ValidOf, q)
         /\ rankPc[r] = "priority" => posted[q][2].values = Vector(CategoryAt, q)
         /\ rankPc[r] = "flag"     => posted[q][3].values = Vector(PriorityOf, q)
<1> DEFINE a == Message("valid", ValidOf, q)
           b == Message("category", CategoryAt, q)
           c == Message("priority", PriorityOf, q)
<1>1. PostedInv(q) /\ PostedInv(r) /\ rankPc[q] \in Steps /\ rankPc[r] \in Steps
  BY DEF ThinningInv
<1>2. Len(posted[q]) >= Len(posted[r])
  <2>1. CASE Communicates
    BY <2>1 DEF Arrived
  <2>2. CASE q = r
    <3>1. Len(posted[r]) \in Nat
      BY <1>1 DEF PostedInv, Steps
    <3> QED
      BY <2>2, <3>1
  <2> QED
    BY <2>1, <2>2
<1>3. /\ a.values = Vector(ValidOf, q) /\ b.values = Vector(CategoryAt, q)
      /\ c.values = Vector(PriorityOf, q)
  BY DEF Message
<1>4. /\ posted[q] \in {<<>>, <<a>>, <<a, b>>, <<a, b, c>>}
      /\ rankPc[r] = "category" => Len(posted[r]) = 1
      /\ rankPc[r] = "priority" => Len(posted[r]) = 2
      /\ rankPc[r] = "flag" => Len(posted[r]) = 3
  <2> HIDE DEF a, b, c
  <2>1. posted[q] \in {<<>>, <<a>>, <<a, b>>, <<a, b, c>>}
    BY <1>1 DEF PostedInv, Steps, a, b, c
  <2> QED
    BY <1>1, <2>1 DEF PostedInv
<1> HIDE DEF a, b, c
<1>5. /\ rankPc[r] = "category" => Len(posted[q]) >= 1
      /\ rankPc[r] = "priority" => Len(posted[q]) >= 2
      /\ rankPc[r] = "flag" => Len(posted[q]) >= 3
  BY <1>2, <1>4
<1>6. CASE posted[q] = <<>>
  <2>1. Len(posted[q]) = 0
    BY <1>6
  <2> QED
    BY <1>5, <2>1
<1>7. CASE posted[q] = <<a>>
  <2>1. posted[q][1] = a /\ Len(posted[q]) = 1
    BY <1>7
  <2> QED
    BY <1>3, <1>5, <2>1
<1>8. CASE posted[q] = <<a, b>>
  <2>1. posted[q][1] = a /\ posted[q][2] = b /\ Len(posted[q]) = 2
    BY <1>8
  <2> QED
    BY <1>3, <1>5, <2>1
<1>9. CASE posted[q] = <<a, b, c>>
  <2>1. posted[q][1] = a /\ posted[q][2] = b /\ posted[q][3] = c
    BY <1>9
  <2> QED
    BY <1>3, <2>1
<1> QED
  BY <1>4, <1>6, <1>7, <1>8, <1>9

LEMMA VectorTypes ==
  ASSUME Given
  PROVE  /\ ValidOf \in [Locs -> {Valid(l) : l \in Locs}] /\ \A l \in Locs : Valid(l) \in BOOLEAN
         /\ CategoryAt \in [Locs -> {Category(l) : l \in Locs}]
         /\ PriorityOf \in [Locs -> Nat]
<1>1. \A l \in Locs : Valid(l) \in BOOLEAN
  BY DEF Valid, Apply, Passes
<1> QED
  BY <1>1, InputTypes DEF ValidOf, CategoryAt, PriorityOf

(* What the ranks make of what they get.                                   *)
LEMMA ValidsGathered ==
  ASSUME ThinningInv, NEW r \in Ranks, rankPc[r] = "category", Arrived(r)
  PROVE  ToSet(InOrder({i \in DOMAIN Gathered(r, 1) : Gathered(r, 1)[i]})) = ValidIds(r)
<1> DEFINE G == Gathered(r, 1)
           V == {i \in DOMAIN G : G[i]}
<1>1. Given /\ Enumerates(AccessorIds(r), Scope(r)) /\ Scope(r) \subseteq Locs
  BY IdsEnumerate, HeldTypes DEF ThinningInv, Scope
<1>2. G = [i \in DOMAIN AccessorIds(r) |-> ValidOf[AccessorIds(r)[i]]]
  <2>1. \A q \in Ranks : Communicates \/ q = r => posted[q][1].values = Vector(ValidOf, q)
    BY ArrivedMeans
  <2>2. Gathers(r, 1, ValidOf)
    BY <1>1, <2>1, GatherOrders, VectorTypes
  <2> QED
    BY <2>2 DEF Gathers
<1> HIDE DEF G
<1>3. \A i \in DOMAIN AccessorIds(r) : AccessorIds(r)[i] \in Locs
  BY <1>1 DEF Enumerates
<1>4. V = ValidIds(r)
  BY <1>2, <1>3 DEF ValidIds, ValidOf
<1>5. IsFiniteSet(ValidIds(r)) /\ ValidIds(r) \subseteq Int
  <2>1. PICK T \in Nat : DOMAIN AccessorIds(r) = 1 .. T
    BY <1>1 DEF Enumerates
  <2>2. IsFiniteSet(1 .. T) /\ ValidIds(r) \subseteq 1 .. T
    BY <2>1, FS_Interval DEF ValidIds
  <2> QED
    BY <2>2, FS_Subset
<1>6. Lists(InOrder(ValidIds(r)), ValidIds(r))
  BY <1>5, InOrderLists
<1>7. ToSet(InOrder(ValidIds(r))) = ValidIds(r)
  BY <1>6 DEF Lists, ToSet
<1> QED
  BY <1>4, <1>7 DEF G

LEMMA GroupsGathered ==
  ASSUME ThinningInv, NEW r \in Ranks, rankPc[r] = "priority", Arrived(r)
  PROVE  {{i \in ValidIds(r) : Gathered(r, 2)[i] = Gathered(r, 2)[j]} : j \in ValidIds(r)} = Groups(r)
<1>1. Given /\ Enumerates(AccessorIds(r), Scope(r)) /\ Scope(r) \subseteq Locs
  BY IdsEnumerate, HeldTypes DEF ThinningInv, Scope
<1>2. Gathered(r, 2) = [i \in DOMAIN AccessorIds(r) |-> CategoryAt[AccessorIds(r)[i]]]
  <2>1. \A q \in Ranks : Communicates \/ q = r => posted[q][2].values = Vector(CategoryAt, q)
    BY ArrivedMeans
  <2>2. Gathers(r, 2, CategoryAt)
    BY <1>1, <2>1, GatherOrders, VectorTypes
  <2> QED
    BY <2>2 DEF Gathers
<1>3. \A i \in ValidIds(r) : Gathered(r, 2)[i] = Category(AccessorIds(r)[i])
  <2>1. \A i \in DOMAIN AccessorIds(r) : AccessorIds(r)[i] \in Locs
    BY <1>1 DEF Enumerates
  <2>2. \A l \in Locs : CategoryAt[l] = Category(l)
    BY DEF CategoryAt
  <2> QED
    BY <1>2, <2>1, <2>2 DEF ValidIds
<1>4. \A j \in ValidIds(r) :
        {i \in ValidIds(r) : Gathered(r, 2)[i] = Gathered(r, 2)[j]} = GroupOf(r, j)
  BY <1>3 DEF GroupOf
<1> QED
  BY <1>4 DEF Groups

LEMMA PrioritiesGathered ==
  ASSUME ThinningInv, NEW r \in Ranks, rankPc[r] = "flag", Arrived(r)
  PROVE  Gathered(r, 3) = Priorities(r)
<1>1. Given /\ Enumerates(AccessorIds(r), Scope(r)) /\ Scope(r) \subseteq Locs
  BY IdsEnumerate, HeldTypes DEF ThinningInv, Scope
<1>2. Gathered(r, 3) = [i \in DOMAIN AccessorIds(r) |-> PriorityOf[AccessorIds(r)[i]]]
  <2>1. \A q \in Ranks : Communicates \/ q = r => posted[q][3].values = Vector(PriorityOf, q)
    BY ArrivedMeans
  <2>2. Gathers(r, 3, PriorityOf)
    BY <1>1, <2>1, GatherOrders, VectorTypes
  <2> QED
    BY <2>2 DEF Gathers
<1>3. \A i \in DOMAIN AccessorIds(r) : PriorityOf[AccessorIds(r)[i]] = obs[AccessorIds(r)[i]].priority
  BY <1>1 DEF Enumerates, PriorityOf
<1> QED
  BY <1>2, <1>3 DEF Priorities

LEMMA VectorsSent ==
  ASSUME Given, NEW r
  PROVE  /\ [i \in DOMAIN Local(r) |-> Valid(Local(r)[i])] = Vector(ValidOf, r)
         /\ [i \in DOMAIN Local(r) |-> Category(Local(r)[i])] = Vector(CategoryAt, r)
         /\ [i \in DOMAIN Local(r) |-> obs[Local(r)[i]].priority] = Vector(PriorityOf, r)
<1>1. \A i \in DOMAIN Local(r) : Local(r)[i] \in Locs
  BY HeldTypes DEF Lists
<1>2. \A l \in Locs : /\ ValidOf[l] = Valid(l) /\ CategoryAt[l] = Category(l)
                      /\ PriorityOf[l] = obs[l].priority
  BY DEF ValidOf, CategoryAt, PriorityOf
<1>3. \A i \in DOMAIN Local(r) : /\ ValidOf[Local(r)[i]] = Valid(Local(r)[i])
                                 /\ CategoryAt[Local(r)[i]] = Category(Local(r)[i])
                                 /\ PriorityOf[Local(r)[i]] = obs[Local(r)[i]].priority
  BY <1>1, <1>2
<1> QED
  BY <1>3 DEF Vector

IsAppended(t, s, e, A) ==
  /\ t \in Seq(A) /\ Len(t) = Len(s) + 1 /\ t[Len(s) + 1] = e
  /\ \A i \in 1 .. Len(s) : t[i] = s[i]

LEMMA Appending ==
  ASSUME NEW A, NEW s \in Seq(A), NEW e \in A
  PROVE  IsAppended(Append(s, e), s, e, A)
  BY AppendProperties DEF IsAppended

LEMMA Appends ==
  /\ \A a : Append(<<>>, a) = <<a>>
  /\ \A a, b : Append(<<a>>, b) = <<a, b>>
  /\ \A a, b, c : Append(<<a, b>>, c) = <<a, b, c>>
<1>1. ASSUME NEW a PROVE Append(<<>>, a) = <<a>>
  OBVIOUS
<1>2. ASSUME NEW a, NEW b PROVE Append(<<a>>, b) = <<a, b>>
  <2> DEFINE s == <<a>>
             t == Append(s, b)
  <2>1. s \in Seq({a, b}) /\ Len(s) = 1 /\ s[1] = a
    OBVIOUS
  <2> HIDE DEF s
  <2>2. t \in Seq({a, b}) /\ Len(t) = 2 /\ t[1] = a /\ t[2] = b
    <3>1. IsAppended(t, s, b, {a, b})
      BY <2>1, Appending
    <3> HIDE DEF t
    <3> QED
      BY <2>1, <3>1 DEF IsAppended
  <2> HIDE DEF t
  <2>3. t = <<a, b>>
    BY <2>2
  <2> QED
    BY <2>3 DEF s, t
<1>3. ASSUME NEW a, NEW b, NEW c PROVE Append(<<a, b>>, c) = <<a, b, c>>
  <2> DEFINE s == <<a, b>>
             t == Append(s, c)
  <2>1. s \in Seq({a, b, c}) /\ Len(s) = 2 /\ s[1] = a /\ s[2] = b
    OBVIOUS
  <2> HIDE DEF s
  <2>2. t \in Seq({a, b, c}) /\ Len(t) = 3 /\ t[1] = a /\ t[2] = b /\ t[3] = c
    <3>1. IsAppended(t, s, c, {a, b, c})
      BY <2>1, Appending
    <3> HIDE DEF t
    <3> QED
      BY <2>1, <3>1 DEF IsAppended
  <2> HIDE DEF t
  <2>3. t = <<a, b, c>>
    BY <2>2
  <2> QED
    BY <2>3 DEF s, t
<1> QED
  BY <1>1, <1>2, <1>3

LEMMA RankKept ==
  ASSUME obs' = obs, set' = set, holder' = holder, NEW r, PostedInv(r), WorkInv(r),
         rankPc'[r] = rankPc[r], posted'[r] = posted[r], validIds'[r] = validIds[r],
         groupsOf'[r] = groupsOf[r], flagged'[r] = flagged[r]
  PROVE  PostedInv(r)' /\ WorkInv(r)'
<1>1. PostedInv(r)'
  BY InputsKept DEF PostedInv
<1>2. WorkInv(r)'
  BY InputsKept DEF WorkInv, ToSet
<1> QED
  BY <1>1, <1>2

LEMMA NextThinningInv == ThinningInv /\ [ThinningNext]_thinningVars => ThinningInv'
<1> SUFFICES ASSUME ThinningInv, [ThinningNext]_thinningVars PROVE ThinningInv'
  OBVIOUS
<1>1. CASE UNCHANGED thinningVars
  <2>1. /\ obs' = obs /\ set' = set /\ holder' = holder /\ rankPc' = rankPc /\ posted' = posted
        /\ validIds' = validIds /\ groupsOf' = groupsOf /\ flagged' = flagged
    BY <1>1 DEF thinningVars
  <2>2. \A r \in Ranks : PostedInv(r)' /\ WorkInv(r)'
    BY <2>1, RankKept DEF ThinningInv
  <2> QED
    BY <2>1, <2>2, InputsKept DEF ThinningInv
<1>2. ASSUME NEW p \in Ranks, Step(p) PROVE ThinningInv'
  <2>1. /\ Given /\ rankPc \in [Ranks -> Steps]
        /\ DOMAIN posted = Ranks /\ DOMAIN validIds = Ranks /\ DOMAIN groupsOf = Ranks /\ DOMAIN flagged = Ranks
        /\ PostedInv(p) /\ WorkInv(p)
    BY <1>2 DEF ThinningInv
  <2>2. obs' = obs /\ set' = set /\ holder' = holder
    BY <1>2 DEF Step, CheckRecordCategories, PostValid, PostCategory, PostPriority, Flag
  <2>3. Given' /\ Held(p)' = Held(p) /\ Local(p)' = Local(p) /\ AccessorIds(p)' = AccessorIds(p)
    BY <2>1, <2>2, InputsKept
  <2> DEFINE Kept == /\ rankPc' \in [Ranks -> Steps]
                     /\ DOMAIN posted' = Ranks /\ DOMAIN validIds' = Ranks
                     /\ DOMAIN groupsOf' = Ranks /\ DOMAIN flagged' = Ranks
                     /\ \A r \in Ranks \ {p} :
                          /\ rankPc'[r] = rankPc[r] /\ posted'[r] = posted[r] /\ validIds'[r] = validIds[r]
                          /\ groupsOf'[r] = groupsOf[r] /\ flagged'[r] = flagged[r]
  <2>4. SUFFICES Kept /\ PostedInv(p)' /\ WorkInv(p)'
    <3>1. \A r \in Ranks \ {p} : PostedInv(r)' /\ WorkInv(r)'
      BY <2>2, <2>4, RankKept DEF ThinningInv
    <3> QED
      BY <2>3, <2>4, <3>1 DEF ThinningInv
  <2>5. CASE CheckRecordCategories(p)
    <3>1. /\ rankPc[p] = "check" /\ rankPc' = [rankPc EXCEPT ![p] = IF MixedRecord(p) THEN "threw" ELSE "valid"]
          /\ posted' = posted /\ validIds' = validIds /\ groupsOf' = groupsOf /\ flagged' = flagged
      BY <2>5 DEF CheckRecordCategories, GoTo
    <3>2. Kept /\ rankPc'[p] \in {"threw", "valid"}
      BY <2>1, <3>1 DEF Steps
    <3>3. PostedInv(p)'
      BY <2>1, <3>1, <3>2 DEF PostedInv
    <3>4. WorkInv(p)'
      BY <2>1, <3>1, <3>2 DEF WorkInv
    <3> QED
      BY <3>2, <3>3, <3>4
  <2>6. CASE PostValid(p)
    <3>1. /\ rankPc[p] = "valid" /\ rankPc' = [rankPc EXCEPT ![p] = "category"]
          /\ posted' = [posted EXCEPT ![p] = Append(@, Message("valid", ValidOf, p))]
          /\ validIds' = validIds /\ groupsOf' = groupsOf /\ flagged' = flagged
      BY <2>1, <2>6, VectorsSent DEF PostValid, GoTo, AllGatherv, Message
    <3>2. Kept /\ rankPc'[p] = "category"
      BY <2>1, <3>1 DEF Steps
    <3>3. posted'[p] = <<Message("valid", ValidOf, p)>>
      BY <2>1, <3>1, Appends DEF PostedInv
    <3>4. PostedInv(p)'
      BY <2>2, <3>2, <3>3, InputsKept DEF PostedInv
    <3>5. WorkInv(p)'
      BY <2>1, <3>1, <3>2 DEF WorkInv
    <3> QED
      BY <3>2, <3>4, <3>5
  <2>7. CASE PostCategory(p)
    <3>1. /\ rankPc[p] = "category" /\ Arrived(p) /\ rankPc' = [rankPc EXCEPT ![p] = "priority"]
          /\ posted' = [posted EXCEPT ![p] = Append(@, Message("category", CategoryAt, p))]
          /\ groupsOf' = groupsOf /\ flagged' = flagged
          /\ validIds' = [validIds EXCEPT ![p] =
                            InOrder({i \in DOMAIN Gathered(p, 1) : Gathered(p, 1)[i]})]
      BY <2>1, <2>7, VectorsSent DEF PostCategory, GoTo, AllGatherv, Message
    <3>2. Kept /\ rankPc'[p] = "priority"
      BY <2>1, <3>1 DEF Steps
    <3>3. posted'[p] = <<Message("valid", ValidOf, p), Message("category", CategoryAt, p)>>
      <4>1. posted[p] = <<Message("valid", ValidOf, p)>>
        BY <2>1, <3>1 DEF PostedInv
      <4>2. posted'[p] = Append(posted[p], Message("category", CategoryAt, p))
        BY <2>1, <3>1
      <4> QED
        BY <4>1, <4>2, Appends
    <3>4. PostedInv(p)'
      BY <2>2, <3>2, <3>3, InputsKept DEF PostedInv
    <3>5. ToSet(validIds'[p]) = ValidIds(p)
      BY <1>2, <2>1, <3>1, ValidsGathered
    <3>6. WorkInv(p)'
      BY <2>1, <2>2, <3>1, <3>2, <3>5, InputsKept DEF WorkInv, ToSet
    <3> QED
      BY <3>2, <3>4, <3>6
  <2>8. CASE PostPriority(p)
    <3>1. /\ rankPc[p] = "priority" /\ Arrived(p) /\ rankPc' = [rankPc EXCEPT ![p] = "flag"]
          /\ posted' = [posted EXCEPT ![p] = Append(@, Message("priority", PriorityOf, p))]
          /\ validIds' = validIds /\ flagged' = flagged
          /\ groupsOf' = [groupsOf EXCEPT ![p] =
               {{i \in ToSet(validIds[p]) : Gathered(p, 2)[i] = Gathered(p, 2)[j]} : j \in ToSet(validIds[p])}]
      BY <2>1, <2>8, VectorsSent DEF PostPriority, GoTo, AllGatherv, Message
    <3>2. Kept /\ rankPc'[p] = "flag"
      BY <2>1, <3>1 DEF Steps
    <3>3. posted'[p] = <<Message("valid", ValidOf, p), Message("category", CategoryAt, p),
                         Message("priority", PriorityOf, p)>>
      <4>1. posted[p] = <<Message("valid", ValidOf, p), Message("category", CategoryAt, p)>>
        BY <2>1, <3>1 DEF PostedInv
      <4>2. posted'[p] = Append(posted[p], Message("priority", PriorityOf, p))
        BY <2>1, <3>1
      <4> QED
        BY <4>1, <4>2, Appends
    <3>4. PostedInv(p)'
      BY <2>2, <3>2, <3>3, InputsKept DEF PostedInv
    <3>5. ToSet(validIds[p]) = ValidIds(p)
      BY <2>1, <3>1 DEF WorkInv
    <3>6. groupsOf'[p] = Groups(p)
      BY <1>2, <2>1, <3>1, <3>5, GroupsGathered
    <3>7. WorkInv(p)'
      <4>1. ValidIds(p)' = ValidIds(p) /\ Groups(p)' = Groups(p)
        BY <2>2, InputsKept
      <4>2. ToSet(validIds[p])' = ValidIds(p)'
        BY <3>1, <3>5, <4>1 DEF ToSet
      <4>3. groupsOf'[p] = Groups(p)' /\ flagged'[p] = {}
        BY <2>1, <3>1, <3>6, <4>1 DEF WorkInv
      <4> QED
        BY <3>2, <4>2, <4>3 DEF WorkInv
    <3> QED
      BY <3>2, <3>4, <3>7
  <2>9. CASE Flag(p)
    <3>1. /\ rankPc[p] = "flag" /\ Arrived(p) /\ rankPc' = [rankPc EXCEPT ![p] = "done"]
          /\ posted' = posted /\ validIds' = validIds /\ groupsOf' = groupsOf
          /\ flagged' = [flagged EXCEPT ![p] =
               (ChangeThinned({AccessorIds(p)[i] : i \in UNION {g \ {Best(g, Gathered(p, 3))} : g \in groupsOf[p]}})
                  \cap Held(p)) \cup FailingQC(p)]
      BY <2>9 DEF Flag, GoTo
    <3>2. Kept /\ rankPc'[p] = "done"
      BY <2>1, <3>1 DEF Steps
    <3>3. PostedInv(p)'
      BY <2>1, <2>2, <3>1, <3>2, InputsKept DEF PostedInv
    <3>4. Gathered(p, 3) = Priorities(p) /\ groupsOf[p] = Groups(p)
      BY <1>2, <2>1, <3>1, PrioritiesGathered DEF WorkInv
    <3>5. flagged'[p] = Outcome(p)
      BY <2>1, <3>1, <3>4 DEF Outcome, Thinned
    <3>6. WorkInv(p)'
      BY <2>1, <2>2, <3>1, <3>2, <3>5, InputsKept DEF WorkInv, ToSet
    <3> QED
      BY <3>2, <3>3, <3>6
  <2> QED
    BY <1>2, <2>5, <2>6, <2>7, <2>8, <2>9 DEF Step
<1> QED
  BY <1>1, <1>2 DEF ThinningNext, Finished

THEOREM ThinningInvariant == ThinningSpec => []ThinningInv
<1>1. ThinningInit => ThinningInv
  BY InitThinningInv
<1>2. ThinningInv /\ [ThinningNext]_thinningVars => ThinningInv'
  BY NextThinningInv
<1> QED
  BY <1>1, <1>2, PTL DEF ThinningSpec

(* Each rank keeps the types of its vectors, and flags what it holds.       *)
THEOREM ThinningTypeCorrect == ThinningSpec => []ThinningTypeOK
<1>1. ThinningInv => ThinningTypeOK
  <2> SUFFICES ASSUME ThinningInv PROVE ThinningTypeOK
    OBVIOUS
  <2>1. Given /\ rankPc \in [Ranks -> Steps] /\ \A r \in Ranks : PostedInv(r) /\ WorkInv(r)
    BY DEF ThinningInv
  <2>2. ASSUME NEW r \in Ranks
        PROVE  /\ Len(posted[r]) \in 0 .. 3
               /\ \A k \in DOMAIN posted[r] : Len(posted[r][k].values) = Cardinality(Held(r))
    <3> DEFINE a == Message("valid", ValidOf, r)
               b == Message("category", CategoryAt, r)
               c == Message("priority", PriorityOf, r)
    <3>1. posted[r] \in {<<>>, <<a>>, <<a, b>>, <<a, b, c>>}
      BY <2>1 DEF PostedInv, Steps
    <3>2. \A v \in {a, b, c} : Len(v.values) = Cardinality(Held(r))
      <4>1. /\ Len(Vector(ValidOf, r)) = Cardinality(Held(r))
            /\ Len(Vector(CategoryAt, r)) = Cardinality(Held(r))
            /\ Len(Vector(PriorityOf, r)) = Cardinality(Held(r))
        BY <2>1, VectorTypes, LocalVectors
      <4>2. a.values = Vector(ValidOf, r) /\ b.values = Vector(CategoryAt, r) /\ c.values = Vector(PriorityOf, r)
        BY DEF Message
      <4> HIDE DEF a, b, c
      <4> QED
        BY <4>1, <4>2
    <3> HIDE DEF a, b, c
    <3>3. /\ Len(posted[r]) \in 0 .. 3
          /\ \A k \in DOMAIN posted[r] : posted[r][k] \in {a, b, c}
      BY <3>1
    <3> QED
      BY <3>2, <3>3
  <2>3. ASSUME NEW r \in Ranks
        PROVE  /\ ToSet(validIds[r]) \subseteq DOMAIN AccessorIds(r)
               /\ UNION groupsOf[r] \subseteq ToSet(validIds[r])
               /\ flagged[r] \subseteq Held(r)
    <3>1. ValidIds(r) \subseteq DOMAIN AccessorIds(r) /\ UNION Groups(r) \subseteq ValidIds(r)
      BY DEF ValidIds, Groups, GroupOf
    <3>2. Outcome(r) \subseteq Held(r)
      BY DEF Outcome, FailingQC
    <3>3. ToSet(<<>>) = {}
      BY DEF ToSet
    <3> QED
      BY <2>1, <3>1, <3>2, <3>3 DEF WorkInv
  <2> QED
    BY <2>1, <2>2, <2>3 DEF ThinningTypeOK, Steps
<1> QED
  BY <1>1, ThinningInvariant, PTL

-----------------------------------------------------------------------------
(* What is thinned.                                                        *)

LEMMA BestIsBest ==
  ASSUME Given, NEW r \in Ranks, NEW G \in SUBSET DOMAIN AccessorIds(r), G # {}
  PROVE  /\ Best(G, Priorities(r)) \in G
         /\ \A j \in G : Priorities(r)[j] <= Priorities(r)[Best(G, Priorities(r))]
<1> DEFINE p == Priorities(r)
           R == {x \in G \X G : p[x[2]] < p[x[1]] \/ (p[x[2]] = p[x[1]] /\ x[1] < x[2])}
<1>1. Enumerates(AccessorIds(r), Scope(r)) /\ Scope(r) \subseteq Locs
  BY IdsEnumerate, HeldTypes DEF Scope
<1>2. PICK T \in Nat : DOMAIN AccessorIds(r) = 1 .. T
  BY <1>1 DEF Enumerates
<1>3. IsFiniteSet(G)
  BY <1>2, FS_Interval, FS_Subset
<1>4. \A i \in G : i \in Int /\ p[i] \in Int
  <2>1. \A i \in DOMAIN AccessorIds(r) : AccessorIds(r)[i] \in Locs
    BY <1>1 DEF Enumerates
  <2>2. \A i \in DOMAIN AccessorIds(r) : p[i] = obs[AccessorIds(r)[i]].priority
    BY DEF Priorities
  <2> QED
    BY <1>2, <2>1, <2>2, InputTypes
<1> HIDE DEF p
<1>5. \A i, j \in G : <<i, j>> \in R <=> p[j] < p[i] \/ (p[j] = p[i] /\ i < j)
  OBVIOUS
<1> HIDE DEF R
<1>6. Orders(R, G)
  BY <1>4, <1>5 DEF Orders
<1>7. PICK x \in G : \A j \in G \ {x} : <<x, j>> \in R
  BY <1>3, <1>6, FirstElement
<1>8. \A j \in G \ {x} : p[j] < p[x] \/ (p[j] = p[x] /\ x < j)
  BY <1>5, <1>7
<1>9. /\ Best(G, p) \in G
      /\ \A j \in G \ {Best(G, p)} : p[j] < p[Best(G, p)] \/ (p[j] = p[Best(G, p)] /\ Best(G, p) < j)
  BY <1>8 DEF Best
<1> QED
  BY <1>4, <1>9 DEF p

(* b is retained of the valid locations in S that have the category of l.   *)
Retains(b, l, S, T) ==
  /\ b \in S /\ Valid(b) /\ Category(b) = Category(l)
  /\ \A m \in S : Valid(m) /\ Category(m) = Category(l) =>
       (m \notin T <=> m = b) /\ obs[m].priority <= obs[b].priority

LEMMA RankRetainsOne ==
  ASSUME Given, NEW r \in Ranks
  PROVE  /\ Thinned(r) \subseteq {l \in Scope(r) : Valid(l)}
         /\ \A l \in Scope(r) : Valid(l) => \E b \in Scope(r) : Retains(b, l, Scope(r), Thinned(r))
<1> DEFINE ids == AccessorIds(r)
<1>1. Enumerates(ids, Scope(r)) /\ Scope(r) \subseteq Locs
  BY IdsEnumerate, HeldTypes DEF Scope
<1>2. \A j \in ValidIds(r) : j \in DOMAIN ids /\ ids[j] \in Scope(r) /\ Valid(ids[j])
  BY <1>1 DEF ValidIds, Enumerates
<1>3. \A j \in ValidIds(r) : j \in GroupOf(r, j) /\ GroupOf(r, j) \subseteq ValidIds(r)
  BY DEF GroupOf
<1>4. Thinned(r) = {ids[i] : i \in UNION {g \ {Best(g, Priorities(r))} : g \in Groups(r)}}
  BY DEF Thinned
<1>5. \A m : m \in Thinned(r) <=>
        \E j \in ValidIds(r) : \E i \in GroupOf(r, j) \ {Best(GroupOf(r, j), Priorities(r))} : m = ids[i]
  BY <1>4 DEF Groups
<1> HIDE DEF ids
<1>6. Thinned(r) \subseteq {l \in Scope(r) : Valid(l)}
  BY <1>2, <1>3, <1>5
<1>7. ASSUME NEW l \in Scope(r), Valid(l)
      PROVE  \E b \in Scope(r) : Retains(b, l, Scope(r), Thinned(r))
  <2>1. PICK j \in DOMAIN ids : ids[j] = l
    BY <1>1 DEF Enumerates
  <2>2. j \in ValidIds(r)
    BY <1>7, <2>1 DEF ValidIds, ids
  <2> DEFINE G == GroupOf(r, j)
             x == Best(G, Priorities(r))
  <2>3. G \in SUBSET DOMAIN AccessorIds(r) /\ G # {}
    BY <1>2, <1>3, <2>2 DEF ids
  <2>4. x \in G /\ \A i \in G : Priorities(r)[i] <= Priorities(r)[x]
    BY <2>3, BestIsBest
  <2>5. \A i \in G : i \in ValidIds(r) /\ Category(ids[i]) = Category(l)
    BY <2>1 DEF GroupOf, ids
  <2>6. \A i \in DOMAIN ids : Priorities(r)[i] = obs[ids[i]].priority
    BY DEF Priorities, ids
  <2>7. ASSUME NEW m \in Scope(r), Valid(m), Category(m) = Category(l)
        PROVE  (m \notin Thinned(r) <=> m = ids[x]) /\ obs[m].priority <= obs[ids[x]].priority
    <3>1. PICK i \in DOMAIN ids : ids[i] = m
      BY <1>1 DEF Enumerates
    <3>2. i \in G
      BY <2>1, <2>7, <3>1 DEF GroupOf, ValidIds, ids
    <3>3. i \in DOMAIN ids /\ x \in DOMAIN ids
      BY <2>3, <2>4, <3>1 DEF ids
    <3>4. m = ids[x] <=> i = x
      BY <1>1, <3>1, <3>3 DEF Enumerates
    <3>5. i # x => m \in Thinned(r)
      BY <1>5, <2>2, <3>1, <3>2
    <3>6. ASSUME m \in Thinned(r) PROVE i # x
      <4>1. PICK k \in ValidIds(r) : \E h \in GroupOf(r, k) \ {Best(GroupOf(r, k), Priorities(r))} : m = ids[h]
        BY <1>5, <3>6
      <4>2. i \in GroupOf(r, k) /\ i # Best(GroupOf(r, k), Priorities(r))
        <5>1. PICK h \in GroupOf(r, k) \ {Best(GroupOf(r, k), Priorities(r))} : m = ids[h]
          BY <4>1
        <5>2. h \in DOMAIN ids /\ ids[h] = ids[i]
          BY <1>2, <1>3, <4>1, <5>1, <3>1
        <5>3. h = i
          BY <1>1, <5>2 DEF Enumerates
        <5> QED
          BY <5>1, <5>3
      <4>3. GroupOf(r, k) = G
        <5>1. Category(ids[k]) = Category(ids[j])
          BY <2>1, <2>5, <3>2, <4>2 DEF GroupOf, ids
        <5> QED
          BY <5>1 DEF GroupOf, ids
      <4> QED
        BY <4>2, <4>3
    <3>7. obs[m].priority <= obs[ids[x]].priority
      BY <2>4, <2>6, <3>1, <3>2, <3>3
    <3> QED
      BY <3>4, <3>5, <3>6, <3>7
  <2>8. ids[x] \in Scope(r) /\ Valid(ids[x]) /\ Category(ids[x]) = Category(l)
    BY <1>2, <2>4, <2>5
  <2> QED
    BY <2>7, <2>8 DEF Retains
<1> QED
  BY <1>6, <1>7

(* What the ranks thin together.                                           *)
Lost == UNION {Thinned(r) : r \in Ranks}

(* Ranks that see all locations thin the same ones.                        *)
LEMMA RanksGroupAlike ==
  ASSUME Given, Communicates \/ Replicated, NEW r \in Ranks
  PROVE  Scope(r) = Locs /\ Thinned(r) = Lost
<1>1. \A q \in Ranks : AccessorIds(q) = AccessorIds(r) /\ Scope(q) = Locs
  <2>1. CASE Communicates
    BY <2>1 DEF AccessorIds, Scope
  <2>2. CASE Replicated /\ ~Communicates
    <3>1. \A q : Held(q) = Locs
      BY <2>2, HeldTypes
    <3>2. \A q : Local(q) = InOrder(Locs)
      BY <3>1 DEF Local
    <3> QED
      BY <2>2, <3>1, <3>2 DEF AccessorIds, Scope
  <2> QED
    BY <2>1, <2>2
<1>2. ASSUME NEW q \in Ranks PROVE Thinned(q) = Thinned(r)
  <2>1. AccessorIds(q) = AccessorIds(r)
    BY <1>1
  <2>2. ValidIds(q) = ValidIds(r) /\ Priorities(q) = Priorities(r)
    BY <2>1 DEF ValidIds, Priorities
  <2>3. \A j : GroupOf(q, j) = GroupOf(r, j)
    BY <2>1, <2>2 DEF GroupOf
  <2>4. Groups(q) = Groups(r)
    BY <2>2, <2>3 DEF Groups
  <2> QED
    BY <2>1, <2>2, <2>4 DEF Thinned
<1> QED
  BY <1>1, <1>2 DEF Lost

(* Otherwise the category is the record's, and a rank that holds a location *)
(* holds all that have its category.                                       *)
LEMMA ApartMeans ==
  ASSUME Given, ~Communicates, ~Replicated
  PROVE  /\ ~set.single /\ set.byCategory /\ set.grouping = "category"
         /\ \A l, m \in Locs : Category(l) = Category(m) => holder[l] = holder[m]
<1>1. Grouping = "record"
  BY DEF Communicates
<1>2. ~set.single /\ set.byCategory /\ set.grouping = "category"
  BY <1>1 DEF Grouping
<1>3. HasRecords /\ ~(\A l \in Locs : holder[l] = 0)
  BY <1>2 DEF HasRecords, Replicated
<1>4. \A l, m \in Locs : RecordNumber(l) = RecordNumber(m) => holder[l] = holder[m]
  BY <1>3 DEF Given, IsDistribution
<1> QED
  BY <1>1, <1>2, <1>4 DEF Category

LEMMA OneIsRetained ==
  ASSUME Given
  PROVE  /\ Lost \subseteq {l \in Locs : Valid(l)}
         /\ \A l \in Locs : Valid(l) => \E b \in Locs : Retains(b, l, Locs, Lost)
<1>1. \A r \in Ranks : Thinned(r) \subseteq {l \in Scope(r) : Valid(l)} /\ Scope(r) \subseteq Locs
  BY RankRetainsOne, HeldTypes DEF Scope
<1>2. Lost \subseteq {l \in Locs : Valid(l)}
  BY <1>1 DEF Lost
<1>3. ASSUME NEW l \in Locs, Valid(l) PROVE \E b \in Locs : Retains(b, l, Locs, Lost)
  <2>1. CASE Communicates \/ Replicated
    <3>1. PICK r \in Ranks : TRUE
      BY InputTypes
    <3>2. Scope(r) = Locs /\ Thinned(r) = Lost
      BY <2>1, RanksGroupAlike
    <3> QED
      BY <1>3, <3>2, RankRetainsOne
  <2>2. CASE ~Communicates /\ ~Replicated
    <3> DEFINE r == holder[l]
    <3>1. r \in Ranks /\ Scope(r) = Held(r) /\ l \in Held(r)
      BY <2>2, HeldTypes DEF Scope
    <3>2. PICK b \in Held(r) : Retains(b, l, Held(r), Thinned(r))
      BY <1>3, <3>1, RankRetainsOne
    <3>3. b \in Locs /\ Valid(b) /\ Category(b) = Category(l)
      BY <3>2, HeldTypes DEF Retains
    <3>4. ASSUME NEW m \in Locs, Valid(m), Category(m) = Category(l)
          PROVE  (m \notin Lost <=> m = b) /\ obs[m].priority <= obs[b].priority
      <4>1. m \in Held(r)
        BY <2>2, <3>1, <3>4, ApartMeans, HeldTypes
      <4>2. \A q \in Ranks \ {r} : m \notin Thinned(q)
        <5>1. \A q \in Ranks \ {r} : m \notin Held(q)
          BY <2>2, <3>1, <4>1, HeldTypes
        <5> QED
          BY <1>1, <2>2, <5>1 DEF Scope
      <4>3. m \in Lost <=> m \in Thinned(r)
        BY <3>1, <4>2 DEF Lost
      <4> QED
        BY <3>2, <3>4, <4>1, <4>3 DEF Retains
    <3> QED
      BY <3>3, <3>4 DEF Retains
  <2> QED
    BY <2>1, <2>2
<1> QED
  BY <1>2, <1>3

(* The locations flagged.                                                  *)
LEMMA FlaggedAreLost ==
  ASSUME ThinningInv, AllDone
  PROVE  Flagged = ChangeThinned(Lost) \cup Invalid
<1>1. Given /\ \A r \in Ranks : flagged[r] = Outcome(r)
  BY DEF ThinningInv, WorkInv, AllDone
<1>2. \A r \in Ranks : Outcome(r) = (ChangeThinned(Thinned(r)) \cup Invalid) \cap Held(r)
  <2>1. \A r \in Ranks : FailingQC(r) = Invalid \cap Held(r)
    BY <1>1, HeldTypes DEF FailingQC, Invalid
  <2> QED
    BY <2>1 DEF Outcome
<1>3. Lost \subseteq Locs
  BY <1>1, OneIsRetained
<1>4. ChangeThinned(Lost) \cup Invalid \subseteq Locs
  BY <1>3 DEF ChangeThinned, Invalid
<1>5. \A l : l \in Flagged <=>
        \E r \in Ranks : l \in ChangeThinned(Thinned(r)) \cup Invalid /\ l \in Held(r)
  BY <1>1, <1>2 DEF Flagged
<1>6. CASE Communicates \/ Replicated
  <2>1. \A r \in Ranks : Thinned(r) = Lost
    BY <1>1, <1>6, RanksGroupAlike
  <2>2. \A l : l \in Flagged <=> l \in ChangeThinned(Lost) \cup Invalid
    BY <1>1, <1>4, <1>5, <2>1, HeldTypes
  <2> QED
    BY <2>2
<1>7. CASE ~Communicates /\ ~Replicated
  <2>1. \A T : ChangeThinned(T) = T
    BY <1>1, <1>7, ApartMeans DEF ChangeThinned
  <2>2. \A r \in Ranks : Thinned(r) \subseteq Held(r)
    BY <1>1, <1>7, RankRetainsOne DEF Scope
  <2>3. \A l \in Invalid : \E r \in Ranks : l \in Held(r)
    BY <1>1, HeldTypes DEF Invalid
  <2>4. \A l : l \in Flagged <=> l \in Lost \cup Invalid
    BY <1>5, <2>1, <2>2, <2>3 DEF Lost
  <2> QED
    BY <2>1, <2>4
<1> QED
  BY <1>6, <1>7

-----------------------------------------------------------------------------
(* What competes.                                                          *)

LEMMA LaunchIsMember ==
  ASSUME Given, NEW S \in SUBSET Locs, S # {}
  PROVE  LaunchPosition(S) \in S
<1> DEFINE good == {l \in S : obs[l].time # Missing /\ Passes(l)}
           from == IF good = {} THEN S ELSE good
           R    == {x \in from \X from : Earlier(x[1], x[2]) \/ (x[1] < x[2] /\ ~Earlier(x[2], x[1]))}
<1>1. from \in SUBSET S /\ from # {} /\ IsFiniteSet(from)
  BY InputTypes, FS_Subset
<1>2. LaunchPosition(S) = CHOOSE l \in from : \A m \in from \ {l} : Earlier(l, m) \/ (l < m /\ ~Earlier(m, l))
  BY DEF LaunchPosition
<1> HIDE DEF from, good
<1>3. \A l, m \in from : <<l, m>> \in R <=> Earlier(l, m) \/ (l < m /\ ~Earlier(m, l))
  OBVIOUS
<1> HIDE DEF R
<1>4. \A l \in from : l \in Nat /\ obs[l].time \in Nat
  BY <1>1, InputTypes
<1>5. \A l, m \in from :
        Earlier(l, m) <=> obs[l].time # 0 /\ (obs[m].time = 0 \/ obs[l].time < obs[m].time)
  BY DEF Earlier, Missing
<1>6. Orders(R, from)
  <2>1. \A x \in from : <<x, x>> \notin R
    BY <1>3, <1>4, <1>5
  <2>2. ASSUME NEW x \in from, NEW y \in from, x # y
        PROVE  <<x, y>> \in R \/ <<y, x>> \in R
    <3>1. \/ Earlier(x, y) \/ (x < y /\ ~Earlier(y, x))
          \/ Earlier(y, x) \/ (y < x /\ ~Earlier(x, y))
      <4>1. x < y \/ y < x
        BY <1>4, <2>2
      <4> QED
        BY <4>1
    <3> QED
      BY <1>3, <3>1
  <2>3. ASSUME NEW x \in from, NEW y \in from, NEW z \in from, <<x, y>> \in R, <<y, z>> \in R
        PROVE  <<x, z>> \in R
    <3>1. /\ Earlier(x, y) \/ (x < y /\ ~Earlier(y, x))
          /\ Earlier(y, z) \/ (y < z /\ ~Earlier(z, y))
      BY <1>3, <2>3
    <3>2. Earlier(x, z) \/ (x < z /\ ~Earlier(z, x))
      BY <1>4, <1>5, <3>1
    <3> QED
      BY <1>3, <3>2
  <2> QED
    BY <2>1, <2>2, <2>3 DEF Orders
<1>7. PICK l \in from : \A m \in from \ {l} : <<l, m>> \in R
  BY <1>1, <1>6, FirstElement
<1>8. \A m \in from \ {l} : Earlier(l, m) \/ (l < m /\ ~Earlier(m, l))
  BY <1>3, <1>7
<1>9. LaunchPosition(S) \in from
  BY <1>2, <1>8
<1> QED
  BY <1>1, <1>9

(* One location of a unit decides what becomes of it.                      *)
Decides(u, l) ==
  /\ l \in u /\ l \in Locs /\ Represents(u) = l
  /\ Competes(u) <=> Valid(l)
  /\ CategoryOf(u) = Category(l)
  /\ u \cap ChangeThinned(Lost) = {} <=> l \notin Lost

LEMMA RecordsDecide ==
  ASSUME Given, set.single, HasRecords
  PROVE  /\ \A u \in Units : Decides(u, Represents(u))
         /\ \A l \in Locs : Valid(l) => Record(l) \in Units /\ Represents(Record(l)) = l
         /\ \A u, v \in Units : Represents(u) = Represents(v) => u = v
<1>1. Units = {Record(l) : l \in Locs} /\ \A u : Represents(u) = LaunchPosition(u)
  BY DEF Units, Represents
<1>2. \A l \in Locs : /\ l \in Record(l) /\ Record(l) \subseteq Locs
                      /\ \A m \in Record(l) : Record(m) = Record(l)
  BY DEF Record
<1>3. \A u \in Units : /\ LaunchPosition(u) \in u /\ LaunchPosition(u) \in Locs
                       /\ \A m \in u : m \in Locs /\ Record(m) = u
  BY <1>1, <1>2, LaunchIsMember
<1>4. \A l : Valid(l) <=> (l = LaunchPosition(Record(l)) /\ \E m \in Record(l) : obs[m].apply) /\ Passes(l)
  BY DEF Valid, Apply
<1>5. ASSUME NEW u \in Units PROVE Decides(u, Represents(u))
  <2> DEFINE l == LaunchPosition(u)
  <2>1. l \in u /\ l \in Locs /\ Record(l) = u /\ Represents(u) = l
    BY <1>1, <1>3
  <2>2. Competes(u) <=> Valid(l)
    BY <1>4, <2>1 DEF Competes
  <2>3. CategoryOf(u) = Category(l)
    BY <2>1 DEF CategoryOf, Category, Grouping
  <2>4. u \cap ChangeThinned(Lost) = {} <=> l \notin Lost
    <3>1. \A m \in u : m \in ChangeThinned(Lost) <=> u \cap Lost # {}
      BY <1>3 DEF ChangeThinned
    <3>2. \A m \in u : m \in Lost => m = l
      <4>1. \A m \in Lost : Valid(m)
        BY OneIsRetained
      <4> QED
        BY <1>3, <1>4, <4>1
    <3> QED
      BY <2>1, <3>1, <3>2
  <2> QED
    BY <2>1, <2>2, <2>3, <2>4 DEF Decides
<1>6. \A l \in Locs : Valid(l) => Record(l) \in Units /\ Represents(Record(l)) = l
  BY <1>1, <1>4
<1>7. \A u, v \in Units : Represents(u) = Represents(v) => u = v
  BY <1>1, <1>3
<1> QED
  BY <1>5, <1>6, <1>7

LEMMA LocationsDecide ==
  ASSUME Given, ~(set.single /\ HasRecords)
  PROVE  /\ \A u \in Units : Decides(u, Represents(u))
         /\ \A l \in Locs : Valid(l) => {l} \in Units /\ Represents({l}) = l
         /\ \A u, v \in Units : Represents(u) = Represents(v) => u = v
<1>1. Units = {{l} : l \in Locs} /\ \A l : Represents({l}) = l
  BY DEF Units, Represents
<1>2. \A l : Valid(l) <=> obs[l].apply /\ Passes(l)
  BY DEF Valid, Apply
<1>3. ChangeThinned(Lost) = Lost
  BY DEF ChangeThinned
<1>4. ASSUME NEW l \in Locs PROVE Decides({l}, l)
  <2>1. Competes({l}) <=> Valid(l)
    BY <1>1, <1>2 DEF Competes
  <2>2. CategoryOf({l}) = Category(l)
    <3>1. CategoryOf({l}) = IF set.byCategory THEN obs[l].category ELSE 0
      BY <1>1 DEF CategoryOf
    <3> QED
      BY <3>1 DEF Category, Grouping, RecordNumber
  <2> QED
    BY <1>1, <1>3, <2>1, <2>2 DEF Decides
<1>5. ASSUME NEW u \in Units PROVE Decides(u, Represents(u))
  <2>1. PICK l \in Locs : u = {l} /\ Represents(u) = l
    BY <1>1
  <2> QED
    BY <1>4, <2>1
<1>6. \A l \in Locs : {l} \in Units /\ Represents({l}) = l
  BY <1>1
<1>7. \A u \in Units : u = {Represents(u)}
  BY <1>1
<1> QED
  BY <1>5, <1>6, <1>7

(* For any number of ranks and however the locations are spread over them,  *)
(* one of the best competitors of each category is retained, no other, and  *)
(* what does not compete is left alone (Gaussian_Thinning::applyFilter).    *)
THEOREM OneOfEachGroupIsRetained == ThinningSpec => []OneRetainedPerGroup
<1>1. ThinningInv => OneRetainedPerGroup
  <2> SUFFICES ASSUME ThinningInv, AllDone, NEW u \in Units
               PROVE  IF Competes(u)
                        THEN \E b \in Rivals(u) :
                               /\ \A v \in Rivals(u) : ThinnedPart(v) = {} <=> v = b
                               /\ \A v \in Rivals(u) :
                                    obs[Represents(v)].priority <= obs[Represents(b)].priority
                        ELSE ThinnedPart(u) = {}
    BY DEF OneRetainedPerGroup
  <2>1. Given /\ Flagged = ChangeThinned(Lost) \cup Invalid
    BY FlaggedAreLost DEF ThinningInv
  <2>2. /\ \A v \in Units : Decides(v, Represents(v))
        /\ \A l \in Locs : Valid(l) => \E v \in Units : Represents(v) = l
        /\ \A v, w \in Units : Represents(v) = Represents(w) => v = w
    BY <2>1, RecordsDecide, LocationsDecide
  <2>3. Lost \subseteq {l \in Locs : Valid(l)}
    BY <2>1, OneIsRetained
  <2>4. ASSUME NEW v \in Units, Valid(Represents(v))
        PROVE  ThinnedPart(v) = {} <=> Represents(v) \notin Lost
    <3> DEFINE m == Represents(v)
    <3>1. m \in v /\ (v \cap ChangeThinned(Lost) = {} <=> m \notin Lost)
      BY <2>2 DEF Decides
    <3>2. m \notin Invalid
      BY <2>4 DEF Valid, Passes, Invalid
    <3>3. m \in Lost => m \in ChangeThinned(Lost)
      BY <2>3 DEF ChangeThinned, Record
    <3> QED
      BY <2>1, <3>1, <3>2, <3>3 DEF ThinnedPart
  <2>5. CASE ~Competes(u)
    <3>1. u \cap ChangeThinned(Lost) = {}
      BY <2>2, <2>3, <2>5 DEF Decides
    <3> QED
      BY <2>1, <2>5, <3>1 DEF ThinnedPart
  <2>6. CASE Competes(u)
    <3> DEFINE l == Represents(u)
    <3>1. l \in Locs /\ Valid(l) /\ CategoryOf(u) = Category(l)
      BY <2>2, <2>6 DEF Decides
    <3>2. PICK b \in Locs : Retains(b, l, Locs, Lost)
      BY <2>1, <3>1, OneIsRetained
    <3>3. PICK w \in Units : Represents(w) = b
      BY <2>2, <3>2 DEF Retains
    <3>4. w \in Rivals(u)
      BY <2>2, <3>1, <3>2, <3>3 DEF Rivals, Decides, Retains
    <3>5. ASSUME NEW v \in Rivals(u)
          PROVE  /\ ThinnedPart(v) = {} <=> v = w
                 /\ obs[Represents(v)].priority <= obs[b].priority
      <4> DEFINE m == Represents(v)
      <4>1. v \in Units /\ m \in Locs /\ Valid(m) /\ Category(m) = Category(l)
        BY <2>2, <3>1 DEF Rivals, Decides
      <4>2. ThinnedPart(v) = {} <=> m \notin Lost
        BY <2>4, <4>1
      <4>3. (m \notin Lost <=> m = b) /\ obs[m].priority <= obs[b].priority
        BY <3>2, <4>1 DEF Retains
      <4>4. v = w <=> m = b
        BY <2>2, <3>3, <4>1
      <4> QED
        BY <4>2, <4>3, <4>4
    <3> QED
      BY <2>6, <3>3, <3>4, <3>5
  <2> QED
    BY <2>5, <2>6
<1> QED
  BY <1>1, ThinningInvariant, PTL

(* Records that count as single observations are thinned whole, also by     *)
(* ranks that do not hold their launch position (RecordHandler).            *)
THEOREM RecordsStayWhole == ThinningSpec => []RecordsThinnedWhole
<1>1. ThinningInv => RecordsThinnedWhole
  <2> SUFFICES ASSUME ThinningInv, AllDone, set.single, HasRecords, NEW l \in Locs
               PROVE  Record(l) \subseteq Flagged \/ ThinnedPart(Record(l)) = {}
    BY DEF RecordsThinnedWhole
  <2>1. Flagged = {m \in Locs : Record(m) \cap Lost # {}} \cup Invalid
    BY FlaggedAreLost DEF ChangeThinned
  <2>2. \A m \in Record(l) : m \in Locs /\ Record(m) = Record(l)
    BY DEF Record
  <2> QED
    BY <2>1, <2>2 DEF ThinnedPart
<1> QED
  BY <1>1, ThinningInvariant, PTL

-----------------------------------------------------------------------------
(* Where: the tests.                                                       *)

LEMMA NumTests == DOMAIN Tests = 1 .. 12
  BY DEF Tests

-----------------------------------------------------------------------------
(* The comparisons of a clause: one for each test of each variable.        *)

(* Sequences on all levels.                                                *)
WellFormed(x) ==
  /\ IsSequence(x.params)
  /\ \A p \in DOMAIN x.params : IsSequence(x.params[p].variables)

Comparison(item, variable, k) ==
  [test |-> Tests[k], arg |-> item.tests[Tests[k]], var |-> variable]

(* x makes test k of variable v of item p.                                 *)
Makes(x, p, v, k) ==
  /\ p \in DOMAIN x.params /\ v \in DOMAIN x.params[p].variables /\ k \in DOMAIN Tests
  /\ x.params[p].variables[v].group # "VarMetaData"
  /\ Tests[k] \in DOMAIN x.params[p].tests

Made(x, p, v, k) == Comparison(x.params[p], x.params[p].variables[v], k)

LEMMA TestsOfRange ==
  ASSUME NEW item, NEW variable, NEW A, \A k \in DOMAIN Tests : Comparison(item, variable, k) \in A
  PROVE  /\ TestsOf(item, variable) \in Seq(A)
         /\ \A e : IsIn(e, TestsOf(item, variable)) <=>
                     \E k \in DOMAIN Tests : /\ Tests[k] \in DOMAIN item.tests
                                             /\ e = Comparison(item, variable, k)
<1> DEFINE part(k) == IF Tests[k] \in DOMAIN item.tests THEN << Comparison(item, variable, k) >> ELSE << >>
           S == [k \in DOMAIN Tests |-> part(k)]
<1>1. \A k \in DOMAIN Tests : part(k) \in Seq(A)
  OBVIOUS
<1>2. S \in [1 .. 12 -> Seq(A)] /\ \A k \in 1 .. 12 : S[k] = part(k)
  <2> HIDE DEF part
  <2> QED
    BY <1>1, NumTests
<1>3. TestsOf(item, variable) = FlattenSeq(S)
  BY DEF TestsOf, Comparison
<1> HIDE DEF S
<1>4. /\ FlattenSeq(S) \in Seq(A)
      /\ \A e : IsIn(e, FlattenSeq(S)) <=> \E k \in 1 .. 12 : IsIn(e, S[k])
  BY <1>2, FlattenRange
<1>5. \A e : \A k \in 1 .. 12 :
        IsIn(e, part(k)) <=> Tests[k] \in DOMAIN item.tests /\ e = Comparison(item, variable, k)
  BY DEF IsIn
<1> HIDE DEF part
<1>6. \A e : IsIn(e, TestsOf(item, variable)) <=> \E k \in 1 .. 12 : IsIn(e, part(k))
  BY <1>2, <1>3, <1>4
<1>7. \A e : IsIn(e, TestsOf(item, variable)) <=>
        \E k \in 1 .. 12 : Tests[k] \in DOMAIN item.tests /\ e = Comparison(item, variable, k)
  BY <1>5, <1>6
<1> QED
  BY <1>3, <1>4, <1>7, NumTests

LEMMA ComparisonsRange ==
  ASSUME NEW x, WellFormed(x)
  PROVE  /\ \E A : Comparisons(x) \in Seq(A)
         /\ \A e : IsIn(e, Comparisons(x)) <=> \E p, v, k : Makes(x, p, v, k) /\ e = Made(x, p, v, k)
<1> DEFINE last == Len(x.params)
           m(p) == Len(x.params[p].variables)
           item(p) == x.params[p]
           var(p, v) == x.params[p].variables[v]
           A == UNION {UNION {{Made(x, p, v, k) : k \in DOMAIN Tests} : v \in DOMAIN item(p).variables} :
                         p \in DOMAIN x.params}
           part(p, v) == IF var(p, v).group = "VarMetaData" THEN << >> ELSE TestsOf(item(p), var(p, v))
           inner(p) == [v \in DOMAIN item(p).variables |-> part(p, v)]
           S == [p \in DOMAIN x.params |-> FlattenSeq(inner(p))]
<1>1. last \in Nat /\ DOMAIN x.params = 1 .. last
  BY DEF WellFormed, IsSequence
<1>2. \A p \in 1 .. last : m(p) \in Nat /\ DOMAIN item(p).variables = 1 .. m(p)
  BY <1>1 DEF WellFormed, IsSequence
<1>3. ASSUME NEW p \in 1 .. last, NEW v \in 1 .. m(p)
      PROVE  /\ part(p, v) \in Seq(A)
             /\ \A e : IsIn(e, part(p, v)) <=> \E k : Makes(x, p, v, k) /\ e = Made(x, p, v, k)
  <2>1. p \in DOMAIN x.params /\ v \in DOMAIN x.params[p].variables
    BY <1>1, <1>2
  <2>2. \A k \in DOMAIN Tests : Comparison(item(p), var(p, v), k) \in A
    BY <2>1 DEF Made
  <2> HIDE DEF A
  <2>3. CASE var(p, v).group = "VarMetaData"
    BY <2>3 DEF IsIn, Makes
  <2>4. CASE var(p, v).group # "VarMetaData"
    <3>1. /\ TestsOf(item(p), var(p, v)) \in Seq(A)
          /\ \A e : IsIn(e, TestsOf(item(p), var(p, v))) <=>
                      \E k \in DOMAIN Tests : /\ Tests[k] \in DOMAIN item(p).tests
                                              /\ e = Comparison(item(p), var(p, v), k)
      BY <2>2, TestsOfRange
    <3>2. \A k : Makes(x, p, v, k) <=> k \in DOMAIN Tests /\ Tests[k] \in DOMAIN item(p).tests
      BY <2>1, <2>4 DEF Makes
    <3>3. \A k : Made(x, p, v, k) = Comparison(item(p), var(p, v), k)
      BY DEF Made
    <3>4. part(p, v) = TestsOf(item(p), var(p, v))
      BY <2>4
    <3> HIDE DEF part
    <3> QED
      BY <3>1, <3>2, <3>3, <3>4
  <2> QED
    BY <2>3, <2>4
<1> HIDE DEF A, part
<1>4. ASSUME NEW p \in 1 .. last
      PROVE  /\ FlattenSeq(inner(p)) \in Seq(A)
             /\ \A e : IsIn(e, FlattenSeq(inner(p))) <=> \E v \in 1 .. m(p) : IsIn(e, part(p, v))
  <2>1. inner(p) \in [1 .. m(p) -> Seq(A)] /\ \A v \in 1 .. m(p) : inner(p)[v] = part(p, v)
    BY <1>2, <1>3
  <2>2. m(p) \in Nat
    BY <1>2
  <2> HIDE DEF inner, m
  <2>3. /\ FlattenSeq(inner(p)) \in Seq(A)
        /\ \A e : IsIn(e, FlattenSeq(inner(p))) <=> \E v \in 1 .. m(p) : IsIn(e, inner(p)[v])
    BY <2>1, <2>2, FlattenRange
  <2> QED
    BY <2>1, <2>3
<1>5. S \in [1 .. last -> Seq(A)] /\ \A p \in 1 .. last : S[p] = FlattenSeq(inner(p))
  <2> HIDE DEF inner, last
  <2> QED
    BY <1>1, <1>4
<1>6. Comparisons(x) = FlattenSeq(S)
  BY DEF Comparisons, part
<1> HIDE DEF S, inner
<1>7. /\ FlattenSeq(S) \in Seq(A)
      /\ \A e : IsIn(e, FlattenSeq(S)) <=> \E p \in 1 .. last : IsIn(e, S[p])
  BY <1>1, <1>5, FlattenRange
<1>8. ASSUME NEW e
      PROVE  IsIn(e, Comparisons(x)) <=> \E p, v, k : Makes(x, p, v, k) /\ e = Made(x, p, v, k)
  <2>1. IsIn(e, Comparisons(x)) <=> \E p \in 1 .. last : \E v \in 1 .. m(p) : IsIn(e, part(p, v))
    BY <1>4, <1>5, <1>6, <1>7
  <2>2. \A p, v, k : Makes(x, p, v, k) => p \in 1 .. last /\ v \in 1 .. m(p)
    BY <1>1, <1>2 DEF Makes
  <2> HIDE DEF last, m
  <2> QED
    BY <1>3, <2>1, <2>2
<1> QED
  BY <1>6, <1>7, <1>8

-----------------------------------------------------------------------------
(* What a clause selects.                                                  *)

PassesAt(c, l) == PassesTest(c.test, c.arg, c.var, c.var.values[l])

(* The states of the loop over the comparisons.                            *)
Loop(f, x, last) ==
  f = [k \in 0 .. last |-> IF k = 0 THEN Start(x) ELSE Compare(x, f[k - 1], Comparisons(x)[k])]

LEMMA LoopUnfolds ==
  ASSUME NEW x, NEW last, NEW f, Loop(f, x, last)
  PROVE  \A k \in 0 .. last : f[k] = IF k = 0 THEN Start(x) ELSE Compare(x, f[k - 1], Comparisons(x)[k])
<1> DEFINE e(k) == IF k = 0 THEN Start(x) ELSE Compare(x, f[k - 1], Comparisons(x)[k])
           h == [k \in 0 .. last |-> e(k)]
<1>1. f = h
  BY DEF Loop
<1>2. \A k \in 0 .. last : h[k] = e(k)
  <2> HIDE DEF e
  <2> QED
    OBVIOUS
<1> HIDE DEF h
<1> QED
  BY <1>1, <1>2

LEMMA LoopExists ==
  ASSUME NEW x, NEW last \in Nat
  PROVE  \E f : Loop(f, x, last)
<1> DEFINE Bad == {k \in Nat : ~\E f : Loop(f, x, k)}
<1>1. SUFFICES ASSUME Bad # {} PROVE FALSE
  OBVIOUS
<1>2. PICK k \in Bad : \A y \in Bad : k <= y
  <2>1. Bad \in SUBSET Nat
    OBVIOUS
  <2> HIDE DEF Bad
  <2> QED
    BY <1>1, <2>1, LeastMember
<1>3. k \in Nat /\ ~\E f : Loop(f, x, k)
  OBVIOUS
<1>4. k # 0
  <2>1. ASSUME k = 0 PROVE FALSE
    <3> DEFINE f == [i \in 0 .. 0 |-> Start(x)]
    <3>1. \A i \in 0 .. 0 : i = 0
      OBVIOUS
    <3>2. [i \in 0 .. 0 |-> Start(x)] = [i \in 0 .. 0 |-> IF i = 0 THEN Start(x) ELSE Compare(x, f[i - 1], Comparisons(x)[i])]
      <4> HIDE DEF f
      <4> QED
        BY <3>1
    <3>3. Loop(f, x, 0)
      BY <3>2 DEF Loop
    <3> QED
      BY <1>3, <2>1, <3>3
  <2> QED
    BY <2>1
<1>5. k - 1 \in Nat /\ k - 1 \notin Bad
  BY <1>2, <1>3, <1>4
<1>6. PICK f : Loop(f, x, k - 1)
  BY <1>5
<1> HIDE DEF Bad
<1> DEFINE e(i) == IF i = 0 THEN Start(x) ELSE Compare(x, f[i - 1], Comparisons(x)[i])
           g    == [i \in 0 .. k |-> e(i)]
<1>7. \A i \in 0 .. k - 1 : f[i] = e(i)
  BY <1>6, LoopUnfolds
<1>8. \A i \in 0 .. k : i # 0 => i - 1 \in 0 .. k - 1 /\ i - 1 \in 0 .. k
  BY <1>3
<1>9. \A i \in 0 .. k : g[i] = e(i)
  <2> HIDE DEF e
  <2> QED
    OBVIOUS
<1>10. \A i \in 0 .. k : e(i) = IF i = 0 THEN Start(x) ELSE Compare(x, g[i - 1], Comparisons(x)[i])
  <2>1. \A i \in 0 .. k : i # 0 => g[i - 1] = f[i - 1]
    <3> HIDE DEF e, g
    <3> QED
      BY <1>7, <1>8, <1>9
  <2> HIDE DEF g
  <2> QED
    BY <2>1
<1>11. Loop(g, x, k)
  <2> DEFINE r(i) == IF i = 0 THEN Start(x) ELSE Compare(x, g[i - 1], Comparisons(x)[i])
  <2>1. \A i \in 0 .. k : e(i) = r(i)
    BY <1>10
  <2>2. [i \in 0 .. k |-> e(i)] = [i \in 0 .. k |-> r(i)]
    <3> HIDE DEF e, r
    <3> QED
      BY <2>1
  <2>3. g = [i \in 0 .. k |-> r(i)]
    BY <2>2
  <2> HIDE DEF g, e
  <2> QED
    BY <2>3 DEF Loop
<1> QED
  BY <1>3, <1>11

(* At a location the results of all tests are joined.                       *)
Joined(x, l, k) ==
  IF x.operator = "and"
    THEN \A i \in 1 .. k : PassesAt(Comparisons(x)[i], l)
    ELSE x.params = << >> \/ \E i \in 1 .. k : PassesAt(Comparisons(x)[i], l)

LEMMA CompareJoins ==
  ASSUME NEW x, NEW s, NEW c, NEW l \in Locations(x), DOMAIN s.where = Locations(x)
  PROVE  /\ DOMAIN Compare(x, s, c).where = Locations(x)
         /\ Compare(x, s, c).where[l] = IF x.operator = "and" THEN s.where[l] /\ (TRUE /\ PassesAt(c, l))
                                                             ELSE s.where[l] \/ (TRUE /\ PassesAt(c, l))
<1> DEFINE mask == Clear(Everywhere(x, TRUE), c)
<1>1. DOMAIN mask = Locations(x) /\ mask[l] = (TRUE /\ PassesAt(c, l))
  BY DEF Clear, Everywhere, PassesAt
<1>2. Compare(x, s, c).where = ApplyWhereOperator(x.operator, mask, s.where)
  BY DEF Compare
<1> HIDE DEF mask
<1> QED
  BY <1>1, <1>2 DEF ApplyWhereOperator

LEMMA SelectionJoins ==
  ASSUME NEW x, WellFormed(x), NEW l \in Locations(x)
  PROVE  /\ Selection(x)[l] \in BOOLEAN
         /\ Selection(x)[l] <=> Joined(x, l, Len(Comparisons(x)))
<1> DEFINE last == Len(Comparisons(x))
           f == CHOOSE g : Loop(g, x, last)
<1>1. last \in Nat
  <2>1. PICK A : Comparisons(x) \in Seq(A)
    BY ComparisonsRange
  <2> QED
    BY <2>1
<1>2. Loop(f, x, last)
  BY <1>1, LoopExists
<1>3. Selection(x) = f[last].where
  BY DEF Selection, Loop
<1> HIDE DEF f, last
<1>4. \A k \in 0 .. last : f[k] = IF k = 0 THEN Start(x) ELSE Compare(x, f[k - 1], Comparisons(x)[k])
  BY <1>2, LoopUnfolds
<1> DEFINE Good(k) == /\ DOMAIN f[k].where = Locations(x)
                      /\ f[k].where[l] \in BOOLEAN
                      /\ f[k].where[l] <=> Joined(x, l, k)
           Bad == {k \in 0 .. last : ~Good(k)}
<1>5. Good(0)
  <2>1. f[0] = Start(x)
    BY <1>1, <1>4
  <2>2. f[0].where = Everywhere(x, x.operator = "and" \/ x.params = << >>)
    BY <2>1 DEF Start
  <2>3. DOMAIN f[0].where = Locations(x) /\ f[0].where[l] = (x.operator = "and" \/ x.params = << >>)
    BY <2>2 DEF Everywhere
  <2>4. \A i : i \notin 1 .. 0
    OBVIOUS
  <2>5. Joined(x, l, 0) <=> (x.operator = "and" \/ x.params = << >>)
    BY <2>4 DEF Joined
  <2> QED
    BY <2>3, <2>5
<1>6. ASSUME NEW k \in 1 .. last, Good(k - 1) PROVE Good(k)
  <2>1. k \in 0 .. last /\ k # 0
    BY <1>1
  <2>2. f[k] = Compare(x, f[k - 1], Comparisons(x)[k])
    BY <1>4, <2>1
  <2>3. /\ DOMAIN f[k].where = Locations(x)
        /\ f[k].where[l] = IF x.operator = "and"
                             THEN f[k - 1].where[l] /\ (TRUE /\ PassesAt(Comparisons(x)[k], l))
                             ELSE f[k - 1].where[l] \/ (TRUE /\ PassesAt(Comparisons(x)[k], l))
    BY <1>6, <2>2, CompareJoins
  <2>4. \A i \in 1 .. k : i \in 1 .. k - 1 \/ i = k
    BY <1>1
  <2>5. \A i \in 1 .. k - 1 : i \in 1 .. k
    BY <1>1
  <2>6. k \in 1 .. k
    BY <1>1
  <2>7. Joined(x, l, k) <=> IF x.operator = "and"
                              THEN Joined(x, l, k - 1) /\ PassesAt(Comparisons(x)[k], l)
                              ELSE Joined(x, l, k - 1) \/ PassesAt(Comparisons(x)[k], l)
    BY <2>4, <2>5, <2>6 DEF Joined
  <2> QED
    BY <1>6, <2>3, <2>7
<1>7. Good(last)
  <2> HIDE DEF Good
  <2>1. ASSUME Bad # {} PROVE FALSE
    <3>1. PICK k \in Bad : \A y \in Bad : k <= y
      <4>1. Bad \in SUBSET Nat
        OBVIOUS
      <4> HIDE DEF Bad
      <4> QED
        BY <2>1, <4>1, LeastMember
    <3>2. k \in 0 .. last /\ ~Good(k)
      OBVIOUS
    <3>3. k \in 1 .. last
      BY <1>1, <1>5, <3>2
    <3>4. k - 1 \in 0 .. last /\ k - 1 \notin Bad
      <4>1. k - 1 \in 0 .. last /\ ~(k <= k - 1)
        BY <1>1, <3>3
      <4> HIDE DEF Bad
      <4> QED
        BY <3>1, <4>1
    <3>5. Good(k - 1)
      BY <3>4
    <3> QED
      BY <1>6, <3>2, <3>3, <3>5
  <2>2. last \in 0 .. last
    BY <1>1
  <2> QED
    BY <2>1, <2>2
<1> QED
  BY <1>3, <1>7 DEF last

-----------------------------------------------------------------------------
(* A clause and its opposite make opposite tests.                          *)

OppositeNames == DOMAIN OppositeTest

LEMMA OppositeTestTwice ==
  /\ \A t \in OppositeNames : OppositeTest[t] \in OppositeNames /\ OppositeTest[OppositeTest[t]] = t
  /\ \A t \in OppositeNames : \E k \in DOMAIN Tests : Tests[k] = t
  /\ "matches" \notin OppositeNames
  /\ \A k \in DOMAIN Tests : Tests[k] # "matches" => Tests[k] \in OppositeNames
<1>1. OppositeNames = {"min_max", "is_defined", "is_not_defined", "is_in", "is_close_to_any_of",
                       "is_not_in", "is_not_close_to_any_of", "is_true", "is_false",
                       "any_bit_set_of", "any_bit_unset_of"}
  BY DEF OppositeNames, OppositeTest
<1>2. \A t \in OppositeNames : OppositeTest[t] \in OppositeNames /\ OppositeTest[OppositeTest[t]] = t
  BY <1>1 DEF OppositeTest
<1>3. /\ DOMAIN Tests = 1 .. 12
      /\ Tests[1] = "min_max" /\ Tests[2] = "is_defined" /\ Tests[3] = "is_not_defined"
      /\ Tests[4] = "is_in" /\ Tests[5] = "is_close_to_any_of" /\ Tests[6] = "is_not_in"
      /\ Tests[7] = "is_not_close_to_any_of" /\ Tests[8] = "is_true" /\ Tests[9] = "is_false"
      /\ Tests[10] = "any_bit_set_of" /\ Tests[11] = "any_bit_unset_of" /\ Tests[12] = "matches"
  BY DEF Tests
<1>4. \A t \in OppositeNames : \E k \in DOMAIN Tests : Tests[k] = t
  <2> SUFFICES ASSUME NEW t \in OppositeNames PROVE \E k \in 1 .. 12 : Tests[k] = t
    BY <1>3
  <2> USE <1>3
  <2>1. CASE t \in {"min_max", "is_defined", "is_not_defined", "is_in"}
    BY <2>1
  <2>2. CASE t \in {"is_close_to_any_of", "is_not_in", "is_not_close_to_any_of", "is_true"}
    BY <2>2
  <2>3. CASE t \in {"is_false", "any_bit_set_of", "any_bit_unset_of"}
    BY <2>3
  <2> QED
    BY <1>1, <2>1, <2>2, <2>3
<1>5. \A k \in 1 .. 12 : Tests[k] # "matches" => Tests[k] \in OppositeNames
  <2> SUFFICES ASSUME NEW k \in 1 .. 12, Tests[k] # "matches" PROVE Tests[k] \in OppositeNames
    OBVIOUS
  <2>1. k \in {1, 2, 3, 4, 5, 6, 7, 8, 9, 10, 11, 12}
    OBVIOUS
  <2> QED
    BY <1>1, <1>3, <2>1
<1> QED
  BY <1>1, <1>2, <1>3, <1>4, <1>5

(* The bounds of a test are sets of at most one integer.                    *)
BoundsOK(arg) ==
  /\ arg.min \subseteq Int /\ arg.max \subseteq Int
  /\ \A b, c \in arg.min : b = c
  /\ \A b, c \in arg.max : b = c

LEMMA OppositePasses ==
  ASSUME NEW t \in OppositeNames, NEW arg, NEW var, NEW x \in Int,
         t = "min_max" => BoundsOK(arg),
         HasOpposite(t, arg), x # MissingValue,
         Accepts(t, arg, var), Accepts(OppositeTest[t], OppositeArgument(t, arg), var)
  PROVE  PassesTest(OppositeTest[t], OppositeArgument(t, arg), var, x) <=> ~PassesTest(t, arg, var, x)
<1>1. CASE t = "min_max"
  <2>1. OppositeTest[t] = "min_max" /\ OppositeArgument(t, arg) = [min |-> {b + 1 : b \in arg.max}, max |-> {b - 1 : b \in arg.min}]
    BY <1>1 DEF OppositeTest, OppositeArgument
  <2>2. (arg.min = {}) # (arg.max = {})
    BY <1>1 DEF HasOpposite
  <2>3. PassesTest(t, arg, var, x) <=> (\A b \in arg.min : x >= b) /\ (\A b \in arg.max : x <= b)
    BY <1>1 DEF PassesTest
  <2>4. PassesTest(OppositeTest[t], OppositeArgument(t, arg), var, x) <=>
          (\A b \in arg.max : x >= b + 1) /\ (\A b \in arg.min : x <= b - 1)
    BY <2>1 DEF PassesTest
  <2>5. CASE arg.max = {}
    <3>1. PICK b \in arg.min : TRUE
      BY <2>2, <2>5
    <3>2. arg.min = {b} /\ b \in Int
      BY <1>1, <3>1 DEF BoundsOK
    <3> QED
      BY <2>3, <2>4, <2>5, <3>2
  <2>6. CASE arg.min = {}
    <3>1. PICK b \in arg.max : TRUE
      BY <2>2, <2>6
    <3>2. arg.max = {b} /\ b \in Int
      BY <1>1, <3>1 DEF BoundsOK
    <3> QED
      BY <2>3, <2>4, <2>6, <3>2
  <2> QED
    BY <2>2, <2>5, <2>6
<1> DEFINE P(u, y) == PassesTest(u, y, var, x)
<1>2. ASSUME t # "min_max" PROVE OppositeArgument(t, arg) = arg
  BY <1>2 DEF OppositeArgument
<1>3. CASE t = "is_defined"
  <2>1. OppositeTest[t] = "is_not_defined" /\ OppositeArgument(t, arg) = arg
    BY <1>2, <1>3 DEF OppositeTest
  <2>2. P("is_defined", arg) <=> Exists(var) /\ x # MissingValue
    BY DEF PassesTest
  <2>3. P("is_not_defined", arg) <=> x = MissingValue
    BY DEF PassesTest
  <2>4. Accepts("is_not_defined", arg, var) => Exists(var)
    BY DEF Accepts, Exists
  <2> QED
    BY <1>3, <2>1, <2>2, <2>3, <2>4
<1>4. CASE t = "is_not_defined"
  <2>1. OppositeTest[t] = "is_defined" /\ OppositeArgument(t, arg) = arg
    BY <1>2, <1>4 DEF OppositeTest
  <2>2. P("is_defined", arg) <=> Exists(var) /\ x # MissingValue
    BY DEF PassesTest
  <2>3. P("is_not_defined", arg) <=> x = MissingValue
    BY DEF PassesTest
  <2>4. Accepts("is_not_defined", arg, var) => Exists(var)
    BY DEF Accepts, Exists
  <2> QED
    BY <1>4, <2>1, <2>2, <2>3, <2>4
<1>5. CASE t = "is_in"
  <2>1. OppositeTest[t] = "is_not_in" /\ OppositeArgument(t, arg) = arg
    BY <1>2, <1>5 DEF OppositeTest
  <2>2. P("is_in", arg) <=> x \in arg
    BY DEF PassesTest
  <2>3. P("is_not_in", arg) <=> x \notin arg /\ (var.dtype = "Integer" => x # MissingValue)
    BY DEF PassesTest
  <2> QED
    BY <1>5, <2>1, <2>2, <2>3
<1>6. CASE t = "is_not_in"
  <2>1. OppositeTest[t] = "is_in" /\ OppositeArgument(t, arg) = arg
    BY <1>2, <1>6 DEF OppositeTest
  <2>2. P("is_in", arg) <=> x \in arg
    BY DEF PassesTest
  <2>3. P("is_not_in", arg) <=> x \notin arg /\ (var.dtype = "Integer" => x # MissingValue)
    BY DEF PassesTest
  <2> QED
    BY <1>6, <2>1, <2>2, <2>3
<1>7. CASE t = "is_close_to_any_of"
  <2>1. OppositeTest[t] = "is_not_close_to_any_of" /\ OppositeArgument(t, arg) = arg
    BY <1>2, <1>7 DEF OppositeTest
  <2>2. P("is_close_to_any_of", arg) <=> Close(arg, x)
    BY DEF PassesTest
  <2>3. P("is_not_close_to_any_of", arg) <=> ~Close(arg, x) /\ (arg.values # {} => x # MissingValue)
    BY DEF PassesTest
  <2> QED
    BY <1>7, <2>1, <2>2, <2>3
<1>8. CASE t = "is_not_close_to_any_of"
  <2>1. OppositeTest[t] = "is_close_to_any_of" /\ OppositeArgument(t, arg) = arg
    BY <1>2, <1>8 DEF OppositeTest
  <2>2. P("is_close_to_any_of", arg) <=> Close(arg, x)
    BY DEF PassesTest
  <2>3. P("is_not_close_to_any_of", arg) <=> ~Close(arg, x) /\ (arg.values # {} => x # MissingValue)
    BY DEF PassesTest
  <2> QED
    BY <1>8, <2>1, <2>2, <2>3
<1>9. CASE t = "is_true"
  <2>1. OppositeTest[t] = "is_false" /\ OppositeArgument(t, arg) = arg
    BY <1>2, <1>9 DEF OppositeTest
  <2>2. P("is_true", arg) <=> Exists(var) /\ x = 1
    BY DEF PassesTest
  <2>3. P("is_false", arg) <=> x # 1
    BY DEF PassesTest
  <2>4. Accepts("is_false", arg, var) => Exists(var)
    BY DEF Accepts, Exists
  <2> QED
    BY <1>9, <2>1, <2>2, <2>3, <2>4
<1>10. CASE t = "is_false"
  <2>1. OppositeTest[t] = "is_true" /\ OppositeArgument(t, arg) = arg
    BY <1>2, <1>10 DEF OppositeTest
  <2>2. P("is_true", arg) <=> Exists(var) /\ x = 1
    BY DEF PassesTest
  <2>3. P("is_false", arg) <=> x # 1
    BY DEF PassesTest
  <2>4. Accepts("is_false", arg, var) => Exists(var)
    BY DEF Accepts, Exists
  <2> QED
    BY <1>10, <2>1, <2>2, <2>3, <2>4
<1>11. CASE t = "any_bit_set_of"
  <2>1. OppositeTest[t] = "any_bit_unset_of" /\ OppositeArgument(t, arg) = arg
    BY <1>2, <1>11 DEF OppositeTest
  <2>2. P("any_bit_set_of", arg) <=> BitsOf(x) \cap arg # {}
    BY DEF PassesTest
  <2>3. P("any_bit_unset_of", arg) <=> ~ arg \subseteq BitsOf(x)
    BY DEF PassesTest
  <2>4. PICK b \in arg : arg = {b}
    BY <1>11 DEF HasOpposite
  <2> QED
    BY <1>11, <2>1, <2>2, <2>3, <2>4
<1>12. CASE t = "any_bit_unset_of"
  <2>1. OppositeTest[t] = "any_bit_set_of" /\ OppositeArgument(t, arg) = arg
    BY <1>2, <1>12 DEF OppositeTest
  <2>2. P("any_bit_set_of", arg) <=> BitsOf(x) \cap arg # {}
    BY DEF PassesTest
  <2>3. P("any_bit_unset_of", arg) <=> ~ arg \subseteq BitsOf(x)
    BY DEF PassesTest
  <2>4. PICK b \in arg : arg = {b}
    BY <1>12 DEF HasOpposite
  <2> QED
    BY <1>12, <2>1, <2>2, <2>3, <2>4
<1>13. OppositeNames = {"min_max", "is_defined", "is_not_defined", "is_in", "is_close_to_any_of",
                       "is_not_in", "is_not_close_to_any_of", "is_true", "is_false",
                       "any_bit_set_of", "any_bit_unset_of"}
  BY DEF OppositeNames, OppositeTest
<1> QED
  BY <1>1, <1>3, <1>4, <1>5, <1>6, <1>7, <1>8, <1>9, <1>10, <1>11, <1>12, <1>13

(* The item with the opposite tests.                                       *)
LEMMA OppositeTestsOfItem ==
  ASSUME NEW item, DOMAIN item.tests \subseteq OppositeNames
  PROVE  /\ OppositeItem(item).variables = item.variables
         /\ DOMAIN OppositeItem(item).tests = {OppositeTest[u] : u \in DOMAIN item.tests}
         /\ \A u \in DOMAIN item.tests :
              OppositeItem(item).tests[OppositeTest[u]] = OppositeArgument(u, item.tests[u])
<1> DEFINE T == {OppositeTest[u] : u \in DOMAIN item.tests}
           of(t) == CHOOSE u \in DOMAIN item.tests : OppositeTest[u] = t
           arg(t) == OppositeArgument(of(t), item.tests[of(t)])
<1>1. OppositeItem(item).variables = item.variables /\ OppositeItem(item).tests = [t \in T |-> arg(t)]
  BY DEF OppositeItem
<1>2. ASSUME NEW u \in DOMAIN item.tests PROVE of(OppositeTest[u]) = u
  <2>1. \A w \in DOMAIN item.tests : OppositeTest[w] = OppositeTest[u] => w = u
    BY OppositeTestTwice
  <2> QED
    BY <2>1
<1> HIDE DEF of
<1> QED
  BY <1>1, <1>2

(* Every comparison of one clause has its opposite in the other one.        *)
AreOpposite(c, d) ==
  /\ c.var = d.var
  /\ d.test = OppositeTest[c.test] /\ d.arg = OppositeArgument(c.test, c.arg)
  /\ c.test \in OppositeNames

LEMMA OppositesCorrespond ==
  ASSUME NEW x, WellFormed(x), Opposable(x),
         \A p \in DOMAIN x.params : DOMAIN x.params[p].tests \subseteq ToSet(Tests)
  PROVE  /\ WellFormed(Opposite(x))
         /\ \A c : IsIn(c, Comparisons(x)) =>
              \E d : IsIn(d, Comparisons(Opposite(x))) /\ AreOpposite(c, d)
         /\ \A d : IsIn(d, Comparisons(Opposite(x))) =>
              \E c : IsIn(c, Comparisons(x)) /\ AreOpposite(c, d)
<1> DEFINE y == Opposite(x)
<1>1. /\ DOMAIN y.params = DOMAIN x.params
      /\ y.params = [p \in DOMAIN x.params |-> OppositeItem(x.params[p])]
      /\ \A p \in DOMAIN x.params : y.params[p] = OppositeItem(x.params[p])
      /\ \A p \in DOMAIN x.params : y.params[p].variables = x.params[p].variables
  BY DEF Opposite, OppositeItem
<1>2. WellFormed(y)
  <2>1. Len(x.params) \in Nat /\ DOMAIN x.params = 1 .. Len(x.params)
    BY DEF WellFormed, IsSequence
  <2>2. Len(y.params) = Len(x.params)
    <3> HIDE DEF y
    <3>1. y.params \in Seq({y.params[p] : p \in DOMAIN x.params})
      BY <1>1, <2>1
    <3> QED
      BY <1>1, <2>1, <3>1
  <2> QED
    BY <1>1, <2>1, <2>2 DEF WellFormed, IsSequence
<1> HIDE DEF y
<1>3. \A c : IsIn(c, Comparisons(x)) => HasOpposite(c.test, c.arg)
  BY DEF Opposable, IsIn
<1>4. \A e : IsIn(e, Comparisons(x)) <=> \E p, v, k : Makes(x, p, v, k) /\ e = Made(x, p, v, k)
  BY ComparisonsRange
<1>5. \A e : IsIn(e, Comparisons(y)) <=> \E p, v, k : Makes(y, p, v, k) /\ e = Made(y, p, v, k)
  BY <1>2, ComparisonsRange
<1>6. ASSUME NEW p \in DOMAIN x.params, NEW v \in DOMAIN x.params[p].variables,
             x.params[p].variables[v].group # "VarMetaData"
      PROVE  DOMAIN x.params[p].tests \subseteq OppositeNames
  <2> SUFFICES ASSUME NEW t \in DOMAIN x.params[p].tests PROVE t \in OppositeNames
    OBVIOUS
  <2>1. PICK k \in DOMAIN Tests : Tests[k] = t
    BY DEF ToSet
  <2>2. Makes(x, p, v, k)
    BY <1>6, <2>1 DEF Makes
  <2>3. HasOpposite(Made(x, p, v, k).test, Made(x, p, v, k).arg)
    BY <1>3, <1>4, <2>2
  <2>4. Made(x, p, v, k).test = t
    BY <2>1 DEF Made, Comparison
  <2>5. t # "matches"
    BY <2>3, <2>4 DEF HasOpposite
  <2> QED
    BY <2>1, <2>5, OppositeTestTwice
<1>7. ASSUME NEW c, IsIn(c, Comparisons(x)) PROVE \E d : IsIn(d, Comparisons(y)) /\ AreOpposite(c, d)
  <2>1. PICK p, v, k : Makes(x, p, v, k) /\ c = Made(x, p, v, k)
    BY <1>4, <1>7
  <2>2. DOMAIN x.params[p].tests \subseteq OppositeNames
    BY <1>6, <2>1 DEF Makes
  <2>3. /\ DOMAIN y.params[p].tests = {OppositeTest[u] : u \in DOMAIN x.params[p].tests}
        /\ \A u \in DOMAIN x.params[p].tests :
             y.params[p].tests[OppositeTest[u]] = OppositeArgument(u, x.params[p].tests[u])
    BY <1>1, <2>1, <2>2, OppositeTestsOfItem DEF Makes
  <2>4. Tests[k] \in DOMAIN x.params[p].tests /\ Tests[k] \in OppositeNames
    BY <2>1, <2>2 DEF Makes
  <2>5. PICK m \in DOMAIN Tests : Tests[m] = OppositeTest[Tests[k]]
    BY <2>4, OppositeTestTwice
  <2>6. Makes(y, p, v, m)
    BY <1>1, <2>1, <2>3, <2>4, <2>5 DEF Makes
  <2>7. AreOpposite(c, Made(y, p, v, m))
    <3>1. c.test = Tests[k] /\ c.arg = x.params[p].tests[Tests[k]] /\ c.var = x.params[p].variables[v]
      BY <2>1 DEF Made, Comparison
    <3>2. /\ Made(y, p, v, m).test = Tests[m] /\ Made(y, p, v, m).arg = y.params[p].tests[Tests[m]]
          /\ Made(y, p, v, m).var = y.params[p].variables[v]
      BY DEF Made, Comparison
    <3>3. y.params[p].variables = x.params[p].variables
      BY <1>1, <2>1 DEF Makes
    <3> QED
      BY <2>3, <2>4, <2>5, <3>1, <3>2, <3>3 DEF AreOpposite
  <2> QED
    BY <1>5, <2>6, <2>7
<1>8. ASSUME NEW d, IsIn(d, Comparisons(y)) PROVE \E c : IsIn(c, Comparisons(x)) /\ AreOpposite(c, d)
  <2>1. PICK p, v, m : Makes(y, p, v, m) /\ d = Made(y, p, v, m)
    BY <1>5, <1>8
  <2>2. /\ p \in DOMAIN x.params /\ v \in DOMAIN x.params[p].variables
        /\ x.params[p].variables[v].group # "VarMetaData"
        /\ y.params[p].variables = x.params[p].variables
    BY <1>1, <2>1 DEF Makes
  <2>3. DOMAIN x.params[p].tests \subseteq OppositeNames
    BY <1>6, <2>2
  <2>4. /\ DOMAIN y.params[p].tests = {OppositeTest[u] : u \in DOMAIN x.params[p].tests}
        /\ \A u \in DOMAIN x.params[p].tests :
             y.params[p].tests[OppositeTest[u]] = OppositeArgument(u, x.params[p].tests[u])
    BY <1>1, <2>2, <2>3, OppositeTestsOfItem
  <2>5. PICK u \in DOMAIN x.params[p].tests : OppositeTest[u] = Tests[m]
    BY <2>1, <2>4 DEF Makes
  <2>6. PICK k \in DOMAIN Tests : Tests[k] = u
    BY <2>3, <2>5, OppositeTestTwice
  <2>7. Makes(x, p, v, k)
    BY <2>2, <2>5, <2>6 DEF Makes
  <2>8. AreOpposite(Made(x, p, v, k), d)
    <3>1. /\ Made(x, p, v, k).test = u /\ Made(x, p, v, k).arg = x.params[p].tests[u]
          /\ Made(x, p, v, k).var = x.params[p].variables[v]
      BY <2>6 DEF Made, Comparison
    <3>2. d.test = Tests[m] /\ d.arg = y.params[p].tests[Tests[m]] /\ d.var = y.params[p].variables[v]
      BY <2>1 DEF Made, Comparison
    <3> QED
      BY <2>2, <2>3, <2>4, <2>5, <3>1, <3>2 DEF AreOpposite
  <2> QED
    BY <1>4, <2>7, <2>8
<1> QED
  BY <1>2, <1>7, <1>8 DEF y

(* What WhereAssumption says of one clause.                                *)
LEMMA ClauseOK ==
  ASSUME NEW x \in Clauses
  PROVE  /\ WellFormed(x)
         /\ x.operator \in {"and", "or"}
         /\ \A p \in DOMAIN x.params : DOMAIN x.params[p].tests \subseteq ToSet(Tests)
         /\ \A c : IsIn(c, Comparisons(x)) =>
              /\ c.test = "min_max" => BoundsOK(c.arg)
              /\ c.var.values \in [Locations(x) -> Int]
<1>1. x.operator \in {"and", "or"} /\ WellFormed(x)
  BY WhereAssumption DEF WellFormed
<1>2. \A p \in DOMAIN x.params : DOMAIN x.params[p].tests \subseteq ToSet(Tests)
  BY WhereAssumption
<1>3. ASSUME NEW p \in DOMAIN x.params, "min_max" \in DOMAIN x.params[p].tests
      PROVE  BoundsOK(x.params[p].tests["min_max"])
  BY <1>3, WhereAssumption DEF BoundsOK
<1>4. ASSUME NEW p \in DOMAIN x.params, NEW v \in DOMAIN x.params[p].variables
      PROVE  x.params[p].variables[v].values \in [1 .. x.nlocs -> Int]
  BY WhereAssumption
<1>5. ASSUME NEW c, IsIn(c, Comparisons(x))
      PROVE  /\ c.test = "min_max" => BoundsOK(c.arg)
             /\ c.var.values \in [Locations(x) -> Int]
  <2>1. PICK p, v, k : Makes(x, p, v, k) /\ c = Made(x, p, v, k)
    BY <1>1, <1>5, ComparisonsRange
  <2>2. c.test = Tests[k] /\ c.arg = x.params[p].tests[Tests[k]] /\ c.var = x.params[p].variables[v]
    BY <2>1 DEF Made, Comparison
  <2>3. /\ p \in DOMAIN x.params /\ v \in DOMAIN x.params[p].variables
        /\ Tests[k] \in DOMAIN x.params[p].tests
    BY <2>1 DEF Makes
  <2> QED
    BY <1>3, <1>4, <2>2, <2>3 DEF Locations
<1> QED
  BY <1>1, <1>2, <1>5

(* The joined results of opposite tests differ.                            *)
LEMMA OppositesDiffer ==
  ASSUME NEW x \in Clauses, ~Throws(x), Opposable(x), ~Throws(Opposite(x)),
         NEW l \in Locations(x), HasAllValues(x, l)
  PROVE  Selection(x)[l] # Selection(Opposite(x))[l]
<1> DEFINE y == Opposite(x)
           made == Comparisons(x)
           opposed == Comparisons(y)
<1>1. /\ WellFormed(x)
      /\ x.operator \in {"and", "or"}
      /\ \A p \in DOMAIN x.params : DOMAIN x.params[p].tests \subseteq ToSet(Tests)
      /\ \A c : IsIn(c, made) => /\ c.test = "min_max" => BoundsOK(c.arg)
                                 /\ c.var.values \in [Locations(x) -> Int]
  BY ClauseOK
<1>2. /\ WellFormed(y)
      /\ \A c : IsIn(c, made) => \E d : IsIn(d, opposed) /\ AreOpposite(c, d)
      /\ \A d : IsIn(d, opposed) => \E c : IsIn(c, made) /\ AreOpposite(c, d)
  BY <1>1, OppositesCorrespond
<1>3. /\ y.operator = IF x.operator = "and" THEN "or" ELSE "and"
      /\ y.nlocs = x.nlocs
  BY DEF Opposite
<1>4. l \in Locations(y)
  BY <1>3 DEF Locations
<1> HIDE DEF y
<1>5. ASSUME NEW c, NEW d, IsIn(c, made), IsIn(d, opposed), AreOpposite(c, d)
      PROVE  PassesAt(d, l) <=> ~PassesAt(c, l)
  <2>1. c.var.values[l] \in Int /\ c.var.values[l] # MissingValue
    BY <1>1, <1>5 DEF HasAllValues, IsIn
  <2>2. HasOpposite(c.test, c.arg)
    BY <1>5 DEF Opposable, IsIn
  <2>3. Accepts(c.test, c.arg, c.var)
    BY <1>5 DEF Throws, IsIn
  <2>4. Accepts(d.test, d.arg, d.var)
    BY <1>5 DEF Throws, IsIn, y
  <2>5. /\ c.var = d.var /\ c.test \in OppositeNames
        /\ d.test = OppositeTest[c.test] /\ d.arg = OppositeArgument(c.test, c.arg)
    BY <1>5 DEF AreOpposite
  <2>6. c.test = "min_max" => BoundsOK(c.arg)
    BY <1>1, <1>5
  <2>7. PassesTest(d.test, d.arg, c.var, c.var.values[l]) <=>
          ~PassesTest(c.test, c.arg, c.var, c.var.values[l])
    <3>1. Accepts(OppositeTest[c.test], OppositeArgument(c.test, c.arg), c.var)
      BY <2>4, <2>5
    <3>2. PassesTest(OppositeTest[c.test], OppositeArgument(c.test, c.arg), c.var, c.var.values[l]) <=>
            ~PassesTest(c.test, c.arg, c.var, c.var.values[l])
      BY <2>1, <2>2, <2>3, <2>5, <2>6, <3>1, OppositePasses
    <3> QED
      BY <2>5, <3>2
  <2> QED
    BY <2>5, <2>7 DEF PassesAt
<1>6. DOMAIN made = 1 .. Len(made) /\ DOMAIN opposed = 1 .. Len(opposed)
  <2>1. PICK A : made \in Seq(A)
    BY <1>1, ComparisonsRange
  <2>2. PICK B : opposed \in Seq(B)
    BY <1>2, ComparisonsRange
  <2> HIDE DEF made, opposed
  <2> QED
    BY <2>1, <2>2
<1>7. x.params # << >> /\ y.params # << >>
  <2>1. PICK A : made \in Seq(A)
    BY <1>1, ComparisonsRange
  <2>2. made # << >>
    BY DEF Opposable
  <2>3. IsIn(made[1], made)
    <3> HIDE DEF made
    <3> QED
      BY <2>1, <2>2 DEF IsIn
  <2>4. PICK d : IsIn(d, opposed)
    BY <1>2, <2>3
  <2>5. \A p : p \notin DOMAIN << >>
    OBVIOUS
  <2>6. \E p : p \in DOMAIN x.params
    BY <1>1, <2>3, ComparisonsRange DEF Makes
  <2>7. \E p : p \in DOMAIN y.params
    BY <1>2, <2>4, ComparisonsRange DEF Makes
  <2> QED
    BY <2>5, <2>6, <2>7
<1>8. /\ Selection(x)[l] \in BOOLEAN
      /\ Selection(x)[l] <=> Joined(x, l, Len(made))
  BY <1>1, SelectionJoins
<1>9. /\ Selection(y)[l] \in BOOLEAN
      /\ Selection(y)[l] <=> Joined(y, l, Len(opposed))
  BY <1>2, <1>4, SelectionJoins
<1>10. /\ Joined(x, l, Len(made)) <=>
           IF x.operator = "and" THEN \A c : IsIn(c, made) => PassesAt(c, l)
                                 ELSE \E c : IsIn(c, made) /\ PassesAt(c, l)
       /\ Joined(y, l, Len(opposed)) <=>
           IF y.operator = "and" THEN \A d : IsIn(d, opposed) => PassesAt(d, l)
                                 ELSE \E d : IsIn(d, opposed) /\ PassesAt(d, l)
  BY <1>6, <1>7 DEF Joined, IsIn
<1> HIDE DEF made, opposed
<1>11. Joined(x, l, Len(made)) <=> ~Joined(y, l, Len(opposed))
  <2>1. CASE x.operator = "and"
    BY <1>2, <1>3, <1>5, <1>10, <2>1
  <2>2. CASE x.operator = "or"
    BY <1>2, <1>3, <1>5, <1>10, <2>2
  <2> QED
    BY <1>1, <2>1, <2>2
<1> QED
  BY <1>8, <1>9, <1>11 DEF y

-----------------------------------------------------------------------------
(* What the mask is, once it is made.                                      *)
WhereInv ==
  /\ clause \in Clauses
  /\ \/ selection = NotYet
     \/ Throws(clause) /\ selection = Thrown
     \/ ~Throws(clause) /\ selection = Selection(clause)

LEMMA WhereInvariant == WhereSpec => []WhereInv
<1>1. WhereInit => WhereInv
  BY DEF WhereInit, WhereInv
<1>2. WhereInv /\ [WhereNext]_whereVars => WhereInv'
  <2> SUFFICES ASSUME WhereInv, [WhereNext]_whereVars PROVE WhereInv'
    OBVIOUS
  <2>1. CASE ProcessWhere
    BY <2>1 DEF ProcessWhere, WhereInv
  <2>2. CASE UNCHANGED whereVars
    BY <2>2 DEF whereVars, WhereInv
  <2> QED
    BY <2>1, <2>2 DEF WhereNext, WhereDone
<1> QED
  BY <1>1, <1>2, PTL DEF WhereSpec

(* Of two filters, one with the opposite tests of the other joined by the  *)
(* other operator, exactly one processes a location where no value tested  *)
(* is missing.  Every clause, every test that has an opposite, any number  *)
(* of items, variables and locations.                                      *)
THEOREM OppositesShare == WhereSpec => []OppositesShareLocations
<1>1. WhereInv => OppositesShareLocations
  <2> SUFFICES ASSUME WhereInv, selection \notin {NotYet, Thrown}, Opposable(clause),
                      ~Throws(Opposite(clause)), NEW l \in Locations(clause), HasAllValues(clause, l)
               PROVE  selection[l] # Selection(Opposite(clause))[l]
    BY DEF OppositesShareLocations
  <2>1. clause \in Clauses /\ ~Throws(clause) /\ selection = Selection(clause)
    BY DEF WhereInv
  <2> QED
    BY <2>1, OppositesDiffer
<1> QED
  BY <1>1, WhereInvariant, PTL

-----------------------------------------------------------------------------
(* The least and the greatest of a set.                                     *)

LEMMA LeastOfIs ==
  ASSUME NEW S, NEW x \in S, S \subseteq Int, \A y \in S : x <= y
  PROVE  LeastOf(S) = x
<1>1. LeastOf(S) \in S /\ \A y \in S : LeastOf(S) <= y
  BY DEF LeastOf
<1>2. x \in Int /\ LeastOf(S) \in Int /\ LeastOf(S) <= x /\ x <= LeastOf(S)
  BY <1>1
<1> QED
  BY <1>2

LEMMA GreatestOfIs ==
  ASSUME NEW S, NEW x \in S, S \subseteq Int, \A y \in S : y <= x
  PROVE  GreatestOf(S) = x
<1>1. GreatestOf(S) \in S /\ \A y \in S : y <= GreatestOf(S)
  BY DEF GreatestOf
<1>2. x \in Int /\ GreatestOf(S) \in Int /\ x <= GreatestOf(S) /\ GreatestOf(S) <= x
  BY <1>1
<1> QED
  BY <1>2

LEMMA LeastOfNat ==
  ASSUME NEW S \in SUBSET Nat, S # {}
  PROVE  LeastOf(S) \in S /\ \A y \in S : LeastOf(S) <= y
BY LeastMember DEF LeastOf

(* The greatest of a bounded set.                                           *)
LEMMA GreatestOfBounded ==
  ASSUME NEW S \in SUBSET Nat, S # {}, NEW b \in Nat, \A y \in S : y <= b
  PROVE  GreatestOf(S) \in S /\ \A y \in S : y <= GreatestOf(S)
<1> DEFINE T == {c \in Nat : \A y \in S : y <= c}
<1>1. T \in SUBSET Nat /\ T # {}
  OBVIOUS
<1> HIDE DEF T
<1>2. PICK c \in T : \A y \in T : c <= y
  BY <1>1, LeastMember
<1>3. c \in Nat /\ \A y \in S : y <= c
  BY <1>2 DEF T
<1>4. c \in S
  <2>1. ASSUME c \notin S PROVE FALSE
    <3>1. \A y \in S : y <= c - 1
      <4>1. SUFFICES ASSUME NEW y \in S PROVE y <= c - 1
        OBVIOUS
      <4>2. y \in Nat /\ y <= c /\ y # c
        BY <2>1, <1>3
      <4> QED
        BY <4>2, <1>3
    <3>2. c - 1 \in Nat
      <4>1. PICK y \in S : TRUE
        OBVIOUS
      <4>2. y \in Nat /\ y <= c - 1
        BY <3>1
      <4> QED
        BY <4>2, <1>3
    <3>3. c - 1 \in T
      BY <3>1, <3>2 DEF T
    <3> QED
      BY <3>3, <1>2, <1>3
  <2> QED
    BY <2>1
<1> QED
  BY <1>3, <1>4 DEF GreatestOf

-----------------------------------------------------------------------------
(* Binary searches in a range of values that do not decrease.               *)

Ascends(vals, a, b) ==
  /\ a \in Nat \ {0} /\ b \in Nat /\ a < b
  /\ \A p \in a .. b - 1 : vals[p] \in Int /\ vals[p] >= MissingKey
  /\ \A p, q \in a .. b - 1 : p <= q => vals[p] <= vals[q]

ValuesIn(vals, a, b) == {vals[p] : p \in a .. b - 1}

LEMMA LowerBoundFound ==
  ASSUME NEW vals, NEW a, NEW b, Ascends(vals, a, b), NEW v \in Int
  PROVE  /\ LowerBound(vals, <<a, b>>, v) \in a .. b
         /\ \A p \in a .. b - 1 : vals[p] >= v <=> LowerBound(vals, <<a, b>>, v) <= p
<1> DEFINE S == {p \in a .. b - 1 : vals[p] >= v} \cup {b}
           l == LeastOf(S)
<1>1. LowerBound(vals, <<a, b>>, v) = l
  BY DEF LowerBound, Positions
<1>2. S \in SUBSET Nat /\ S # {}
  BY DEF Ascends
<1>3. l \in S /\ \A y \in S : l <= y
  <2> HIDE DEF S
  <2> QED
    BY <1>2, LeastOfNat
<1> HIDE DEF l
<1> QED
  BY <1>1, <1>3 DEF Ascends

LEMMA UpperBoundFound ==
  ASSUME NEW vals, NEW a, NEW b, Ascends(vals, a, b), NEW v \in Int
  PROVE  /\ UpperBound(vals, <<a, b>>, v) \in a .. b
         /\ \A p \in a .. b - 1 : vals[p] > v <=> UpperBound(vals, <<a, b>>, v) <= p
<1> DEFINE S == {p \in a .. b - 1 : vals[p] > v} \cup {b}
           l == LeastOf(S)
<1>1. UpperBound(vals, <<a, b>>, v) = l
  BY DEF UpperBound, Positions
<1>2. S \in SUBSET Nat /\ S # {}
  BY DEF Ascends
<1>3. l \in S /\ \A y \in S : l <= y
  <2> HIDE DEF S
  <2> QED
    BY <1>2, LeastOfNat
<1> HIDE DEF l
<1> QED
  BY <1>1, <1>3 DEF Ascends

(* f is the range of the positions where the value is v.                    *)
RangeWith(f, vals, a, b, v) ==
  \E l, u \in Nat : /\ f = <<l, u>> /\ a <= l /\ l < u /\ u <= b
                    /\ \A p \in a .. b - 1 : vals[p] = v <=> p \in l .. u - 1

LEMMA EqualRangeFound ==
  ASSUME NEW vals, NEW a, NEW b, Ascends(vals, a, b), NEW v \in Int
  PROVE  /\ v \in ValuesIn(vals, a, b) <=>
              EqualRange(vals, <<a, b>>, v)[1] # EqualRange(vals, <<a, b>>, v)[2]
         /\ v \in ValuesIn(vals, a, b) =>
              RangeWith(EqualRange(vals, <<a, b>>, v), vals, a, b, v)
<1> DEFINE l == LowerBound(vals, <<a, b>>, v)
           u == UpperBound(vals, <<a, b>>, v)
<1>1. EqualRange(vals, <<a, b>>, v) = <<l, u>>
  BY DEF EqualRange
<1>2. l \in a .. b /\ \A p \in a .. b - 1 : vals[p] >= v <=> l <= p
  BY LowerBoundFound
<1>3. u \in a .. b /\ \A p \in a .. b - 1 : vals[p] > v <=> u <= p
  BY UpperBoundFound
<1>4. a \in Nat /\ b \in Nat /\ a < b /\ \A p \in a .. b - 1 : vals[p] \in Int
  BY DEF Ascends
<1> HIDE DEF l, u
<1>5. \A p \in a .. b - 1 : vals[p] = v <=> p \in l .. u - 1
  BY <1>2, <1>3, <1>4
<1>6. l <= u
  <2>1. ASSUME u < l PROVE FALSE
    <3>1. u \in a .. b - 1
      BY <2>1, <1>2, <1>3, <1>4
    <3>2. vals[u] > v /\ ~(vals[u] >= v)
      BY <3>1, <2>1, <1>2, <1>3
    <3> QED
      BY <3>1, <3>2, <1>4
  <2> QED
    BY <2>1, <1>2, <1>3, <1>4
<1>7. v \in ValuesIn(vals, a, b) <=> l # u
  <2>1. ASSUME l # u PROVE v \in ValuesIn(vals, a, b)
    <3>1. l \in a .. b - 1 /\ l \in l .. u - 1
      BY <2>1, <1>6, <1>2, <1>3, <1>4
    <3> QED
      BY <3>1, <1>5 DEF ValuesIn
  <2>2. ASSUME v \in ValuesIn(vals, a, b) PROVE l # u
    <3>1. PICK p \in a .. b - 1 : vals[p] = v
      BY <2>2 DEF ValuesIn
    <3> QED
      BY <3>1, <1>5, <1>2, <1>3, <1>4
  <2> QED
    BY <2>1, <2>2
<1>8. ASSUME l # u PROVE RangeWith(<<l, u>>, vals, a, b, v)
  <2>1. l \in Nat /\ u \in Nat /\ a <= l /\ l < u /\ u <= b
    BY <1>2, <1>3, <1>4, <1>6, <1>8
  <2> QED
    BY <2>1, <1>5 DEF RangeWith
<1> QED
  BY <1>1, <1>7, <1>8

-----------------------------------------------------------------------------
(* Every method finds the positions of the value it is meant to find.        *)

(* The first and the last position hold the least and the greatest value.   *)
LEMMA ValuesBounded ==
  ASSUME NEW vals, NEW a, NEW b, Ascends(vals, a, b)
  PROVE  LET S == ValuesIn(vals, a, b) IN
         /\ S \subseteq Int /\ NoKey \notin S
         /\ vals[a] \in S /\ vals[b - 1] \in S
         /\ \A y \in S : vals[a] <= y /\ y <= vals[b - 1]
         /\ LeastOf(S) = vals[a] /\ GreatestOf(S) = vals[b - 1]
<1> DEFINE S == ValuesIn(vals, a, b)
<1>1. a \in a .. b - 1 /\ b - 1 \in a .. b - 1
  BY DEF Ascends
<1>2. vals[a] \in S /\ vals[b - 1] \in S
  BY <1>1 DEF ValuesIn
<1>3. S \subseteq Int /\ NoKey \notin S
  BY DEF ValuesIn, Ascends, NoKey, MissingKey
<1>4. \A y \in S : vals[a] <= y /\ y <= vals[b - 1]
  <2>1. SUFFICES ASSUME NEW p \in a .. b - 1 PROVE vals[a] <= vals[p] /\ vals[p] <= vals[b - 1]
    BY DEF ValuesIn
  <2> QED
    BY <1>1 DEF Ascends
<1> HIDE DEF S
<1>5. LeastOf(S) = vals[a]
  BY <1>2, <1>3, <1>4, LeastOfIs
<1>6. GreatestOf(S) = vals[b - 1]
  BY <1>2, <1>3, <1>4, GreatestOfIs
<1> QED
  BY <1>2, <1>3, <1>4, <1>5, <1>6 DEF S

LEMMA OutsideIsOutOfBounds ==
  ASSUME NEW vals, NEW a, NEW b, Ascends(vals, a, b), NEW v \in Int
  PROVE  Outside(ValuesIn(vals, a, b), v) <=> IsOutOfBounds(v, vals, <<a, b>>)
<1>1. /\ ValuesIn(vals, a, b) # {}
      /\ LeastOf(ValuesIn(vals, a, b)) = vals[a] /\ GreatestOf(ValuesIn(vals, a, b)) = vals[b - 1]
  BY ValuesBounded
<1> QED
  BY <1>1 DEF Outside, IsOutOfBounds

(* What a match is meant to find, and does.                                 *)
Finds(f, vals, a, b, key) ==
  \/ f = NoMatch /\ key \notin ValuesIn(vals, a, b)
  \/ key \in ValuesIn(vals, a, b) /\ RangeWith(f, vals, a, b, key)

LEMMA FindsValue ==
  ASSUME NEW vals, NEW a, NEW b, Ascends(vals, a, b), NEW v \in ValuesIn(vals, a, b)
  PROVE  Finds(EqualRange(vals, <<a, b>>, v), vals, a, b, v)
<1>1. v \in Int
  BY ValuesBounded
<1> QED
  BY <1>1, EqualRangeFound DEF Finds

LEMMA ExactMatchFinds ==
  ASSUME NEW vals, NEW a, NEW b, Ascends(vals, a, b), NEW v \in Int, NEW choice
  PROVE  Finds(ExactMatch(vals, v, <<a, b>>), vals, a, b, Wanted("exact", choice, ValuesIn(vals, a, b), v))
<1> DEFINE S == ValuesIn(vals, a, b)
           bounds == EqualRange(vals, <<a, b>>, v)
           others == EqualRange(vals, <<a, b>>, MissingKey)
           found == IF bounds[1] = bounds[2] THEN others ELSE bounds
<1>1. ExactMatch(vals, v, <<a, b>>) = IF found[1] = found[2] THEN NoMatch ELSE found
  BY DEF ExactMatch
<1>2. Wanted("exact", choice, S, v) = IF v \in S THEN v ELSE MissingKey
  BY DEF Wanted
<1>3. MissingKey \in Int
  BY DEF MissingKey
<1>4. /\ v \in S <=> bounds[1] # bounds[2]
      /\ v \in S => RangeWith(bounds, vals, a, b, v)
  BY EqualRangeFound
<1>5. /\ MissingKey \in S <=> others[1] # others[2]
      /\ MissingKey \in S => RangeWith(others, vals, a, b, MissingKey)
  BY <1>3, EqualRangeFound
<1> HIDE DEF bounds, others, S
<1>6. CASE v \in S
  BY <1>1, <1>2, <1>4, <1>6 DEF Finds, S
<1>7. CASE v \notin S /\ MissingKey \in S
  BY <1>1, <1>2, <1>4, <1>5, <1>7 DEF Finds, S
<1>8. CASE v \notin S /\ MissingKey \notin S
  BY <1>1, <1>2, <1>4, <1>5, <1>8 DEF Finds, S
<1> QED
  BY <1>6, <1>7, <1>8

LEMMA LeastUpperBoundMatchFinds ==
  ASSUME NEW vals, NEW a, NEW b, Ascends(vals, a, b), NEW v \in Int, NEW choice
  PROVE  Finds(LeastUpperBoundMatch(vals, v, <<a, b>>), vals, a, b,
               Wanted("lub", choice, ValuesIn(vals, a, b), v))
<1> DEFINE S == ValuesIn(vals, a, b)
           p == LowerBound(vals, <<a, b>>, v)
           above == {x \in S : x >= v}
<1>1. LeastUpperBoundMatch(vals, v, <<a, b>>) =
        IF p = b THEN NoMatch ELSE EqualRange(vals, <<a, b>>, vals[p])
  BY DEF LeastUpperBoundMatch
<1>2. Wanted("lub", choice, S, v) = IF above = {} THEN NoKey ELSE LeastOf(above)
  BY DEF Wanted
<1>3. p \in a .. b /\ \A q \in a .. b - 1 : vals[q] >= v <=> p <= q
  BY LowerBoundFound
<1>4. S \subseteq Int /\ NoKey \notin S
  BY ValuesBounded
<1> HIDE DEF p
<1>5. CASE p = b
  <2>1. above = {}
    <3>1. SUFFICES ASSUME NEW q \in a .. b - 1 PROVE ~(vals[q] >= v)
      BY DEF ValuesIn
    <3> QED
      BY <1>3, <1>5 DEF Ascends
  <2> QED
    BY <1>1, <1>2, <1>4, <1>5, <2>1 DEF Finds
<1>6. CASE p # b
  <2>1. p \in a .. b - 1 /\ vals[p] >= v /\ vals[p] \in S
    BY <1>3, <1>6 DEF Ascends, ValuesIn
  <2>2. ASSUME NEW q \in a .. b - 1, vals[q] >= v PROVE vals[p] <= vals[q]
    BY <1>3, <2>1, <2>2 DEF Ascends
  <2>3. \A y \in above : vals[p] <= y
    BY <2>2 DEF ValuesIn
  <2>4. LeastOf(above) = vals[p]
    <3>1. vals[p] \in above /\ above \subseteq Int
      BY <2>1, <1>4
    <3> HIDE DEF above
    <3> QED
      BY <3>1, <2>3, LeastOfIs
  <2>5. above # {}
    BY <2>1
  <2>6. Finds(EqualRange(vals, <<a, b>>, vals[p]), vals, a, b, vals[p])
    BY <2>1, FindsValue
  <2> QED
    BY <1>1, <1>2, <1>6, <2>4, <2>5, <2>6
<1> QED
  BY <1>5, <1>6

LEMMA GreatestLowerBoundMatchFinds ==
  ASSUME NEW vals, NEW a, NEW b, Ascends(vals, a, b), NEW v \in Int, NEW choice
  PROVE  Finds(GreatestLowerBoundMatch(vals, v, <<a, b>>), vals, a, b,
               Wanted("glb", choice, ValuesIn(vals, a, b), v))
<1> DEFINE S == ValuesIn(vals, a, b)
           notAbove == {p \in a .. b - 1 : vals[p] <= v}
           below == {x \in S : x <= v}
           g == GreatestOf(notAbove)
<1>1. GreatestLowerBoundMatch(vals, v, <<a, b>>) =
        IF notAbove = {} THEN NoMatch ELSE EqualRange(vals, <<a, b>>, vals[g])
  BY DEF GreatestLowerBoundMatch, Positions
<1>2. Wanted("glb", choice, S, v) = IF below = {} THEN NoKey ELSE GreatestOf(below)
  BY DEF Wanted
<1>4. S \subseteq Int /\ NoKey \notin S
  BY ValuesBounded
<1>5. CASE notAbove = {}
  <2>1. below = {}
    BY <1>5 DEF ValuesIn
  <2> QED
    BY <1>1, <1>2, <1>4, <1>5, <2>1 DEF Finds
<1>6. CASE notAbove # {}
  <2>1. notAbove \in SUBSET Nat /\ b \in Nat /\ \A q \in notAbove : q <= b
    BY DEF Ascends
  <2>2. g \in notAbove /\ \A q \in notAbove : q <= g
    <3> HIDE DEF notAbove
    <3> QED
      BY <1>6, <2>1, GreatestOfBounded
  <2> HIDE DEF g
  <2>3. g \in a .. b - 1 /\ vals[g] <= v /\ vals[g] \in S
    BY <2>2 DEF ValuesIn
  <2>4. ASSUME NEW q \in a .. b - 1, vals[q] <= v PROVE vals[q] <= vals[g]
    BY <2>2, <2>3, <2>4 DEF Ascends
  <2>5. \A y \in below : y <= vals[g]
    BY <2>4 DEF ValuesIn
  <2>6. GreatestOf(below) = vals[g]
    <3>1. vals[g] \in below /\ below \subseteq Int
      BY <2>3, <1>4
    <3> HIDE DEF below
    <3> QED
      BY <3>1, <2>5, GreatestOfIs
  <2>7. below # {}
    BY <2>3
  <2>8. Finds(EqualRange(vals, <<a, b>>, vals[g]), vals, a, b, vals[g])
    BY <2>3, FindsValue
  <2> QED
    BY <1>1, <1>2, <1>6, <2>6, <2>7, <2>8
<1> QED
  BY <1>5, <1>6

(* The values on either side of v that are nearest to it.                   *)
LEMMA NearestIs ==
  ASSUME NEW S \in SUBSET Int, NEW v \in Int, NEW l \in S, NEW r \in S, l < v, v < r,
         \A y \in S : y <= l \/ r <= y, NEW choice \in {"first", "last"}
  PROVE  Nearest(choice, S, v) =
           IF v - l < r - v \/ (v - l = r - v /\ choice = "first") THEN l ELSE r
<1> DEFINE closest == {x \in S : \A y \in S : Distance(x, v) <= Distance(y, v)}
<1>1. Nearest(choice, S, v) = IF choice = "first" THEN LeastOf(closest) ELSE GreatestOf(closest)
  BY DEF Nearest
<1>2. /\ l \in Int /\ r \in Int
      /\ Distance(l, v) = v - l /\ Distance(r, v) = r - v
  BY DEF Distance
<1>3. ASSUME NEW y \in S
      PROVE  /\ y \in Int /\ Distance(y, v) \in Nat
             /\ y <= l => v - l <= Distance(y, v) /\ (Distance(y, v) = v - l => y = l)
             /\ r <= y => r - v <= Distance(y, v) /\ (Distance(y, v) = r - v => y = r)
  BY <1>2 DEF Distance
<1>4. closest \subseteq {l, r}
  <2>1. SUFFICES ASSUME NEW y \in closest PROVE y = l \/ y = r
    OBVIOUS
  <2>2. y \in S /\ Distance(y, v) <= v - l /\ Distance(y, v) <= r - v
    BY <1>2
  <2>3. /\ y \in Int /\ Distance(y, v) \in Nat
        /\ y <= l => v - l <= Distance(y, v) /\ (Distance(y, v) = v - l => y = l)
        /\ r <= y => r - v <= Distance(y, v) /\ (Distance(y, v) = r - v => y = r)
    BY <1>3, <2>2
  <2>4. y <= l \/ r <= y
    BY <2>2
  <2> HIDE DEF closest
  <2> QED
    BY <1>2, <2>2, <2>3, <2>4
<1>5. l \in closest <=> v - l <= r - v
  <2>1. ASSUME v - l <= r - v, NEW y \in S PROVE v - l <= Distance(y, v)
    <3>1. /\ y \in Int /\ Distance(y, v) \in Nat
          /\ y <= l => v - l <= Distance(y, v)
          /\ r <= y => r - v <= Distance(y, v)
          /\ y <= l \/ r <= y
      BY <1>3
    <3> HIDE DEF closest
    <3> QED
      BY <1>2, <2>1, <3>1
  <2> QED
    BY <1>2, <2>1
<1>6. r \in closest <=> r - v <= v - l
  <2>1. ASSUME r - v <= v - l, NEW y \in S PROVE r - v <= Distance(y, v)
    <3>1. /\ y \in Int /\ Distance(y, v) \in Nat
          /\ y <= l => v - l <= Distance(y, v)
          /\ r <= y => r - v <= Distance(y, v)
          /\ y <= l \/ r <= y
      BY <1>3
    <3> HIDE DEF closest
    <3> QED
      BY <1>2, <2>1, <3>1
  <2> QED
    BY <1>2, <2>1
<1> HIDE DEF closest
<1>7. closest \subseteq Int /\ l <= r
  BY <1>2, <1>4
<1>8. CASE v - l < r - v
  <2>1. closest = {l}
    <3>1. l \in closest /\ r \notin closest
      BY <1>2, <1>5, <1>6, <1>8
    <3> QED
      BY <1>4, <3>1
  <2>2. LeastOf(closest) = l
    BY <2>1, <1>7, <1>2, LeastOfIs
  <2>3. GreatestOf(closest) = l
    BY <2>1, <1>7, <1>2, GreatestOfIs
  <2> QED
    BY <1>1, <1>8, <2>2, <2>3
<1>9. CASE r - v < v - l
  <2>1. closest = {r}
    <3>1. l \notin closest /\ r \in closest
      BY <1>2, <1>5, <1>6, <1>9
    <3> QED
      BY <1>4, <3>1
  <2>2. LeastOf(closest) = r
    BY <2>1, <1>7, <1>2, LeastOfIs
  <2>3. GreatestOf(closest) = r
    BY <2>1, <1>7, <1>2, GreatestOfIs
  <2> QED
    BY <1>1, <1>2, <1>9, <2>2, <2>3
<1>10. CASE r - v = v - l
  <2>1. closest = {l, r}
    <3>1. l \in closest /\ r \in closest
      BY <1>2, <1>5, <1>6, <1>10
    <3> QED
      BY <1>4, <3>1
  <2>2. LeastOf(closest) = l
    BY <2>1, <1>7, <1>2, LeastOfIs
  <2>3. GreatestOf(closest) = r
    BY <2>1, <1>7, <1>2, GreatestOfIs
  <2> QED
    BY <1>1, <1>2, <1>10, <2>2, <2>3
<1> QED
  BY <1>2, <1>8, <1>9, <1>10

LEMMA NearestToItself ==
  ASSUME NEW S, S \subseteq Int, NEW v \in S, NEW choice
  PROVE  Nearest(choice, S, v) = v
<1> DEFINE closest == {x \in S : \A y \in S : Distance(x, v) <= Distance(y, v)}
<1>1. Nearest(choice, S, v) = IF choice = "first" THEN LeastOf(closest) ELSE GreatestOf(closest)
  BY DEF Nearest
<1>2. v \in Int /\ Distance(v, v) = 0
  BY DEF Distance
<1>3. \A y \in S : y \in Int /\ Distance(y, v) \in Nat /\ (Distance(y, v) <= 0 => y = v)
  BY <1>2 DEF Distance
<1>4. closest = {v}
  <2>1. v \in closest
    BY <1>2, <1>3
  <2>2. ASSUME NEW y \in closest PROVE y = v
    BY <1>2, <1>3
  <2> QED
    BY <2>1, <2>2
<1> HIDE DEF closest
<1>5. LeastOf(closest) = v
  BY <1>2, <1>4, LeastOfIs
<1>6. GreatestOf(closest) = v
  BY <1>2, <1>4, GreatestOfIs
<1> QED
  BY <1>1, <1>5, <1>6

LEMMA NearestMatchFinds ==
  ASSUME NEW vals, NEW a, NEW b, Ascends(vals, a, b), NEW v \in Int, NEW choice \in {"first", "last"}
  PROVE  Finds(NearestMatch(vals, v, choice, <<a, b>>), vals, a, b,
               Wanted("nearest", choice, ValuesIn(vals, a, b), v))
<1> DEFINE S == ValuesIn(vals, a, b)
           p == LowerBound(vals, <<a, b>>, v)
           goesBack == /\ vals[p] > v /\ p > a
                       /\ \/ Distance(vals[p - 1], v) < Distance(vals[p], v)
                          \/ /\ Distance(vals[p - 1], v) = Distance(vals[p], v)
                             /\ choice = "first"
           at == IF goesBack THEN p - 1 ELSE p
<1>1. NearestMatch(vals, v, choice, <<a, b>>) =
        IF IsOutOfBounds(v, vals, <<a, b>>) THEN NoMatch ELSE EqualRange(vals, <<a, b>>, vals[at])
  BY DEF NearestMatch
<1>2. Wanted("nearest", choice, S, v) = IF Outside(S, v) THEN NoKey ELSE Nearest(choice, S, v)
  BY DEF Wanted
<1>3. p \in a .. b /\ \A q \in a .. b - 1 : vals[q] >= v <=> p <= q
  BY LowerBoundFound
<1>4. S \subseteq Int /\ NoKey \notin S
  BY ValuesBounded
<1>5. CASE IsOutOfBounds(v, vals, <<a, b>>)
  <2>1. Outside(S, v)
    BY <1>5, OutsideIsOutOfBounds
  <2> QED
    BY <1>1, <1>2, <1>4, <1>5, <2>1 DEF Finds
<1>6. CASE ~IsOutOfBounds(v, vals, <<a, b>>)
  <2>1. ~Outside(S, v)
    BY <1>6, OutsideIsOutOfBounds
  <2>2. v <= vals[b - 1] /\ vals[a] <= v
    BY <1>6 DEF IsOutOfBounds, Ascends
  <2>3. p \in a .. b - 1 /\ vals[p] >= v /\ vals[p] \in Int /\ vals[p] \in S
    BY <1>3, <2>2 DEF Ascends, ValuesIn
  <2> HIDE DEF p
  <2>4. SUFFICES vals[at] = Nearest(choice, S, v) /\ vals[at] \in S
    <3>1. ASSUME vals[at] = Nearest(choice, S, v), vals[at] \in S
          PROVE  Finds(EqualRange(vals, <<a, b>>, vals[at]), vals, a, b, vals[at])
      <4> HIDE DEF at
      <4> QED
        BY <3>1, FindsValue
    <3> QED
      BY <1>1, <1>2, <1>6, <2>1, <3>1
  <2>5. CASE vals[p] = v
    <3>1. at = p
      BY <2>5
    <3>2. Nearest(choice, S, v) = v
      BY <1>4, <2>3, <2>5, NearestToItself
    <3> QED
      BY <2>3, <2>5, <3>1, <3>2
  <2>6. CASE vals[p] # v
    <3>1. vals[p] > v
      BY <2>3, <2>6
    <3>2. p > a
      BY <2>2, <2>3, <3>1 DEF Ascends
    <3>3. p - 1 \in a .. b - 1 /\ vals[p - 1] \in Int /\ ~(vals[p - 1] >= v) /\ vals[p - 1] \in S
      BY <1>3, <2>3, <3>2 DEF Ascends, ValuesIn
    <3>4. \A y \in S : y <= vals[p - 1] \/ vals[p] <= y
      <4>1. SUFFICES ASSUME NEW q \in a .. b - 1 PROVE vals[q] <= vals[p - 1] \/ vals[p] <= vals[q]
        BY DEF ValuesIn
      <4>2. q <= p - 1 \/ p <= q
        BY <2>3 DEF Ascends
      <4> QED
        BY <4>2, <2>3, <3>3 DEF Ascends
    <3>5. Nearest(choice, S, v) =
            IF \/ v - vals[p - 1] < vals[p] - v
               \/ (v - vals[p - 1] = vals[p] - v /\ choice = "first") THEN vals[p - 1] ELSE vals[p]
      <4> DEFINE l == vals[p - 1]
                 r == vals[p]
      <4>1. l < v /\ v < r /\ l \in S /\ r \in S /\ S \in SUBSET Int
        BY <1>4, <2>3, <3>1, <3>3
      <4>2. \A y \in S : y <= l \/ r <= y
        BY <3>4
      <4> HIDE DEF S, l, r
      <4>3. Nearest(choice, S, v) = IF v - l < r - v \/ (v - l = r - v /\ choice = "first") THEN l ELSE r
        BY <4>1, <4>2, NearestIs
      <4> QED
        BY <4>3 DEF l, r
    <3>6. Distance(vals[p - 1], v) = v - vals[p - 1] /\ Distance(vals[p], v) = vals[p] - v
      BY <3>1, <3>3, <2>3 DEF Distance
    <3> QED
      BY <2>3, <3>1, <3>2, <3>3, <3>5, <3>6
  <2> QED
    BY <2>5, <2>6
<1> QED
  BY <1>5, <1>6

LEMMA MatchFinds ==
  ASSUME NEW vals, NEW a, NEW b, Ascends(vals, a, b), NEW v \in Int, NEW choice \in {"first", "last"},
         NEW method \in Matchings
  PROVE  Finds(Match(method, vals, v, choice, <<a, b>>), vals, a, b,
               Wanted(method, choice, ValuesIn(vals, a, b), v))
<1>1. CASE method = "exact"
  BY <1>1, ExactMatchFinds DEF Match
<1>2. CASE method = "nearest"
  BY <1>2, NearestMatchFinds DEF Match
<1>3. CASE method = "lub"
  BY <1>3, LeastUpperBoundMatchFinds DEF Match
<1>4. CASE method = "glb"
  BY <1>4, GreatestLowerBoundMatchFinds DEF Match
<1> QED
  BY <1>1, <1>2, <1>3, <1>4 DEF Matchings

-----------------------------------------------------------------------------
(* The rows selected by the first values, one value after the other.        *)

Narrows(f, x, q, last) ==
  f = [k \in 0 .. last |-> IF k = 0 THEN AllRows(x) ELSE Narrowed(x, f[k - 1], k, q[k])]

LEMMA NarrowsUnfolds ==
  ASSUME NEW x, NEW q, NEW last, NEW f, Narrows(f, x, q, last)
  PROVE  \A k \in 0 .. last : f[k] = IF k = 0 THEN AllRows(x) ELSE Narrowed(x, f[k - 1], k, q[k])
<1> DEFINE e(k) == IF k = 0 THEN AllRows(x) ELSE Narrowed(x, f[k - 1], k, q[k])
           h == [k \in 0 .. last |-> e(k)]
<1>1. f = h
  BY DEF Narrows
<1>2. \A k \in 0 .. last : h[k] = e(k)
  <2> HIDE DEF e
  <2> QED
    OBVIOUS
<1> HIDE DEF h
<1> QED
  BY <1>1, <1>2

LEMMA NarrowsExists ==
  ASSUME NEW x, NEW q, NEW last \in Nat
  PROVE  \E f : Narrows(f, x, q, last)
<1> DEFINE Bad == {k \in Nat : ~\E f : Narrows(f, x, q, k)}
<1>1. SUFFICES ASSUME Bad # {} PROVE FALSE
  OBVIOUS
<1>2. PICK k \in Bad : \A y \in Bad : k <= y
  <2>1. Bad \in SUBSET Nat
    OBVIOUS
  <2> HIDE DEF Bad
  <2> QED
    BY <1>1, <2>1, LeastMember
<1>3. k \in Nat /\ ~\E f : Narrows(f, x, q, k)
  OBVIOUS
<1>4. k # 0
  <2>1. ASSUME k = 0 PROVE FALSE
    <3> DEFINE f == [i \in 0 .. 0 |-> AllRows(x)]
    <3>1. \A i \in 0 .. 0 : i = 0
      OBVIOUS
    <3>2. [i \in 0 .. 0 |-> AllRows(x)] =
            [i \in 0 .. 0 |-> IF i = 0 THEN AllRows(x) ELSE Narrowed(x, f[i - 1], i, q[i])]
      <4> HIDE DEF f
      <4> QED
        BY <3>1
    <3>3. Narrows(f, x, q, 0)
      BY <3>2 DEF Narrows
    <3> QED
      BY <1>3, <2>1, <3>3
  <2> QED
    BY <2>1
<1>5. k - 1 \in Nat /\ k - 1 \notin Bad
  BY <1>2, <1>3, <1>4
<1>6. PICK f : Narrows(f, x, q, k - 1)
  BY <1>5
<1> HIDE DEF Bad
<1> DEFINE e(i) == IF i = 0 THEN AllRows(x) ELSE Narrowed(x, f[i - 1], i, q[i])
           g    == [i \in 0 .. k |-> e(i)]
<1>7. \A i \in 0 .. k - 1 : f[i] = e(i)
  BY <1>6, NarrowsUnfolds
<1>8. \A i \in 0 .. k : i # 0 => i - 1 \in 0 .. k - 1 /\ i - 1 \in 0 .. k
  BY <1>3
<1>9. \A i \in 0 .. k : g[i] = e(i)
  <2> HIDE DEF e
  <2> QED
    OBVIOUS
<1>10. \A i \in 0 .. k : e(i) = IF i = 0 THEN AllRows(x) ELSE Narrowed(x, g[i - 1], i, q[i])
  <2>1. \A i \in 0 .. k : i # 0 => g[i - 1] = f[i - 1]
    <3> HIDE DEF e, g
    <3> QED
      BY <1>7, <1>8, <1>9
  <2> HIDE DEF g
  <2> QED
    BY <2>1
<1>11. Narrows(g, x, q, k)
  <2> DEFINE r(i) == IF i = 0 THEN AllRows(x) ELSE Narrowed(x, g[i - 1], i, q[i])
  <2>1. \A i \in 0 .. k : e(i) = r(i)
    BY <1>10
  <2>2. [i \in 0 .. k |-> e(i)] = [i \in 0 .. k |-> r(i)]
    <3> HIDE DEF e, r
    <3> QED
      BY <2>1
  <2>3. g = [i \in 0 .. k |-> r(i)]
    BY <2>2
  <2> HIDE DEF g, e
  <2> QED
    BY <2>3 DEF Narrows
<1> QED
  BY <1>3, <1>11

(* Only the values that are used matter.                                    *)
LEMMA NarrowsAlike ==
  ASSUME NEW x, NEW q, NEW r, NEW m \in Nat, NEW l \in Nat, NEW f, NEW g,
         Narrows(f, x, q, m), Narrows(g, x, r, l),
         NEW num \in Nat, num <= m, num <= l, \A i \in 1 .. num : q[i] = r[i]
  PROVE  f[num] = g[num]
<1> DEFINE Bad == {k \in Nat : k <= num /\ f[k] # g[k]}
<1>1. SUFFICES ASSUME Bad # {} PROVE FALSE
  OBVIOUS
<1>2. PICK k \in Bad : \A y \in Bad : k <= y
  <2>1. Bad \in SUBSET Nat
    OBVIOUS
  <2> HIDE DEF Bad
  <2> QED
    BY <1>1, <2>1, LeastMember
<1>3. k \in Nat /\ k <= num /\ f[k] # g[k] /\ k \in 0 .. m /\ k \in 0 .. l
  OBVIOUS
<1>4. /\ f[k] = IF k = 0 THEN AllRows(x) ELSE Narrowed(x, f[k - 1], k, q[k])
      /\ g[k] = IF k = 0 THEN AllRows(x) ELSE Narrowed(x, g[k - 1], k, r[k])
  BY <1>3, NarrowsUnfolds
<1>5. k # 0
  BY <1>3, <1>4
<1>6. k - 1 \in Nat /\ k - 1 \notin Bad /\ k - 1 <= num
  BY <1>2, <1>3, <1>5
<1>7. f[k - 1] = g[k - 1] /\ q[k] = r[k]
  BY <1>3, <1>5, <1>6
<1> HIDE DEF Bad
<1> QED
  BY <1>3, <1>4, <1>5, <1>7

LEMMA SelectedNarrows ==
  ASSUME NEW x, NEW q, NEW k \in Nat
  PROVE  \E f : Narrows(f, x, q, k) /\ Selected(x, q, k) = f[k]
<1> DEFINE f == CHOOSE g : Narrows(g, x, q, k)
<1>1. Narrows(f, x, q, k)
  BY NarrowsExists
<1>2. Selected(x, q, k) = f[k]
  BY DEF Selected, Narrows
<1> QED
  BY <1>1, <1>2

LEMMA SelectedSame ==
  ASSUME NEW x, NEW q, NEW r, NEW k \in Nat, \A i \in 1 .. k : q[i] = r[i]
  PROVE  Selected(x, q, k) = Selected(x, r, k)
<1>1. PICK f : Narrows(f, x, q, k) /\ Selected(x, q, k) = f[k]
  BY SelectedNarrows
<1>2. PICK g : Narrows(g, x, r, k) /\ Selected(x, r, k) = g[k]
  BY SelectedNarrows
<1>3. f[k] = g[k]
  BY <1>1, <1>2, NarrowsAlike
<1> QED
  BY <1>1, <1>2, <1>3

LEMMA SelectedUnfolds ==
  ASSUME NEW x, NEW q
  PROVE  /\ Selected(x, q, 0) = AllRows(x)
         /\ \A k \in Nat : Selected(x, q, k + 1) = Narrowed(x, Selected(x, q, k), k + 1, q[k + 1])
<1>1. Selected(x, q, 0) = AllRows(x)
  <2>1. PICK f : Narrows(f, x, q, 0) /\ Selected(x, q, 0) = f[0]
    BY SelectedNarrows
  <2> QED
    BY <2>1, NarrowsUnfolds
<1>2. ASSUME NEW k \in Nat
      PROVE  Selected(x, q, k + 1) = Narrowed(x, Selected(x, q, k), k + 1, q[k + 1])
  <2>1. PICK f : Narrows(f, x, q, k) /\ Selected(x, q, k) = f[k]
    BY SelectedNarrows
  <2>2. PICK g : Narrows(g, x, q, k + 1) /\ Selected(x, q, k + 1) = g[k + 1]
    BY SelectedNarrows
  <2>3. g[k + 1] = Narrowed(x, g[k], k + 1, q[k + 1])
    <3>1. k + 1 \in 0 .. k + 1 /\ k + 1 # 0 /\ (k + 1) - 1 = k
      OBVIOUS
    <3>2. g[k + 1] = IF k + 1 = 0 THEN AllRows(x) ELSE Narrowed(x, g[(k + 1) - 1], k + 1, q[k + 1])
      BY <2>2, <3>1, NarrowsUnfolds
    <3> QED
      BY <3>1, <3>2
  <2>4. f[k] = g[k]
    BY <2>1, <2>2, NarrowsAlike
  <2> QED
    BY <2>1, <2>2, <2>3, <2>4
<1> QED
  BY <1>1, <1>2

-----------------------------------------------------------------------------
(* Sorting the rows S of a dimension: f says where each row comes, g names   *)
(* its group and K its value.                                              *)

Permutes(f, S) ==
  /\ \A r \in S : f[r] \in S
  /\ \A r, s \in S : f[r] = f[s] => r = s
  /\ \A p \in S : \E r \in S : f[r] = p

(* Other rows come before or after a whole group.                           *)
Contiguous(f, g, S) ==
  \A r, s, t \in S : g[r] = g[s] /\ g[r] # g[t] => (f[r] < f[t] <=> f[s] < f[t])

EarlierRows(S, K, f, g) ==
  {e \in S \X S : IF g[e[1]] = g[e[2]] /\ K[e[1]] # K[e[2]]
                    THEN K[e[1]] < K[e[2]] ELSE f[e[1]] < f[e[2]]}

LEMMA EarlierRowsAre ==
  ASSUME NEW S, NEW K, NEW f, NEW g, NEW r \in S, NEW s \in S
  PROVE  <<r, s>> \in EarlierRows(S, K, f, g) <=>
           IF g[r] = g[s] /\ K[r] # K[s] THEN K[r] < K[s] ELSE f[r] < f[s]
BY DEF EarlierRows

LEMMA EarlierRowsOrder ==
  ASSUME NEW S, S \subseteq Int, NEW f, Permutes(f, S), NEW g, Contiguous(f, g, S),
         NEW K, \A r \in S : K[r] \in Int
  PROVE  Orders(EarlierRows(S, K, f, g), S)
<1> DEFINE R == EarlierRows(S, K, f, g)
           prior(r, s) == IF g[r] = g[s] /\ K[r] # K[s] THEN K[r] < K[s] ELSE f[r] < f[s]
<1>1. \A r, s \in S : <<r, s>> \in R <=> prior(r, s)
  BY DEF EarlierRows
<1>2. \A r \in S : f[r] \in Int /\ K[r] \in Int
  BY DEF Permutes
<1>3. ASSUME NEW r \in S PROVE ~prior(r, r)
  BY <1>2
<1>4. ASSUME NEW r \in S, NEW s \in S PROVE r = s \/ prior(r, s) \/ prior(s, r)
  BY <1>2 DEF Permutes
<1>5. ASSUME NEW r \in S, NEW s \in S, NEW t \in S, prior(r, s), prior(s, t)
      PROVE  prior(r, t)
  <2>1. /\ f[r] \in Int /\ K[r] \in Int /\ f[s] \in Int /\ K[s] \in Int
        /\ f[t] \in Int /\ K[t] \in Int
    BY <1>2
  <2>2. CASE g[r] = g[s] /\ g[s] = g[t]
    BY <1>5, <2>1, <2>2
  <2>3. CASE g[r] = g[s] /\ g[s] # g[t]
    <3>1. f[r] < f[t] <=> f[s] < f[t]
      BY <2>3 DEF Contiguous
    <3> QED
      BY <1>5, <2>1, <2>3, <3>1
  <2>4. CASE g[r] # g[s] /\ g[s] = g[t]
    <3>1. f[s] < f[r] <=> f[t] < f[r]
      BY <2>4 DEF Contiguous
    <3>2. f[r] < f[s] /\ f[t] # f[r]
      BY <1>5, <2>1, <2>4 DEF Permutes
    <3> QED
      BY <2>1, <2>4, <3>1, <3>2
  <2>5. CASE g[r] # g[s] /\ g[s] # g[t] /\ g[r] = g[t]
    <3>1. f[r] < f[s] <=> f[t] < f[s]
      BY <2>5 DEF Contiguous
    <3> QED
      BY <1>5, <2>1, <2>5, <3>1
  <2>6. CASE g[r] # g[s] /\ g[s] # g[t] /\ g[r] # g[t]
    BY <1>5, <2>1, <2>6
  <2> QED
    BY <2>2, <2>3, <2>4, <2>5, <2>6
<1> HIDE DEF prior, R
<1>6. \A r \in S : <<r, r>> \notin R
  BY <1>1, <1>3
<1>7. \A r, s \in S : r = s \/ <<r, s>> \in R \/ <<s, r>> \in R
  BY <1>1, <1>4
<1>8. \A r, s, t \in S : <<r, s>> \in R /\ <<s, t>> \in R => <<r, t>> \in R
  BY <1>1, <1>5
<1> QED
  BY <1>6, <1>7, <1>8 DEF Orders, R

(* One more than the number of rows that come earlier is a permutation, and *)
(* follows the order.                                                      *)
LEMMA RanksPermute ==
  ASSUME NEW num \in Nat, NEW R, Orders(R, 1 .. num),
         NEW h, \A r \in 1 .. num : h[r] = 1 + Cardinality(Below(1 .. num, R, r))
  PROVE  /\ Permutes(h, 1 .. num)
         /\ \A r, s \in 1 .. num : h[r] < h[s] <=> <<r, s>> \in R
<1> DEFINE S == 1 .. num
           c(r) == Cardinality(Below(S, R, r))
<1>1. IsFiniteSet(S) /\ Cardinality(S) = num
  BY FS_Interval
<1>2. OnePerRank(S, R)
  BY <1>1, RanksAreBijective
<1>3. /\ \A r \in S : c(r) \in 0 .. num - 1
      /\ \A r, s \in S : c(r) = c(s) => r = s
      /\ \A k \in 0 .. num - 1 : \E r \in S : c(r) = k
  BY <1>1, <1>2 DEF OnePerRank
<1>4. ASSUME NEW r \in S, NEW s \in S, <<r, s>> \in R PROVE c(r) < c(s)
  BY <1>1, <1>4, BelowGrows
<1> HIDE DEF c
<1>5. \A r \in S : h[r] = 1 + c(r)
  BY DEF c
<1>6. Permutes(h, S)
  <2>1. ASSUME NEW r \in S PROVE h[r] \in S
    <3>1. c(r) \in 0 .. num - 1 /\ h[r] = 1 + c(r)
      BY <1>3, <1>5
    <3> QED
      BY <3>1
  <2>2. \A r, s \in S : h[r] = h[s] => r = s
    BY <1>3, <1>5
  <2>3. ASSUME NEW p \in S PROVE \E r \in S : h[r] = p
    <3>1. p - 1 \in 0 .. num - 1
      OBVIOUS
    <3>2. PICK r \in S : c(r) = p - 1
      BY <3>1, <1>3
    <3> QED
      BY <3>2, <1>5
  <2> QED
    BY <2>1, <2>2, <2>3 DEF Permutes
<1>7. ASSUME NEW r \in S, NEW s \in S PROVE h[r] < h[s] <=> <<r, s>> \in R
  <2>1. c(r) \in Nat /\ c(s) \in Nat /\ h[r] = 1 + c(r) /\ h[s] = 1 + c(s)
    BY <1>3, <1>5
  <2>2. r = s \/ <<r, s>> \in R \/ <<s, r>> \in R
    BY DEF Orders
  <2>3. <<r, r>> \notin R
    BY DEF Orders
  <2>4. CASE <<r, s>> \in R
    BY <1>4, <2>1, <2>4
  <2>5. CASE <<s, r>> \in R
    <3>1. <<r, s>> \notin R
      BY <2>3, <2>5 DEF Orders
    <3>2. c(s) < c(r)
      BY <1>4, <2>5
    <3> QED
      BY <2>1, <3>1, <3>2
  <2>6. CASE r = s
    BY <2>1, <2>3, <2>6
  <2> QED
    BY <2>2, <2>4, <2>5, <2>6
<1> QED
  BY <1>6, <1>7

LEMMA TableFacts ==
  ASSUME NEW x \in TableInputs
  PROVE  /\ LastCoord(x) \in Nat /\ DOMAIN x.schedule = 1 .. LastCoord(x)
         /\ \A d \in Dims(x) : x.size[d] \in Nat \ {0}
         /\ \A i \in 1 .. LastCoord(x) :
              /\ Dim(x, i) \in Dims(x)
              /\ Coord(x, i).isFloat \in BOOLEAN
              /\ x.schedule[i].method \in Matchings \cup Interpolations
              /\ x.schedule[i].choice \in {"first", "last"}
              /\ x.schedule[i].extrapMode \in {"error", "nearest", "missing"}
              /\ \A r \in Rows(x, Dim(x, i)) : KeyOf(x, i, r) \in Int /\ KeyOf(x, i, r) >= MissingKey
              /\ Interpolates(x, i) => x.floatPayload
              /\ x.schedule[i].method = "linear" => i = LastCoord(x)
              /\ x.schedule[i].method = "bilinear" =>
                   /\ i \in {LastCoord(x) - 1, LastCoord(x)} /\ LastCoord(x) > 1
                   /\ x.schedule[LastCoord(x) - 1].method = "bilinear"
                   /\ x.schedule[LastCoord(x)].method = "bilinear"
<1> DEFINE last == LastCoord(x)
<1>1. /\ last \in Nat /\ DOMAIN x.schedule = 1 .. last
      /\ \A d \in Dims(x) : x.size[d] \in Nat \ {0}
  BY ExtractorAssumption DEF LastCoord, Dims
<1>2. ASSUME NEW i \in 1 .. last
      PROVE  /\ Dim(x, i) \in Dims(x)
             /\ Coord(x, i).isFloat \in BOOLEAN
             /\ \A r \in Rows(x, Dim(x, i)) : KeyOf(x, i, r) \in Int /\ KeyOf(x, i, r) >= MissingKey
  <2>1. x.schedule[i].coord \in DOMAIN x.coords
    BY <1>1, ExtractorAssumption
  <2>2. /\ Dim(x, i) \in Dims(x)
        /\ Coord(x, i).isFloat \in BOOLEAN
        /\ Coord(x, i).values \in [Rows(x, Dim(x, i)) -> LookupValues \cup {MissingKey}]
    BY <2>1, ExtractorAssumption DEF Coord, Dim, Dims, Rows
  <2>3. \A v \in LookupValues \cup {MissingKey} : v \in Int /\ v >= MissingKey
    BY ExtractorAssumption DEF MissingKey
  <2> QED
    BY <2>2, <2>3 DEF KeyOf
<1>3. ASSUME NEW i \in 1 .. last
      PROVE  /\ x.schedule[i].method \in Matchings \cup Interpolations
             /\ x.schedule[i].choice \in {"first", "last"}
             /\ x.schedule[i].extrapMode \in {"error", "nearest", "missing"}
             /\ Interpolates(x, i) => x.floatPayload
             /\ x.schedule[i].method = "linear" => i = last
             /\ x.schedule[i].method = "bilinear" =>
                  /\ i \in {last - 1, last} /\ last > 1
                  /\ x.schedule[last - 1].method = "bilinear"
                  /\ x.schedule[last].method = "bilinear"
  BY <1>1, ExtractorAssumption DEF LastCoord, Interpolates, Dim, Coord
<1> QED
  BY <1>1, <1>2, <1>3

-----------------------------------------------------------------------------
(* The first k coordinates sort and group the rows of a dimension.           *)

SameKeys(x, d, k, r, s) == \A i \in 1 .. k : Dim(x, i) = d => KeyOf(x, i, r) = KeyOf(x, i, s)

SameGroup(x, d, k, r, s) ==
  \A i \in 1 .. k : Dim(x, i) = d /\ ~Coord(x, i).isFloat => KeyOf(x, i, r) = KeyOf(x, i, s)

SortedTo(x, d, k, f) ==
  \A r, s \in Rows(x, d) : f[r] < f[s] =>
    \A i \in 1 .. k : Dim(x, i) = d /\ SameKeys(x, d, i - 1, r, s) => KeyOf(x, i, r) <= KeyOf(x, i, s)

RowsGrouped(x, d, k, f, g) ==
  /\ Permutes(f, Rows(x, d)) /\ Contiguous(f, g, Rows(x, d))
  /\ \A r, s \in Rows(x, d) : g[r] = g[s] <=> SameGroup(x, d, k, r, s)
  /\ SortedTo(x, d, k, f)

LEMMA OthersStayGrouped ==
  ASSUME NEW x, NEW k \in Nat, NEW d, d # Dim(x, k + 1), NEW f, NEW g, RowsGrouped(x, d, k, f, g)
  PROVE  RowsGrouped(x, d, k + 1, f, g)
<1>1. \A i \in 1 .. k + 1 : Dim(x, i) = d => i \in 1 .. k
  OBVIOUS
<1>2. \A i \in 1 .. k : i \in 1 .. k + 1
  OBVIOUS
<1>3. \A r, s : SameGroup(x, d, k + 1, r, s) <=> SameGroup(x, d, k, r, s)
  BY <1>1, <1>2 DEF SameGroup
<1>4. SortedTo(x, d, k + 1, f)
  BY <1>1 DEF SortedTo, RowsGrouped
<1> QED
  BY <1>3, <1>4 DEF RowsGrouped

(* The places f2 and the groups g2 that coordinate i, whose values are K,    *)
(* makes of the places f and the groups g.                                 *)
Resorted(x, d, i, K, f, g, f2, g2) ==
  \A r \in Rows(x, d) :
    /\ K[r] = KeyOf(x, i, r)
    /\ f2[r] = 1 + Cardinality(Below(Rows(x, d), EarlierRows(Rows(x, d), K, f, g), r))
    /\ g2[r] = IF Coord(x, i).isFloat THEN g[r] ELSE <<g[r], K[r]>>

LEMMA SortKeepsGrouped ==
  ASSUME NEW x \in TableInputs, RegularTable(x), NEW k \in Nat, k < LastCoord(x),
         NEW d, d = Dim(x, k + 1), NEW f, NEW g, RowsGrouped(x, d, k, f, g),
         NEW K, NEW f2, NEW g2, Resorted(x, d, k + 1, K, f, g, f2, g2)
  PROVE  RowsGrouped(x, d, k + 1, f2, g2)
<1> DEFINE S == Rows(x, d)
           R == EarlierRows(S, K, f, g)
           i == k + 1
<1>0. /\ \A r \in S : K[r] = KeyOf(x, i, r)
      /\ \A r \in S : f2[r] = 1 + Cardinality(Below(S, R, r))
      /\ \A r \in S : g2[r] = IF Coord(x, i).isFloat THEN g[r] ELSE <<g[r], K[r]>>
  BY DEF Resorted
<1>1. /\ i \in 1 .. LastCoord(x) /\ d \in Dims(x)
      /\ x.size[d] \in Nat /\ S = 1 .. x.size[d] /\ S \subseteq Int
      /\ \A r \in S : K[r] \in Int
      /\ Coord(x, i).isFloat \in BOOLEAN
  <2>1. i \in 1 .. LastCoord(x)
    BY TableFacts
  <2> QED
    BY <1>0, <2>1, TableFacts DEF Rows
<1>2. /\ Permutes(f, S) /\ Contiguous(f, g, S)
      /\ \A r, s \in S : g[r] = g[s] <=> SameGroup(x, d, k, r, s)
      /\ SortedTo(x, d, k, f)
  BY DEF RowsGrouped
<1>3. Orders(R, S)
  <2> HIDE DEF S
  <2> QED
    BY <1>1, <1>2, EarlierRowsOrder
<1>4. /\ Permutes(f2, S)
      /\ \A r, s \in S : f2[r] < f2[s] <=> <<r, s>> \in R
  <2> DEFINE num == x.size[d]
  <2>1. /\ num \in Nat /\ Orders(R, 1 .. num)
        /\ \A r \in 1 .. num : f2[r] = 1 + Cardinality(Below(1 .. num, R, r))
    BY <1>0, <1>1, <1>3
  <2> HIDE DEF num, R
  <2>2. /\ Permutes(f2, 1 .. num)
        /\ \A r, s \in 1 .. num : f2[r] < f2[s] <=> <<r, s>> \in R
    BY <2>1, RanksPermute
  <2> QED
    BY <1>1, <2>2 DEF num
<1>5. ASSUME NEW r \in S, NEW s \in S
      PROVE  f2[r] < f2[s] <=>
               IF g[r] = g[s] /\ K[r] # K[s] THEN K[r] < K[s] ELSE f[r] < f[s]
  <2>1. f2[r] < f2[s] <=> <<r, s>> \in R
    BY <1>4
  <2> HIDE DEF S
  <2> QED
    BY <2>1, EarlierRowsAre
<1>6. \A r \in S : f[r] \in Int /\ f2[r] \in Int
  BY <1>1, <1>2, <1>4 DEF Permutes
<1> HIDE DEF R, S
<1>7. ASSUME NEW r \in S, NEW s \in S
      PROVE  g2[r] = g2[s] <=> g[r] = g[s] /\ (Coord(x, i).isFloat \/ K[r] = K[s])
  <2>1. CASE Coord(x, i).isFloat
    <3>1. g2[r] = g[r] /\ g2[s] = g[s]
      BY <1>0, <2>1 DEF S
    <3> QED
      BY <2>1, <3>1
  <2>2. CASE ~Coord(x, i).isFloat
    <3>1. g2[r] = <<g[r], K[r]>> /\ g2[s] = <<g[s], K[s]>>
      BY <1>0, <2>2 DEF S
    <3> QED
      BY <2>2, <3>1
  <2> QED
    BY <2>1, <2>2
<1>8. Contiguous(f2, g2, S)
  <2>1. SUFFICES ASSUME NEW r \in S, NEW s \in S, NEW t \in S, g2[r] = g2[s], g2[r] # g2[t]
                 PROVE  f2[r] < f2[t] <=> f2[s] < f2[t]
    BY DEF Contiguous
  <2>2. /\ g[r] = g[s] /\ (Coord(x, i).isFloat \/ K[r] = K[s])
        /\ ~(g[r] = g[t] /\ (Coord(x, i).isFloat \/ K[r] = K[t]))
    BY <2>1, <1>7
  <2>3. /\ f2[r] < f2[t] <=> IF g[r] = g[t] /\ K[r] # K[t] THEN K[r] < K[t] ELSE f[r] < f[t]
        /\ f2[s] < f2[t] <=> IF g[s] = g[t] /\ K[s] # K[t] THEN K[s] < K[t] ELSE f[s] < f[t]
    BY <1>5
  <2>4. CASE g[r] = g[t]
    BY <2>2, <2>3, <2>4
  <2>5. CASE g[r] # g[t]
    <3>1. f[r] < f[t] <=> f[s] < f[t]
      BY <1>2, <2>2, <2>5 DEF Contiguous
    <3> QED
      BY <2>2, <2>3, <2>5, <3>1
  <2> QED
    BY <2>4, <2>5
<1>9. \A j \in 1 .. i : j \in 1 .. k \/ j = i
  OBVIOUS
<1>10. \A j \in 1 .. k : j \in 1 .. i /\ j \in 1 .. LastCoord(x) /\ j < i
  BY <1>1, TableFacts
<1>11. ASSUME NEW r \in S, NEW s \in S
       PROVE  g2[r] = g2[s] <=> SameGroup(x, d, i, r, s)
  <2>1. SameGroup(x, d, i, r, s) <=>
          SameGroup(x, d, k, r, s) /\ (Coord(x, i).isFloat \/ KeyOf(x, i, r) = KeyOf(x, i, s))
    BY <1>1, <1>9, <1>10 DEF SameGroup
  <2>2. KeyOf(x, i, r) = K[r] /\ KeyOf(x, i, s) = K[s]
    BY <1>0 DEF S
  <2> QED
    BY <1>2, <1>7, <2>1, <2>2
<1>12. ASSUME NEW r \in S, NEW s \in S, f2[r] < f2[s],
              NEW j \in 1 .. i, Dim(x, j) = d, SameKeys(x, d, j - 1, r, s)
       PROVE  KeyOf(x, j, r) <= KeyOf(x, j, s)
  <2>1. IF g[r] = g[s] /\ K[r] # K[s] THEN K[r] < K[s] ELSE f[r] < f[s]
    BY <1>5, <1>12
  <2>2. \A l \in 1 .. i : \A q \in S : Dim(x, l) = d => KeyOf(x, l, q) \in Int
    BY <1>1, <1>10, <1>9, TableFacts DEF S
  <2>3. CASE j # i
    <3>1. j \in 1 .. k
      BY <1>9, <2>3
    <3>2. CASE f[r] < f[s]
      BY <1>2, <1>12, <3>1, <3>2 DEF SortedTo, S
    <3>3. CASE g[r] = g[s]
      <4>1. SameGroup(x, d, k, r, s)
        BY <1>2, <3>3
      <4>2. ~Coord(x, j).isFloat
        <5>1. j \in DOMAIN x.schedule /\ i \in DOMAIN x.schedule /\ j < i
          BY <1>1, <1>10, <3>1, TableFacts
        <5>2. j \in Int /\ i \in Int
          OBVIOUS
        <5> QED
          BY <1>12, <5>1, <5>2 DEF RegularTable
      <4>3. KeyOf(x, j, r) = KeyOf(x, j, s)
        BY <1>12, <3>1, <4>1, <4>2 DEF SameGroup
      <4> QED
        BY <1>12, <2>2, <4>3
    <3> QED
      BY <2>1, <3>2, <3>3
  <2>4. CASE j = i
    <3>1. SameGroup(x, d, k, r, s)
      BY <1>12, <2>4 DEF SameKeys, SameGroup
    <3>2. g[r] = g[s]
      BY <1>2, <3>1
    <3>3. K[r] = KeyOf(x, j, r) /\ K[s] = KeyOf(x, j, s)
      BY <1>0, <2>4 DEF S
    <3>4. K[r] \in Int /\ K[s] \in Int
      BY <1>1
    <3> QED
      BY <2>1, <3>2, <3>3, <3>4
  <2> QED
    BY <2>3, <2>4
<1>13. SortedTo(x, d, i, f2)
  BY <1>12 DEF SortedTo, S
<1> QED
  BY <1>4, <1>8, <1>11, <1>13 DEF RowsGrouped, S

-----------------------------------------------------------------------------
(* at lists the rows of a dimension in the order of the coordinates.         *)
RowsListed(x, d, at) ==
  /\ Permutes(at, Rows(x, d))
  /\ \A p, q \in Rows(x, d) : p < q =>
       \A i \in 1 .. LastCoord(x) : Dim(x, i) = d /\ SameKeys(x, d, i - 1, at[p], at[q]) =>
         KeyOf(x, i, at[p]) <= KeyOf(x, i, at[q])

LEMMA GroupedRowsListed ==
  ASSUME NEW x, NEW d, NEW f, NEW g, RowsGrouped(x, d, LastCoord(x), f, g),
         NEW at, \A p \in Rows(x, d) : at[p] = CHOOSE r \in Rows(x, d) : f[r] = p
  PROVE  RowsListed(x, d, at)
<1> DEFINE S == Rows(x, d)
<1>1. Permutes(f, S) /\ SortedTo(x, d, LastCoord(x), f)
  BY DEF RowsGrouped
<1>2. \A p \in S : at[p] \in S /\ f[at[p]] = p
  BY <1>1 DEF Permutes
<1>3. Permutes(at, S)
  BY <1>1, <1>2 DEF Permutes
<1>4. ASSUME NEW p \in S, NEW q \in S, p < q, NEW i \in 1 .. LastCoord(x), Dim(x, i) = d,
             SameKeys(x, d, i - 1, at[p], at[q])
      PROVE  KeyOf(x, i, at[p]) <= KeyOf(x, i, at[q])
  <2>1. f[at[p]] < f[at[q]] /\ at[p] \in S /\ at[q] \in S
    BY <1>2, <1>4
  <2> QED
    BY <1>1, <1>4, <2>1 DEF SortedTo
<1> QED
  BY <1>3, <1>4 DEF RowsListed

RowsAt(at, a, b) == {at[p] : p \in a .. b - 1}

(* A range of positions holds some rows.                                    *)
RangeHolds(x, d, at, range, rows) ==
  \E a, b \in Nat : /\ range = <<a, b>> /\ 1 <= a /\ a < b /\ b <= x.size[d] + 1
                    /\ rows = RowsAt(at, a, b)

LEMMA RangeAscends ==
  ASSUME NEW x \in TableInputs, NEW i \in 1 .. LastCoord(x), NEW d, d = Dim(x, i),
         NEW at, RowsListed(x, d, at), NEW a \in Nat, NEW b \in Nat,
         1 <= a, a < b, b <= x.size[d] + 1,
         NEW rows, rows = RowsAt(at, a, b),
         \A r, s \in rows : SameKeys(x, d, i - 1, r, s),
         NEW vals, \A p \in Rows(x, d) : vals[p] = KeyOf(x, i, at[p])
  PROVE  /\ Ascends(vals, a, b)
         /\ KeysOf(x, i, rows) = ValuesIn(vals, a, b)
         /\ \A p \in a .. b - 1 : p \in Rows(x, d) /\ at[p] \in rows /\ vals[p] = KeyOf(x, i, at[p])
<1>1. /\ d \in Dims(x) /\ x.size[d] \in Nat
      /\ \A r \in Rows(x, d) : KeyOf(x, i, r) \in Int /\ KeyOf(x, i, r) >= MissingKey
  BY TableFacts
<1>2. \A p \in a .. b - 1 : p \in Rows(x, d)
  BY <1>1 DEF Rows
<1>3. \A p \in a .. b - 1 : at[p] \in rows /\ vals[p] = KeyOf(x, i, at[p]) /\ at[p] \in Rows(x, d)
  BY <1>2 DEF RowsListed, Permutes, RowsAt
<1>4. \A p \in a .. b - 1 : vals[p] \in Int /\ vals[p] >= MissingKey
  BY <1>1, <1>3
<1>5. ASSUME NEW p \in a .. b - 1, NEW q \in a .. b - 1, p <= q PROVE vals[p] <= vals[q]
  <2>1. CASE p = q
    BY <1>4, <2>1
  <2>2. CASE p # q
    <3>1. p < q
      BY <1>5, <2>2
    <3>2. SameKeys(x, d, i - 1, at[p], at[q])
      BY <1>3
    <3>3. KeyOf(x, i, at[p]) <= KeyOf(x, i, at[q])
      BY <1>2, <3>1, <3>2 DEF RowsListed
    <3> QED
      BY <1>3, <3>3
  <2> QED
    BY <2>1, <2>2
<1>6. KeysOf(x, i, rows) = ValuesIn(vals, a, b)
  BY <1>3 DEF KeysOf, ValuesIn, RowsAt
<1> QED
  BY <1>2, <1>3, <1>4, <1>5, <1>6 DEF Ascends

(* Extrapolation as ApplyExtrapolation does it.                             *)
LEMMA ExtrapolationIs ==
  ASSUME NEW vals, NEW a, NEW b, Ascends(vals, a, b), NEW v \in Int, NEW mode
  PROVE  Within(mode, ValuesIn(vals, a, b), v) =
           IF mode = "nearest" /\ IsOutOfBounds(v, vals, <<a, b>>)
             THEN vals[IF v > vals[b - 1] THEN b - 1 ELSE a] ELSE v
<1> DEFINE S == ValuesIn(vals, a, b)
<1>1. /\ S # {} /\ LeastOf(S) = vals[a] /\ GreatestOf(S) = vals[b - 1]
      /\ vals[a] \in Int /\ vals[b - 1] \in Int /\ vals[a] <= vals[b - 1]
  <2>1. /\ S \subseteq Int /\ vals[a] \in S /\ vals[b - 1] \in S
        /\ \A y \in S : vals[a] <= y /\ y <= vals[b - 1]
        /\ LeastOf(S) = vals[a] /\ GreatestOf(S) = vals[b - 1]
    BY ValuesBounded
  <2> HIDE DEF S
  <2> QED
    BY <2>1
<1> HIDE DEF S
<1>2. Within(mode, S, v) =
        IF mode # "nearest" THEN v
        ELSE IF v < vals[a] THEN vals[a] ELSE IF v > vals[b - 1] THEN vals[b - 1] ELSE v
  BY <1>1 DEF Within
<1>3. IsOutOfBounds(v, vals, <<a, b>>) <=> v > vals[b - 1] \/ v < vals[a]
  BY DEF IsOutOfBounds
<1> QED
  BY <1>1, <1>2, <1>3 DEF S

LEMMA WithinIsInt ==
  ASSUME NEW vals, NEW a, NEW b, Ascends(vals, a, b), NEW v \in Int, NEW mode
  PROVE  Within(mode, ValuesIn(vals, a, b), v) \in Int
<1>1. a \in a .. b - 1 /\ b - 1 \in a .. b - 1
  BY DEF Ascends
<1>2. vals[a] \in Int /\ vals[b - 1] \in Int
  BY <1>1 DEF Ascends
<1>3. Within(mode, ValuesIn(vals, a, b), v) =
        IF mode = "nearest" /\ IsOutOfBounds(v, vals, <<a, b>>)
          THEN vals[IF v > vals[b - 1] THEN b - 1 ELSE a] ELSE v
  BY ExtrapolationIs
<1> QED
  BY <1>2, <1>3

-----------------------------------------------------------------------------
(* After the first num values q the ranges hold the rows selected.             *)
Searched(x, at, q, num, ranges) ==
  /\ \A i \in 1 .. num : ~Interpolates(x, i)
  /\ \A d \in Dims(x) :
       /\ RangeHolds(x, d, at[d], ranges[d], Selected(x, q, num)[d])
       /\ \A r, s \in Selected(x, q, num)[d] : SameKeys(x, d, num, r, s)
       /\ (\A i \in 1 .. num : Dim(x, i) # d) => ranges[d] = <<1, x.size[d] + 1>>

LEMMA NothingSearched ==
  ASSUME NEW x \in TableInputs, NEW at, \A d \in Dims(x) : RowsListed(x, d, at[d]), NEW q
  PROVE  Searched(x, at, q, 0, FullRanges(x))
<1>1. Selected(x, q, 0) = AllRows(x)
  BY SelectedUnfolds
<1>2. SUFFICES ASSUME NEW d \in Dims(x)
               PROVE  /\ RangeHolds(x, d, at[d], FullRanges(x)[d], AllRows(x)[d])
                      /\ \A r, s \in AllRows(x)[d] : SameKeys(x, d, 0, r, s)
                      /\ FullRanges(x)[d] = <<1, x.size[d] + 1>>
  BY <1>1 DEF Searched
<1>3. FullRanges(x)[d] = <<1, x.size[d] + 1>> /\ AllRows(x)[d] = Rows(x, d)
  BY DEF FullRanges, AllRows
<1>4. x.size[d] \in Nat \ {0}
  BY TableFacts
<1>5. Rows(x, d) = RowsAt(at[d], 1, x.size[d] + 1)
  <2>1. 1 .. (x.size[d] + 1) - 1 = Rows(x, d)
    BY <1>4 DEF Rows
  <2>2. Permutes(at[d], Rows(x, d))
    BY DEF RowsListed
  <2> DEFINE f == at[d]
             S == Rows(x, d)
  <2>3. /\ \A r \in S : f[r] \in S
        /\ \A p \in S : \E r \in S : f[r] = p
    BY <2>2 DEF Permutes
  <2>4. S = {f[p] : p \in S}
    <3> HIDE DEF S, f
    <3> QED
      BY <2>3
  <2> QED
    BY <2>1, <2>4 DEF RowsAt
<1>6. RangeHolds(x, d, at[d], FullRanges(x)[d], AllRows(x)[d])
  <2>1. 1 \in Nat /\ x.size[d] + 1 \in Nat /\ 1 < x.size[d] + 1
    BY <1>4
  <2> QED
    BY <1>3, <1>5, <2>1 DEF RangeHolds
<1> QED
  BY <1>3, <1>6 DEF SameKeys

LEMMA SelectedDomain ==
  ASSUME NEW x, NEW q, NEW k \in Nat
  PROVE  DOMAIN Selected(x, q, k) = Dims(x)
<1> DEFINE Bad == {j \in Nat : DOMAIN Selected(x, q, j) # Dims(x)}
<1>1. SUFFICES ASSUME Bad # {} PROVE FALSE
  OBVIOUS
<1>2. PICK j \in Bad : \A y \in Bad : j <= y
  <2>1. Bad \in SUBSET Nat
    OBVIOUS
  <2> HIDE DEF Bad
  <2> QED
    BY <1>1, <2>1, LeastMember
<1>3. j \in Nat /\ DOMAIN Selected(x, q, j) # Dims(x)
  OBVIOUS
<1>4. j # 0
  <2>1. DOMAIN AllRows(x) = Dims(x)
    BY DEF AllRows
  <2> QED
    BY <1>3, <2>1, SelectedUnfolds
<1>5. j - 1 \in Nat /\ j - 1 \notin Bad
  BY <1>2, <1>3, <1>4
<1>6. DOMAIN Selected(x, q, j - 1) = Dims(x)
  BY <1>5
<1>7. Selected(x, q, (j - 1) + 1) = Narrowed(x, Selected(x, q, j - 1), (j - 1) + 1, q[(j - 1) + 1])
  BY <1>5, SelectedUnfolds
<1>8. (j - 1) + 1 = j
  BY <1>3
<1>9. DOMAIN Narrowed(x, Selected(x, q, j - 1), j, q[j]) = Dims(x)
  BY <1>6 DEF Narrowed
<1> QED
  BY <1>3, <1>7, <1>8, <1>9

LEMMA SearchedSame ==
  ASSUME NEW x, NEW at, NEW q, NEW r, NEW num \in Nat, NEW ranges, Searched(x, at, q, num, ranges),
         \A i \in 1 .. num : q[i] = r[i]
  PROVE  Searched(x, at, r, num, ranges)
<1>1. Selected(x, q, num) = Selected(x, r, num)
  BY SelectedSame
<1> QED
  BY <1>1 DEF Searched

(* The value that stands for w, if coordinate i is extrapolated from vals.   *)
Extrapolated(x, i, vals, range, w) ==
  IF x.schedule[i].extrapMode = "nearest" /\ IsOutOfBounds(w, vals, range)
    THEN vals[IF w > vals[range[2] - 1] THEN range[2] - 1 ELSE range[1]] ELSE w

(* What a match with coordinate i finds in its range.                        *)
Matched(x, at, q, i, ranges, d, vals, range, v, f) ==
  /\ \A p \in Rows(x, d) : vals[p] = KeyOf(x, i, at[d][p])
  /\ range = ranges[d] /\ v = Extrapolated(x, i, vals, range, q[i])
  /\ f = Match(x.schedule[i].method, vals, v, x.schedule[i].choice, range)

(* A coordinate that is matched leaves the rows with the wanted value.       *)
LEMMA MatchNarrows ==
  ASSUME NEW x \in TableInputs, NEW at, \A d \in Dims(x) : RowsListed(x, d, at[d]),
         NEW q, NEW num \in Nat, num < LastCoord(x), NEW ranges, DOMAIN ranges = Dims(x),
         Searched(x, at, q, num, ranges), ~Interpolates(x, num + 1), q[num + 1] \in Int,
         NEW d, d = Dim(x, num + 1), NEW vals, NEW range, NEW v, NEW f,
         Matched(x, at, q, num + 1, ranges, d, vals, range, v, f)
  PROVE  /\ f = NoMatch => Selected(x, q, num + 1)[d] = {}
         /\ f # NoMatch => Searched(x, at, q, num + 1, [ranges EXCEPT ![d] = f])
<1> USE DEF Matched, Extrapolated
<1> DEFINE i == num + 1
           prior == Selected(x, q, num)
           after == Selected(x, q, i)
           rows == prior[d]
           keys == KeysOf(x, i, rows)
           method == x.schedule[i].method
           choice == x.schedule[i].choice
           key == Wanted(method, choice, keys, Within(x.schedule[i].extrapMode, keys, q[i]))
<1>1. /\ i \in 1 .. LastCoord(x) /\ d \in Dims(x)
      /\ method \in Matchings /\ choice \in {"first", "last"}
  <2>1. i \in 1 .. LastCoord(x)
    BY TableFacts
  <2>2. method \in Matchings \cup Interpolations /\ choice \in {"first", "last"}
    BY <2>1, TableFacts
  <2> QED
    BY <2>1, <2>2, TableFacts DEF Interpolates
<1>2. /\ RangeHolds(x, d, at[d], range, rows)
      /\ \A r, s \in rows : SameKeys(x, d, num, r, s)
  BY <1>1 DEF Searched
<1>3. PICK a \in Nat, b \in Nat : /\ range = <<a, b>> /\ 1 <= a /\ a < b /\ b <= x.size[d] + 1
                                  /\ rows = RowsAt(at[d], a, b)
  BY <1>2 DEF RangeHolds
<1>4. /\ Ascends(vals, a, b) /\ keys = ValuesIn(vals, a, b)
      /\ \A p \in a .. b - 1 : p \in Rows(x, d) /\ at[d][p] \in rows /\ vals[p] = KeyOf(x, i, at[d][p])
  <2>1. i - 1 = num
    OBVIOUS
  <2>2. RowsListed(x, d, at[d])
    BY <1>1
  <2>3. \A r, s \in rows : SameKeys(x, d, i - 1, r, s)
    BY <1>2, <2>1
  <2> DEFINE f0 == at[d]
  <2>4. /\ i \in 1 .. LastCoord(x) /\ d = Dim(x, i)
        /\ \A p \in Rows(x, d) : vals[p] = KeyOf(x, i, f0[p])
        /\ RowsListed(x, d, f0) /\ rows = RowsAt(f0, a, b)
    BY <1>1, <1>3, <2>2
  <2> HIDE DEF i, rows, f0
  <2>5. /\ Ascends(vals, a, b)
        /\ KeysOf(x, i, rows) = ValuesIn(vals, a, b)
        /\ \A p \in a .. b - 1 : p \in Rows(x, d) /\ f0[p] \in rows /\ vals[p] = KeyOf(x, i, f0[p])
    BY <1>3, <2>3, <2>4, RangeAscends
  <2> QED
    BY <2>5 DEF f0, rows
<1>5. Finds(f, vals, a, b, key)
  <2>1. v = Within(x.schedule[i].extrapMode, keys, q[i])
    BY <1>3, <1>4, ExtrapolationIs
  <2>2. v \in Int
    BY <1>4, <2>1, WithinIsInt
  <2>3. f = Match(method, vals, v, choice, <<a, b>>) /\ key = Wanted(method, choice, keys, v)
    BY <1>3, <2>1
  <2> HIDE DEF keys, method, choice, key
  <2>4. Finds(Match(method, vals, v, choice, <<a, b>>), vals, a, b,
              Wanted(method, choice, ValuesIn(vals, a, b), v))
    BY <1>1, <1>4, <2>2, MatchFinds
  <2> QED
    BY <1>4, <2>3, <2>4
<1>6. after = [prior EXCEPT ![d] = {r \in rows : KeyOf(x, i, r) = key}]
  <2>1. after = Narrowed(x, prior, i, q[i])
    BY SelectedUnfolds
  <2> QED
    BY <2>1 DEF Narrowed
<1>7. DOMAIN prior = Dims(x)
  BY SelectedDomain
<1>8. /\ after[d] = {r \in rows : KeyOf(x, i, r) = key}
      /\ \A e \in Dims(x) : e # d => after[e] = prior[e]
  BY <1>1, <1>6, <1>7
<1> HIDE DEF i, prior, after, rows, keys, method, choice, key
<1>9. ASSUME f = NoMatch PROVE after[d] = {}
  <2>1. key \notin ValuesIn(vals, a, b)
    <3>1. ~RangeWith(NoMatch, vals, a, b, key)
      BY <1>3 DEF RangeWith, NoMatch
    <3> QED
      BY <1>5, <1>9, <3>1 DEF Finds
  <2>2. \A r \in rows : KeyOf(x, i, r) \in keys
    BY DEF keys, KeysOf
  <2> QED
    BY <1>4, <1>8, <2>1, <2>2
<1>10. ASSUME f # NoMatch PROVE Searched(x, at, q, i, [ranges EXCEPT ![d] = f])
  <2>1. PICK l \in Nat, u \in Nat : /\ f = <<l, u>> /\ a <= l /\ l < u /\ u <= b
                                    /\ \A p \in a .. b - 1 : vals[p] = key <=> p \in l .. u - 1
    BY <1>5, <1>10 DEF Finds, RangeWith
  <2>2. after[d] = RowsAt(at[d], l, u)
    <3>1. \A p \in l .. u - 1 : p \in a .. b - 1
      BY <2>1
    <3>2. ASSUME NEW r \in after[d] PROVE \E p \in l .. u - 1 : r = at[d][p]
      <4>1. r \in rows /\ KeyOf(x, i, r) = key
        BY <1>8, <3>2
      <4>2. PICK p \in a .. b - 1 : r = at[d][p]
        BY <1>3, <4>1 DEF RowsAt
      <4>3. vals[p] = key
        BY <1>4, <4>1, <4>2
      <4> QED
        BY <2>1, <4>2, <4>3
    <3>3. ASSUME NEW p \in l .. u - 1 PROVE at[d][p] \in after[d]
      <4>1. p \in a .. b - 1 /\ vals[p] = key
        BY <2>1, <3>1
      <4>2. at[d][p] \in rows /\ KeyOf(x, i, at[d][p]) = key
        BY <1>4, <4>1
      <4> QED
        BY <1>8, <4>2
    <3> QED
      BY <3>2, <3>3 DEF RowsAt
  <2> DEFINE new == [ranges EXCEPT ![d] = f]
  <2>3. new[d] = f /\ \A e \in Dims(x) : e # d => new[e] = ranges[e]
    BY <1>1
  <2> HIDE DEF new
  <2>4. RangeHolds(x, d, at[d], new[d], after[d])
    <3>1. 1 <= l /\ u <= x.size[d] + 1
      <4>1. x.size[d] \in Nat
        BY <1>1, TableFacts
      <4> QED
        BY <1>3, <2>1, <4>1
    <3> QED
      BY <2>1, <2>2, <2>3, <3>1 DEF RangeHolds
  <2>5. \A j \in 1 .. i : j \in 1 .. num \/ j = i
    BY DEF i
  <2>6. \A j \in 1 .. num : j \in 1 .. i
    BY DEF i
  <2>7. \A r, s \in after[d] : SameKeys(x, d, i, r, s)
    <3>1. SUFFICES ASSUME NEW r \in after[d], NEW s \in after[d], NEW j \in 1 .. i, Dim(x, j) = d
                   PROVE  KeyOf(x, j, r) = KeyOf(x, j, s)
      BY DEF SameKeys
    <3>2. r \in rows /\ s \in rows /\ KeyOf(x, i, r) = key /\ KeyOf(x, i, s) = key
      BY <1>8
    <3>3. CASE j = i
      BY <3>2, <3>3
    <3>4. CASE j \in 1 .. num
      BY <1>2, <3>1, <3>2, <3>4 DEF SameKeys
    <3> QED
      BY <2>5, <3>3, <3>4
  <2>8. ASSUME NEW e \in Dims(x), e # d
        PROVE  /\ RangeHolds(x, e, at[e], new[e], after[e])
               /\ \A r, s \in after[e] : SameKeys(x, e, i, r, s)
               /\ (\A j \in 1 .. i : Dim(x, j) # e) => new[e] = <<1, x.size[e] + 1>>
    <3>1. after[e] = prior[e] /\ new[e] = ranges[e]
      BY <1>8, <2>3, <2>8
    <3>2. /\ RangeHolds(x, e, at[e], ranges[e], prior[e])
          /\ \A r, s \in prior[e] : SameKeys(x, e, num, r, s)
          /\ (\A j \in 1 .. num : Dim(x, j) # e) => ranges[e] = <<1, x.size[e] + 1>>
      BY DEF Searched, prior
    <3>3. Dim(x, i) = d
      BY DEF i
    <3>4. ASSUME NEW r \in after[e], NEW s \in after[e] PROVE SameKeys(x, e, i, r, s)
      <4>1. SameKeys(x, e, num, r, s)
        BY <3>1, <3>2
      <4> QED
        BY <2>5, <2>8, <3>3, <4>1 DEF SameKeys
    <3>5. (\A j \in 1 .. i : Dim(x, j) # e) => \A j \in 1 .. num : Dim(x, j) # e
      BY <2>6
    <3> QED
      BY <3>1, <3>2, <3>4, <3>5
  <2>9. \A j \in 1 .. i : ~Interpolates(x, j)
    BY <2>5 DEF Searched, i
  <2>10. i \in 1 .. i /\ Dim(x, i) = d
    BY DEF i
  <2>11. ASSUME NEW e \in Dims(x)
         PROVE  /\ RangeHolds(x, e, at[e], new[e], Selected(x, q, i)[e])
                /\ \A r, s \in Selected(x, q, i)[e] : SameKeys(x, e, i, r, s)
                /\ (\A j \in 1 .. i : Dim(x, j) # e) => new[e] = <<1, x.size[e] + 1>>
    <3>1. CASE e = d
      BY <2>4, <2>7, <2>10, <3>1 DEF after
    <3>2. CASE e # d
      BY <2>8, <3>2 DEF after
    <3> QED
      BY <3>1, <3>2
  <2> QED
    BY <2>9, <2>11 DEF Searched, new
<1> QED
  BY <1>9, <1>10 DEF i, after

-----------------------------------------------------------------------------
(* Once the remaining coordinates are interpolated.                          *)

LEMMA OneRow ==
  ASSUME NEW x \in TableInputs, NEW d \in Dims(x), NEW at, RowsListed(x, d, at),
         NEW range, NEW rows, RangeHolds(x, d, at, range, rows)
  PROVE  /\ rows # {} /\ rows \subseteq Rows(x, d)
         /\ range[2] - range[1] = 1 <=> Cardinality(rows) = 1
         /\ range[2] - range[1] = 1 => rows = {at[range[1]]}
         /\ at[range[1]] \in rows
<1>1. PICK a \in Nat, b \in Nat : /\ range = <<a, b>> /\ 1 <= a /\ a < b /\ b <= x.size[d] + 1
                                  /\ rows = RowsAt(at, a, b)
  BY DEF RangeHolds
<1>2. x.size[d] \in Nat
  BY TableFacts
<1>3. \A p \in a .. b - 1 : p \in Rows(x, d)
  BY <1>1, <1>2 DEF Rows
<1>4. Permutes(at, Rows(x, d))
  BY DEF RowsListed
<1>5. rows \subseteq Rows(x, d)
  BY <1>1, <1>3, <1>4 DEF RowsAt, Permutes
<1>6. a \in a .. b - 1 /\ at[a] \in rows /\ range[1] = a /\ range[2] = b
  BY <1>1 DEF RowsAt
<1>7. ASSUME b - a = 1 PROVE rows = {at[a]}
  <2>1. \A p \in a .. b - 1 : p = a
    BY <1>7
  <2> QED
    BY <1>1, <1>6, <2>1 DEF RowsAt
<1>8. ASSUME Cardinality(rows) = 1 PROVE b - a = 1
  <2>1. IsFiniteSet(rows)
    <3>1. IsFiniteSet(Rows(x, d))
      BY <1>2, FS_Interval DEF Rows
    <3> QED
      BY <3>1, <1>5, FS_Subset
  <2>2. PICK r : rows = {r}
    BY <1>8, <2>1, FS_Singleton
  <2>3. ASSUME b - a # 1 PROVE FALSE
    <3>1. a + 1 \in a .. b - 1
      BY <1>1, <2>3
    <3>2. at[a + 1] \in rows
      BY <1>1, <3>1 DEF RowsAt
    <3>3. at[a + 1] = at[a]
      BY <1>6, <2>2, <3>2
    <3>4. a \in Rows(x, d) /\ a + 1 \in Rows(x, d) /\ a # a + 1
      BY <1>3, <1>6, <3>1
    <3> QED
      BY <1>4, <3>3, <3>4 DEF Permutes
  <2> QED
    BY <2>3
<1>9. Cardinality({at[a]}) = 1
  BY FS_Singleton
<1> QED
  BY <1>5, <1>6, <1>7, <1>8, <1>9

(* All coordinates after the first num are interpolated, and q has all values. *)
LastInterpolated(x, at, q, num, ranges) ==
  /\ q \in Seq(Int) /\ Len(q) = LastCoord(x) /\ num <= LastCoord(x)
  /\ \A d \in Dims(x) : RowsListed(x, d, at[d])
  /\ Searched(x, at, q, num, ranges)
  /\ \A i \in num + 1 .. LastCoord(x) : Interpolates(x, i)

Interpolated(x, num) == {Dim(x, i) : i \in num + 1 .. LastCoord(x)}

LEMMA InterpolationSelects ==
  ASSUME NEW x \in TableInputs, NEW at, NEW q, NEW num \in Nat, NEW ranges,
         LastInterpolated(x, at, q, num, ranges)
  PROVE  Selected(x, q, LastCoord(x)) = Selected(x, q, num)
<1> DEFINE last == LastCoord(x)
           Bad == {k \in Nat : num + k <= last /\ Selected(x, q, num + k) # Selected(x, q, num)}
<1>1. last \in Nat /\ num <= last
  BY TableFacts DEF LastInterpolated
<1>2. Bad = {}
  <2>1. SUFFICES ASSUME Bad # {} PROVE FALSE
    OBVIOUS
  <2>2. PICK k \in Bad : \A y \in Bad : k <= y
    <3>1. Bad \in SUBSET Nat
      OBVIOUS
    <3> HIDE DEF Bad
    <3> QED
      BY <2>1, <3>1, LeastMember
  <2>3. k \in Nat /\ num + k <= last /\ Selected(x, q, num + k) # Selected(x, q, num)
    OBVIOUS
  <2>4. k # 0
    BY <2>3
  <2>5. k - 1 \in Nat /\ k - 1 \notin Bad /\ num + (k - 1) <= last
    BY <1>1, <2>2, <2>3, <2>4
  <2>6. Selected(x, q, num + (k - 1)) = Selected(x, q, num)
    BY <2>5
  <2> DEFINE m == num + (k - 1)
  <2>7. m \in Nat /\ m + 1 = num + k /\ m + 1 \in num + 1 .. last
    BY <1>1, <2>3, <2>5
  <2> HIDE DEF m
  <2>8. Selected(x, q, m + 1) = Narrowed(x, Selected(x, q, m), m + 1, q[m + 1])
    BY <2>7, SelectedUnfolds
  <2>9. Interpolates(x, m + 1)
    BY <2>7 DEF LastInterpolated
  <2>10. Selected(x, q, m + 1) = Selected(x, q, m)
    BY <2>8, <2>9 DEF Narrowed
  <2> QED
    BY <2>3, <2>6, <2>7, <2>10 DEF m
<1>3. last - num \in Nat /\ num + (last - num) = last
  BY <1>1
<1>4. last - num \notin Bad
  BY <1>2
<1> QED
  BY <1>1, <1>3, <1>4

(* The values are in bounds, and the ranges of the other dimensions of one. *)
CanInterpolate(x, q, num, ranges) ==
  /\ \A i \in num + 1 .. LastCoord(x) :
       LET S == KeysOf(x, i, Selected(x, q, num)[Dim(x, i)])
       IN ~Outside(S, Within(x.schedule[i].extrapMode, S, q[i]))
  /\ \A d \in Dims(x) \ Interpolated(x, num) : ranges[d][2] - ranges[d][1] = 1

LEMMA AnswerableIs ==
  ASSUME NEW x \in TableInputs, NEW at, NEW q, NEW num \in Nat, NEW ranges,
         LastInterpolated(x, at, q, num, ranges)
  PROVE  Answerable(x, q) <=> CanInterpolate(x, q, num, ranges)
<1> DEFINE last == LastCoord(x)
           rows == Selected(x, q, num)
           In(i) == ~Outside(KeysOf(x, i, rows[Dim(x, i)]),
                            Within(x.schedule[i].extrapMode, KeysOf(x, i, rows[Dim(x, i)]), q[i]))
<1>1. /\ last \in Nat /\ num <= last /\ DOMAIN q = 1 .. last /\ Len(q) = last
      /\ Selected(x, q, last) = rows
  <2>1. Selected(x, q, last) = rows
    BY InterpolationSelects
  <2>2. last \in Nat /\ num <= last /\ q \in Seq(Int) /\ Len(q) = last
    BY TableFacts DEF LastInterpolated
  <2> QED
    BY <2>1, <2>2
<1>2. \A i \in 1 .. last : Interpolates(x, i) <=> i \in num + 1 .. last
  <2>1. \A i \in 1 .. last : i \in 1 .. num \/ i \in num + 1 .. last
    BY <1>1
  <2>2. \A i \in 1 .. num : i \notin num + 1 .. last
    BY <1>1
  <2> QED
    BY <2>1, <2>2 DEF LastInterpolated, Searched
<1>3. \A i \in num + 1 .. last : i \in 1 .. last
  BY <1>1
<1>4. ASSUME NEW d \in Dims(x)
      PROVE  /\ rows[d] # {}
             /\ ranges[d][2] - ranges[d][1] = 1 <=> Cardinality(rows[d]) = 1
  BY OneRow DEF LastInterpolated, Searched
<1>5. {Dim(x, i) : i \in {k \in DOMAIN q : Interpolates(x, k)}} = Interpolated(x, num)
  BY <1>1, <1>2, <1>3 DEF Interpolated
<1>6. Answerable(x, q) <=>
        /\ \A d \in Dims(x) : rows[d] # {}
        /\ \A i \in 1 .. last : Interpolates(x, i) => In(i)
        /\ \A d \in Dims(x) \ Interpolated(x, num) : Cardinality(rows[d]) = 1
  <2> HIDE DEF rows
  <2> QED
    BY <1>1, <1>5 DEF Answerable
<1> HIDE DEF rows, In, last
<1>7. (\A i \in 1 .. last : Interpolates(x, i) => In(i)) <=> \A i \in num + 1 .. last : In(i)
  BY <1>2, <1>3
<1> QED
  BY <1>4, <1>6, <1>7 DEF In, rows, last, CanInterpolate

(* Cells whose coordinates are those around the values.                      *)
LEMMA BracketCellsAre ==
  ASSUME NEW x \in TableInputs, NEW at, NEW q, NEW num \in Nat, NEW ranges,
         LastInterpolated(x, at, q, num, ranges)
  PROVE  /\ \A c : c \in BracketCells(x, q) <=>
              /\ c = [d \in Dims(x) |-> c[d]]
              /\ \A d \in Dims(x) : c[d] \in Selected(x, q, num)[d]
              /\ \A i \in num + 1 .. LastCoord(x) :
                   KeyOf(x, i, c[Dim(x, i)]) \in Brackets(x, i, Selected(x, q, num)[Dim(x, i)], q[i])
         /\ \A c : c \in NeighbourCells(x, q) <=>
              /\ c = [d \in Dims(x) |-> c[d]]
              /\ \A d \in Dims(x) : c[d] \in Selected(x, q, num)[d]
              /\ \A i \in num + 1 .. LastCoord(x) :
                   KeyOf(x, i, c[Dim(x, i)]) \in Neighbours(x, i, Selected(x, q, num)[Dim(x, i)], q[i])
<1> DEFINE last == LastCoord(x)
           rows == Selected(x, q, num)
<1>1. /\ last \in Nat /\ num <= last /\ DOMAIN q = 1 .. last /\ Len(q) = last
      /\ Selected(x, q, last) = rows
  <2>1. Selected(x, q, last) = rows
    BY InterpolationSelects
  <2>2. last \in Nat /\ num <= last /\ q \in Seq(Int) /\ Len(q) = last
    BY TableFacts DEF LastInterpolated
  <2> QED
    BY <2>1, <2>2
<1>2. \A i \in 1 .. last : Interpolates(x, i) <=> i \in num + 1 .. last
  <2>1. \A i \in 1 .. last : i \in 1 .. num \/ i \in num + 1 .. last
    BY <1>1
  <2>2. \A i \in 1 .. num : i \notin num + 1 .. last
    BY <1>1
  <2> QED
    BY <2>1, <2>2 DEF LastInterpolated, Searched
<1>3. \A i \in num + 1 .. last : i \in 1 .. last
  BY <1>1
<1> DEFINE Near(c, i) == KeyOf(x, i, c[Dim(x, i)]) \in Brackets(x, i, rows[Dim(x, i)], q[i])
           Next2(c, i) == KeyOf(x, i, c[Dim(x, i)]) \in Neighbours(x, i, rows[Dim(x, i)], q[i])
<1>4. \A c : c \in SelectedCells(x, q) <=>
        c = [d \in Dims(x) |-> c[d]] /\ \A d \in Dims(x) : c[d] \in rows[d]
  <2> HIDE DEF rows
  <2>1. SelectedCells(x, q) =
          {c \in [Dims(x) -> UNION {rows[d] : d \in Dims(x)}] : \A d \in Dims(x) : c[d] \in rows[d]}
    BY <1>1 DEF SelectedCells
  <2>2. ASSUME NEW c, c = [d \in Dims(x) |-> c[d]], \A d \in Dims(x) : c[d] \in rows[d]
        PROVE  c \in [Dims(x) -> UNION {rows[d] : d \in Dims(x)}]
    <3>1. \A d \in Dims(x) : c[d] \in UNION {rows[e] : e \in Dims(x)}
      BY <2>2
    <3> QED
      BY <2>2, <3>1
  <2>3. ASSUME NEW c \in [Dims(x) -> UNION {rows[d] : d \in Dims(x)}]
        PROVE  c = [d \in Dims(x) |-> c[d]]
    OBVIOUS
  <2> QED
    BY <2>1, <2>2, <2>3
<1>5. \A c : c \in BracketCells(x, q) <=>
        c \in SelectedCells(x, q) /\ \A i \in 1 .. last : Interpolates(x, i) => Near(c, i)
  <2> HIDE DEF rows
  <2> QED
    BY <1>1 DEF BracketCells
<1>6. \A c : c \in NeighbourCells(x, q) <=>
        c \in SelectedCells(x, q) /\ \A i \in 1 .. last : Interpolates(x, i) => Next2(c, i)
  <2> HIDE DEF rows
  <2> QED
    BY <1>1 DEF NeighbourCells
<1> HIDE DEF Near, Next2, rows, last
<1>7. \A c : (\A i \in 1 .. last : Interpolates(x, i) => Near(c, i)) <=> \A i \in num + 1 .. last : Near(c, i)
  BY <1>2, <1>3
<1>8. \A c : (\A i \in 1 .. last : Interpolates(x, i) => Next2(c, i)) <=> \A i \in num + 1 .. last : Next2(c, i)
  BY <1>2, <1>3
<1> QED
  BY <1>4, <1>5, <1>6, <1>7, <1>8 DEF Near, Next2, rows, last

-----------------------------------------------------------------------------
(* The values that an interpolation lies between.                            *)

Around(S, v) == {GreatestOf({y \in S : y <= v}), LeastOf({y \in S : y >= v})}

LEMMA BracketsAre ==
  ASSUME NEW vals, NEW a, NEW b, Ascends(vals, a, b), NEW v \in Int,
         ~IsOutOfBounds(v, vals, <<a, b>>),
         NEW p, p = LowerBound(vals, <<a, b>>, v)
  PROVE  /\ p \in a .. b - 1 /\ vals[p] \in Int /\ vals[p] >= v
         /\ \A t \in a .. b - 1 : vals[t] >= v <=> p <= t
         /\ vals[p] = v => Around(ValuesIn(vals, a, b), v) = {v}
         /\ vals[p] # v => /\ p - 1 \in a .. b - 1 /\ vals[p - 1] \in Int /\ vals[p - 1] < v
                           /\ Around(ValuesIn(vals, a, b), v) = {vals[p - 1], vals[p]}
<1> DEFINE S == ValuesIn(vals, a, b)
           below == {y \in S : y <= v}
           above == {y \in S : y >= v}
<1>1. p \in a .. b /\ \A t \in a .. b - 1 : vals[t] >= v <=> p <= t
  BY LowerBoundFound
<1>2. v <= vals[b - 1] /\ vals[a] <= v
  BY DEF IsOutOfBounds, Ascends
<1>3. p \in a .. b - 1 /\ vals[p] >= v /\ vals[p] \in Int /\ vals[p] \in S
  BY <1>1, <1>2 DEF Ascends, ValuesIn
<1>4. S \subseteq Int
  BY ValuesBounded
<1>5. LeastOf(above) = vals[p]
  <2>1. ASSUME NEW t \in a .. b - 1, vals[t] >= v PROVE vals[p] <= vals[t]
    BY <1>1, <1>3, <2>1 DEF Ascends
  <2>2. \A y \in above : vals[p] <= y
    BY <2>1 DEF ValuesIn
  <2>3. vals[p] \in above /\ above \subseteq Int
    BY <1>3, <1>4
  <2> HIDE DEF above
  <2> QED
    BY <2>2, <2>3, LeastOfIs
<1>6. ASSUME vals[p] = v PROVE Around(S, v) = {v}
  <2>1. v \in below /\ below \subseteq Int /\ \A y \in below : y <= v
    BY <1>3, <1>4, <1>6
  <2>2. GreatestOf(below) = v
    <3> HIDE DEF below
    <3> QED
      BY <2>1, GreatestOfIs
  <2> HIDE DEF below, above
  <2>3. Around(S, v) = {GreatestOf(below), LeastOf(above)}
    BY DEF Around, below, above
  <2> QED
    BY <1>5, <1>6, <2>2, <2>3
<1>7. ASSUME vals[p] # v
      PROVE  /\ p - 1 \in a .. b - 1 /\ vals[p - 1] \in Int /\ vals[p - 1] < v
             /\ Around(S, v) = {vals[p - 1], vals[p]}
  <2>1. vals[p] > v
    BY <1>3, <1>7
  <2>2. p > a
    BY <1>2, <1>3, <2>1 DEF Ascends
  <2>3. p - 1 \in a .. b - 1 /\ vals[p - 1] \in Int /\ ~(vals[p - 1] >= v) /\ vals[p - 1] \in S
    BY <1>1, <1>3, <2>2 DEF Ascends, ValuesIn
  <2>4. ASSUME NEW t \in a .. b - 1, vals[t] <= v PROVE vals[t] <= vals[p - 1]
    <3>1. vals[t] \in Int
      BY DEF Ascends
    <3>2. t < p
      <4>1. CASE vals[t] >= v
        <5>1. p <= t
          BY <1>1, <4>1
        <5>2. vals[p] <= vals[t]
          BY <1>3, <5>1 DEF Ascends
        <5> QED
          BY <1>3, <2>1, <2>4, <3>1, <5>2
      <4>2. CASE ~(vals[t] >= v)
        BY <1>1, <1>3, <4>2
      <4> QED
        BY <4>1, <4>2
    <3>3. t <= p - 1
      BY <1>3, <3>2
    <3> QED
      BY <2>3, <3>3 DEF Ascends
  <2>5. \A y \in below : y <= vals[p - 1]
    BY <2>4 DEF ValuesIn
  <2>6. vals[p - 1] \in below /\ below \subseteq Int
    BY <1>4, <2>3
  <2>7. GreatestOf(below) = vals[p - 1]
    <3> HIDE DEF below
    <3> QED
      BY <2>5, <2>6, GreatestOfIs
  <2> HIDE DEF below, above
  <2>8. Around(S, v) = {GreatestOf(below), LeastOf(above)}
    BY DEF Around, below, above
  <2> QED
    BY <1>5, <2>3, <2>7, <2>8
<1> QED
  BY <1>1, <1>3, <1>6, <1>7

-----------------------------------------------------------------------------
(* Cells at given positions, and at the first of the ranges elsewhere.       *)
CellOf(x, at, ranges, pos) ==
  [d \in Dims(x) |-> at[d][IF d \in DOMAIN pos THEN pos[d] ELSE ranges[d][1]]]

LEMMA CellSelected ==
  ASSUME NEW x \in TableInputs, NEW at, NEW q, NEW num \in Nat, NEW ranges,
         LastInterpolated(x, at, q, num, ranges),
         NEW pos, DOMAIN pos = Interpolated(x, num),
         \A d \in Interpolated(x, num) : at[d][pos[d]] \in Selected(x, q, num)[d],
         NEW c, c = CellOf(x, at, ranges, pos)
  PROVE  /\ c = [d \in Dims(x) |-> c[d]]
         /\ \A d \in Dims(x) : c[d] \in Selected(x, q, num)[d]
         /\ \A d \in Interpolated(x, num) : d \in Dims(x) /\ c[d] = at[d][pos[d]]
<1>1. \A d \in Dims(x) : c[d] = at[d][IF d \in DOMAIN pos THEN pos[d] ELSE ranges[d][1]]
  BY DEF CellOf
<1>2. c = [d \in Dims(x) |-> c[d]]
  BY DEF CellOf
<1>3. ASSUME NEW d \in Dims(x) PROVE c[d] \in Selected(x, q, num)[d]
  <2>1. at[d][ranges[d][1]] \in Selected(x, q, num)[d]
    BY OneRow DEF LastInterpolated, Searched
  <2> QED
    BY <1>1, <2>1
<1>4. \A d \in Interpolated(x, num) : d \in Dims(x)
  <2>1. \A i \in num + 1 .. LastCoord(x) : i \in 1 .. LastCoord(x)
    BY TableFacts
  <2> QED
    BY <2>1, TableFacts DEF Interpolated
<1> QED
  BY <1>1, <1>2, <1>3, <1>4

(* The values of the rows are in order, and w is extrapolated to v.          *)
ValuesInOrder(x, i, f, range, vals, v, w, rows) ==
  /\ v \in Int /\ Dim(x, i) \in Dims(x)
  /\ Within(x.schedule[i].extrapMode, KeysOf(x, i, rows), w) = v
  /\ Brackets(x, i, rows, w) = Around(KeysOf(x, i, rows), v)
  /\ Outside(KeysOf(x, i, rows), v) <=> IsOutOfBounds(v, vals, range)
  /\ \E a, b \in Nat :
       /\ range = <<a, b>> /\ 1 <= a /\ a < b /\ b <= x.size[Dim(x, i)] + 1
       /\ rows = RowsAt(f, a, b)
       /\ Ascends(vals, a, b) /\ KeysOf(x, i, rows) = ValuesIn(vals, a, b)
       /\ \A p \in a .. b - 1 : p \in Rows(x, Dim(x, i)) /\ f[p] \in rows /\ vals[p] = KeyOf(x, i, f[p])

LEMMA InterpolatedValues ==
  ASSUME NEW x \in TableInputs, NEW at, NEW q, NEW num \in Nat, NEW ranges,
         LastInterpolated(x, at, q, num, ranges),
         NEW i \in num + 1 .. LastCoord(x), \A j \in num + 1 .. i - 1 : Dim(x, j) # Dim(x, i),
         NEW d, d = Dim(x, i), NEW range, range = ranges[d],
         NEW vals, \A p \in Rows(x, d) : vals[p] = KeyOf(x, i, at[d][p]),
         NEW v, v = Extrapolated(x, i, vals, range, q[i]),
         NEW rows, rows = Selected(x, q, num)[d]
  PROVE  ValuesInOrder(x, i, at[d], range, vals, v, q[i], rows)
<1>1. i \in 1 .. LastCoord(x) /\ i \in Nat /\ d \in Dims(x)
  <2>1. i \in 1 .. LastCoord(x)
    BY TableFacts
  <2> QED
    BY <2>1, TableFacts
<1>2. q[i] \in Int
  <2>1. q \in Seq(Int) /\ Len(q) = LastCoord(x)
    BY DEF LastInterpolated
  <2> QED
    BY <1>1, <2>1
<1>3. /\ RangeHolds(x, d, at[d], range, rows) /\ RowsListed(x, d, at[d])
      /\ \A r, s \in rows : SameKeys(x, d, num, r, s)
  BY <1>1 DEF LastInterpolated, Searched
<1>4. PICK a \in Nat, b \in Nat : /\ range = <<a, b>> /\ 1 <= a /\ a < b /\ b <= x.size[d] + 1
                                  /\ rows = RowsAt(at[d], a, b)
  BY <1>3 DEF RangeHolds
<1>5. \A r, s \in rows : SameKeys(x, d, i - 1, r, s)
  <2>1. \A j \in 1 .. i - 1 : j \in 1 .. num \/ j \in num + 1 .. i - 1
    BY <1>1
  <2> QED
    BY <1>3, <2>1 DEF SameKeys
<1>6. /\ Ascends(vals, a, b) /\ KeysOf(x, i, rows) = ValuesIn(vals, a, b)
      /\ \A p \in a .. b - 1 : p \in Rows(x, d) /\ at[d][p] \in rows /\ vals[p] = KeyOf(x, i, at[d][p])
  <2> DEFINE f == at[d]
  <2>1. /\ RowsListed(x, d, f) /\ rows = RowsAt(f, a, b)
        /\ \A p \in Rows(x, d) : vals[p] = KeyOf(x, i, f[p])
    BY <1>3, <1>4
  <2> HIDE DEF f
  <2>2. /\ Ascends(vals, a, b) /\ KeysOf(x, i, rows) = ValuesIn(vals, a, b)
        /\ \A p \in a .. b - 1 : p \in Rows(x, d) /\ f[p] \in rows /\ vals[p] = KeyOf(x, i, f[p])
    BY <1>1, <1>4, <1>5, <2>1, RangeAscends
  <2> QED
    BY <2>2 DEF f
<1>7. Within(x.schedule[i].extrapMode, KeysOf(x, i, rows), q[i]) = v
  BY <1>2, <1>4, <1>6, ExtrapolationIs DEF Extrapolated
<1>8. v \in Int
  BY <1>2, <1>6, <1>7, WithinIsInt
<1>9. Brackets(x, i, rows, q[i]) = Around(KeysOf(x, i, rows), v)
  BY <1>7 DEF Brackets, Point, Around
<1>10. Outside(KeysOf(x, i, rows), v) <=> IsOutOfBounds(v, vals, range)
  BY <1>4, <1>6, <1>8, OutsideIsOutOfBounds
<1> QED
  BY <1>1, <1>4, <1>6, <1>7, <1>8, <1>9, <1>10 DEF ValuesInOrder

-----------------------------------------------------------------------------
(* Linear interpolation.                                                     *)

AllUnique(ranges, dims) == \A d \in dims : ranges[d][2] - ranges[d][1] = 1

(* Coordinate i takes v for its value among the values vals of its range.     *)
Taken(x, at, q, i, ranges, d, range, vals, v) ==
  /\ d = Dim(x, i) /\ range = ranges[d]
  /\ \A p \in Rows(x, d) : vals[p] = KeyOf(x, i, at[d][p])
  /\ v = Extrapolated(x, i, vals, range, q[i])

(* The cells that a linear interpolation to v is of.                         *)
LineOf(x, at, ranges, d, vals, v, p) ==
  IF vals[p] = v THEN {CellOf(x, at, ranges, [e \in {d} |-> p])}
  ELSE {CellOf(x, at, ranges, [e \in {d} |-> p - 1]), CellOf(x, at, ranges, [e \in {d} |-> p])}

LEMMA LinearAnswers ==
  ASSUME NEW x \in TableInputs, NEW at, NEW q, NEW num \in Nat, NEW ranges,
         LastInterpolated(x, at, q, num, ranges), NEW i, i = num + 1, i = LastCoord(x),
         NEW d, NEW range, NEW vals, NEW v, Taken(x, at, q, i, ranges, d, range, vals, v),
         NEW p, p = LowerBound(vals, range, v)
  PROVE  LET stops == ~AllUnique(ranges, Dims(x) \ {d}) \/ IsOutOfBounds(v, vals, range)
         IN /\ stops => ~Answerable(x, q)
            /\ ~stops => Answers(x, q, LineOf(x, at, ranges, d, vals, v, p))
<1> USE DEF Taken
<1> DEFINE rows == Selected(x, q, num)[d]
           keys == KeysOf(x, i, rows)
<1>1. \A j : j \in num + 1 .. LastCoord(x) <=> j = i
  OBVIOUS
<1>2. Interpolated(x, num) = {d}
  BY <1>1 DEF Interpolated
<1>3. ValuesInOrder(x, i, at[d], range, vals, v, q[i], rows)
  <2>1. i \in num + 1 .. LastCoord(x) /\ \A j \in num + 1 .. i - 1 : Dim(x, j) # Dim(x, i)
    OBVIOUS
  <2> HIDE DEF rows
  <2> QED
    BY <2>1, InterpolatedValues DEF rows
<1>4. Answerable(x, q) <=> ~IsOutOfBounds(v, vals, range) /\ AllUnique(ranges, Dims(x) \ {d})
  <2>1. Answerable(x, q) <=> CanInterpolate(x, q, num, ranges)
    BY AnswerableIs
  <2> QED
    BY <1>1, <1>2, <1>3, <2>1 DEF AllUnique, CanInterpolate, ValuesInOrder
<1>5. SUFFICES ASSUME AllUnique(ranges, Dims(x) \ {d}), ~IsOutOfBounds(v, vals, range)
               PROVE  Answers(x, q, LineOf(x, at, ranges, d, vals, v, p))
  BY <1>4
<1>6. PICK a \in Nat, b \in Nat :
        /\ range = <<a, b>>
        /\ Ascends(vals, a, b) /\ keys = ValuesIn(vals, a, b)
        /\ \A t \in a .. b - 1 : at[d][t] \in rows /\ vals[t] = KeyOf(x, i, at[d][t])
  BY <1>3 DEF ValuesInOrder
<1>7. /\ p \in a .. b - 1
      /\ vals[p] = v => Around(keys, v) = {v}
      /\ vals[p] # v => p - 1 \in a .. b - 1 /\ Around(keys, v) = {vals[p - 1], vals[p]}
  <2>1. v \in Int /\ ~IsOutOfBounds(v, vals, <<a, b>>) /\ p = LowerBound(vals, <<a, b>>, v)
    BY <1>3, <1>5, <1>6 DEF ValuesInOrder
  <2> QED
    BY <1>6, <2>1, BracketsAre
<1>8. ASSUME NEW t \in a .. b - 1, vals[t] \in Around(keys, v)
      PROVE  CellOf(x, at, ranges, [e \in {d} |-> t]) \in BracketCells(x, q)
  <2> DEFINE pos == [e \in {d} |-> t]
             c == CellOf(x, at, ranges, pos)
  <2>1. DOMAIN pos = {d} /\ pos[d] = t
    OBVIOUS
  <2> HIDE DEF pos, c
  <2>2. /\ c = [e \in Dims(x) |-> c[e]]
        /\ \A e \in Dims(x) : c[e] \in Selected(x, q, num)[e]
        /\ \A e \in Interpolated(x, num) : e \in Dims(x) /\ c[e] = at[e][pos[e]]
    <3>1. DOMAIN pos = Interpolated(x, num)
      BY <1>2, <2>1
    <3>2. \A e \in Interpolated(x, num) : at[e][pos[e]] \in Selected(x, q, num)[e]
      BY <1>2, <1>6, <2>1
    <3> QED
      BY <3>1, <3>2, CellSelected DEF c
  <2>3. c[d] = at[d][t]
    BY <1>2, <2>1, <2>2
  <2>4. KeyOf(x, i, c[Dim(x, i)]) \in Brackets(x, i, Selected(x, q, num)[Dim(x, i)], q[i])
    BY <1>3, <1>6, <1>8, <2>3 DEF ValuesInOrder
  <2>5. \A j \in num + 1 .. LastCoord(x) :
          KeyOf(x, j, c[Dim(x, j)]) \in Brackets(x, j, Selected(x, q, num)[Dim(x, j)], q[j])
    BY <1>1, <2>4
  <2>6. c \in BracketCells(x, q)
    BY <2>2, <2>5, BracketCellsAre
  <2> QED
    BY <2>6 DEF c, pos
<1>9. Answerable(x, q)
  BY <1>4, <1>5
<1>10. CASE vals[p] = v
  <2>1. CellOf(x, at, ranges, [e \in {d} |-> p]) \in BracketCells(x, q)
    BY <1>7, <1>8, <1>10
  <2> QED
    BY <1>9, <1>10, <2>1 DEF Answers, LineOf
<1>11. CASE vals[p] # v
  <2>1. CellOf(x, at, ranges, [e \in {d} |-> p]) \in BracketCells(x, q)
    BY <1>7, <1>8, <1>11
  <2>2. CellOf(x, at, ranges, [e \in {d} |-> p - 1]) \in BracketCells(x, q)
    BY <1>7, <1>8, <1>11
  <2> QED
    BY <1>9, <1>11, <2>1, <2>2 DEF Answers, LineOf
<1> QED
  BY <1>10, <1>11

-----------------------------------------------------------------------------
(* Bilinear interpolation: the two positions it looks at in each dimension.  *)

NextTo(S, v) == {y \in S : \A z \in S : ~(y < z /\ z < v) /\ ~(v < z /\ z < y)}

Straddles(vals, b, v, p, p1) ==
  LET S == ValuesIn(vals, 1, b) IN
  /\ p1 \in Nat /\ 1 <= p1 /\ p1 + 1 \in 1 .. b - 1 /\ p1 \in 1 .. b - 1
  /\ p \in {p1, p1 + 1} /\ vals[p] \in Around(S, v)
  /\ vals[p1] # vals[p1 + 1]
  /\ \A t \in {p1, p1 + 1} :
       /\ vals[t] \in Int /\ vals[t] \in NextTo(S, v)
       /\ vals[t] \in Around(S, v) <=> vals[p1 + p1 + 1 - t] # v
       /\ vals[t] \notin Around(S, v) => vals[p] = v /\ vals[t] # v
  /\ \A t \in 1 .. b - 1 : vals[t] \in Around(S, v) => t \in {p1, p1 + 1}

LEMMA PositionsStraddle ==
  ASSUME NEW vals, NEW b, Ascends(vals, 1, b), 2 < b, NEW v \in Int,
         \A t, u \in 1 .. b - 1 : vals[t] = vals[u] => t = u,
         ~IsOutOfBounds(v, vals, <<1, b>>),
         NEW p, p = LowerBound(vals, <<1, b>>, v),
         NEW p1, p1 = IF p > 1 THEN p - 1 ELSE p
  PROVE  Straddles(vals, b, v, p, p1)
<1> DEFINE S == ValuesIn(vals, 1, b)
           A == Around(S, v)
<1>1. /\ p \in 1 .. b - 1 /\ vals[p] \in Int /\ vals[p] >= v
      /\ \A t \in 1 .. b - 1 : vals[t] >= v <=> p <= t
      /\ vals[p] = v => A = {v}
      /\ vals[p] # v => /\ p - 1 \in 1 .. b - 1 /\ vals[p - 1] \in Int /\ vals[p - 1] < v
                        /\ A = {vals[p - 1], vals[p]}
  BY BracketsAre
<1> HIDE DEF A
<1>2. /\ b \in Nat
      /\ \A t \in 1 .. b - 1 : vals[t] \in Int
      /\ \A t, u \in 1 .. b - 1 : t <= u => vals[t] <= vals[u]
  BY DEF Ascends
<1>3. /\ p1 \in Nat /\ 1 <= p1 /\ p1 + 1 \in 1 .. b - 1 /\ p1 \in 1 .. b - 1
      /\ p \in {p1, p1 + 1} /\ p \in Nat
      /\ p = 1 => p1 = p
      /\ p # 1 => p1 = p - 1
  BY <1>1, <1>2
<1>4. vals[p] \in A
  BY <1>1
<1>5. vals[p1] # vals[p1 + 1] /\ vals[p1] \in Int /\ vals[p1 + 1] \in Int
  <2>1. p1 # p1 + 1
    BY <1>3
  <2> QED
    BY <1>2, <1>3, <2>1
<1>6. p # 1 => vals[p1] < v
  BY <1>1, <1>2, <1>3
<1>7. p = 1 => vals[p] = v
  BY <1>1
<1>8. ASSUME NEW t \in {p1, p1 + 1}, NEW u \in 1 .. b - 1
      PROVE  ~(vals[t] < vals[u] /\ vals[u] < v) /\ ~(v < vals[u] /\ vals[u] < vals[t])
  <2>1. t \in 1 .. b - 1 /\ vals[t] \in Int /\ vals[u] \in Int /\ t \in Nat /\ u \in Nat
    BY <1>2, <1>3, <1>8
  <2>2. t <= u => vals[t] <= vals[u]
    BY <1>2, <2>1
  <2>3. u <= t => vals[u] <= vals[t]
    BY <1>2, <2>1
  <2>4. vals[u] >= v <=> p <= u
    BY <1>1
  <2>5. p <= u => vals[p] <= vals[u]
    BY <1>1, <1>2, <1>3
  <2>6. CASE t = p
    <3>1. ~(vals[t] < vals[u] /\ vals[u] < v)
      BY <1>1, <2>1, <2>6
    <3>2. ~(v < vals[u] /\ vals[u] < vals[t])
      BY <1>1, <2>1, <2>4, <2>5, <2>6
    <3> QED
      BY <3>1, <3>2
  <2>7. CASE t # p /\ p # 1
    <3>1. t = p - 1 /\ vals[t] < v
      BY <1>3, <1>6, <1>8, <2>7
    <3>2. ~(v < vals[u] /\ vals[u] < vals[t])
      BY <2>1, <3>1
    <3>3. ASSUME vals[t] < vals[u], vals[u] < v PROVE FALSE
      <4>1. ~(p <= u)
        BY <2>1, <2>4, <3>3
      <4>2. u <= t
        BY <1>3, <2>1, <3>1, <4>1
      <4> QED
        BY <2>1, <2>3, <3>3, <4>2
    <3> QED
      BY <3>2, <3>3
  <2>8. CASE t # p /\ p = 1
    <3>1. t = 2 /\ vals[1] = v
      BY <1>3, <1>7, <1>8, <2>8
    <3>2. vals[1] <= vals[u]
      BY <1>3, <2>1, <2>5, <2>8
    <3>3. ASSUME v < vals[u], vals[u] < vals[t] PROVE FALSE
      <4>1. u # 1
        BY <2>1, <3>1, <3>3
      <4>2. t <= u
        BY <2>1, <3>1, <4>1
      <4> QED
        BY <2>1, <2>2, <3>3, <4>2
    <3> QED
      BY <2>1, <3>1, <3>2, <3>3
  <2> QED
    BY <2>6, <2>7, <2>8
<1>9. ASSUME NEW t \in {p1, p1 + 1} PROVE vals[t] \in Int /\ vals[t] \in NextTo(S, v)
  <2>1. t \in 1 .. b - 1
    BY <1>3
  <2>2. vals[t] \in S
    BY <2>1 DEF ValuesIn
  <2>3. \A z \in S : ~(vals[t] < z /\ z < v) /\ ~(v < z /\ z < vals[t])
    BY <1>8 DEF ValuesIn
  <2> QED
    BY <1>2, <2>1, <2>2, <2>3 DEF NextTo
<1>10. ASSUME NEW t \in {p1, p1 + 1}
       PROVE  /\ vals[t] \in A <=> vals[p1 + p1 + 1 - t] # v
              /\ vals[t] \notin A => vals[p] = v /\ vals[t] # v
  <2> DEFINE o == p1 + p1 + 1 - t
  <2>1. o \in {p1, p1 + 1} /\ o # t /\ o \in 1 .. b - 1 /\ t \in 1 .. b - 1
    BY <1>3
  <2> HIDE DEF o
  <2>2. CASE vals[p] = v
    <3>1. A = {v} /\ (vals[t] = v <=> t = p) /\ (vals[o] = v <=> o = p)
      BY <1>1, <2>1, <2>2
    <3>2. t = p <=> o # p
      BY <1>3, <2>1
    <3> QED
      BY <2>2, <3>1, <3>2 DEF o
  <2>3. CASE vals[p] # v
    <3>1. p # 1 /\ A = {vals[p - 1], vals[p]} /\ vals[p - 1] # v
      BY <1>1, <1>7, <2>3
    <3>2. p1 = p - 1 /\ p1 + 1 = p
      BY <1>3, <3>1
    <3>3. vals[t] \in A
      BY <3>1, <3>2
    <3>4. vals[o] # v
      BY <2>1, <2>3, <3>1, <3>2
    <3> QED
      BY <3>3, <3>4 DEF o
  <2> QED
    BY <2>2, <2>3
<1>11. ASSUME NEW t \in 1 .. b - 1, vals[t] \in A PROVE t \in {p1, p1 + 1}
  <2>1. CASE vals[p] = v
    <3>1. vals[t] = vals[p]
      BY <1>1, <1>11, <2>1
    <3> QED
      BY <1>1, <1>3, <3>1
  <2>2. CASE vals[p] # v
    <3>1. p # 1 /\ (vals[t] = vals[p - 1] \/ vals[t] = vals[p]) /\ p - 1 \in 1 .. b - 1
      BY <1>1, <1>7, <1>11, <2>2
    <3>2. t = p - 1 \/ t = p
      BY <1>1, <3>1
    <3> QED
      BY <1>3, <3>1, <3>2
  <2> QED
    BY <2>1, <2>2
<1> QED
  BY <1>3, <1>4, <1>5, <1>9, <1>10, <1>11 DEF Straddles, A

-----------------------------------------------------------------------------
(* The four corners.                                                         *)

Corner(x, at, ranges, d, e, c) ==
  CellOf(x, at, ranges, [f \in {d, e} |-> IF f = d THEN c[1] ELSE c[2]])

LEMMA SquareGrows ==
  ASSUME NEW k \in Int
  PROVE  k * k \in Int /\ k * k >= 0 /\ (k # 0 => k * k > 0)
OBVIOUS

(* What is known of two coordinates, each in a dimension of its own.         *)
TwoInterpolated(x, at, q, num, ranges, d, e, xs, ys, v, w, s, t, s1, t1) ==
  /\ LastInterpolated(x, at, q, num, ranges) /\ num + 2 = LastCoord(x)
  /\ d = Dim(x, num + 1) /\ e = Dim(x, num + 2) /\ d # e
  /\ AllUnique(ranges, Dims(x) \ {d, e})
  /\ ValuesInOrder(x, num + 1, at[d], ranges[d], xs, v, q[num + 1], Selected(x, q, num)[d])
  /\ ValuesInOrder(x, num + 2, at[e], ranges[e], ys, w, q[num + 2], Selected(x, q, num)[e])
  /\ ranges[d] = <<1, x.size[d] + 1>> /\ ranges[e] = <<1, x.size[e] + 1>>
  /\ Straddles(xs, x.size[d] + 1, v, s, s1) /\ Straddles(ys, x.size[e] + 1, w, t, t1)

(* The two positions of a coordinate, and the values there.                  *)
OnAxis(x, i, f, vals, v, w, rows, p, p1) ==
  /\ v \in Int
  /\ \A u \in {p1, p1 + 1} : /\ f[u] \in rows /\ KeyOf(x, i, f[u]) = vals[u] /\ vals[u] \in Int
                             /\ KeyOf(x, i, f[u]) \in Neighbours(x, i, rows, w)
                             /\ KeyOf(x, i, f[u]) \in Brackets(x, i, rows, w)
                                  <=> vals[p1 + p1 + 1 - u] # v
                             /\ KeyOf(x, i, f[u]) \notin Brackets(x, i, rows, w) =>
                                  vals[p] = v /\ vals[u] # v
  /\ KeyOf(x, i, f[p]) \in Brackets(x, i, rows, w) /\ p \in {p1, p1 + 1}
  /\ \A r \in rows : KeyOf(x, i, r) \in Brackets(x, i, rows, w) =>
       \E u \in {p1, p1 + 1} : r = f[u]

LEMMA OneCoordinate ==
  ASSUME NEW x, NEW i, NEW f, NEW b, NEW vals, NEW v, NEW w, NEW rows, NEW p, NEW p1,
         ValuesInOrder(x, i, f, <<1, b>>, vals, v, w, rows), Straddles(vals, b, v, p, p1)
  PROVE  OnAxis(x, i, f, vals, v, w, rows, p, p1)
<1> DEFINE S == KeysOf(x, i, rows)
           A == Around(S, v)
<1>1. /\ v \in Int
      /\ Within(x.schedule[i].extrapMode, S, w) = v
      /\ Brackets(x, i, rows, w) = A
      /\ \E a, c \in Nat :
           /\ <<1, b>> = <<a, c>>
           /\ rows = RowsAt(f, a, c) /\ S = ValuesIn(vals, a, c)
           /\ \A u \in a .. c - 1 : f[u] \in rows /\ vals[u] = KeyOf(x, i, f[u])
  BY DEF ValuesInOrder
<1>2. /\ rows = RowsAt(f, 1, b) /\ S = ValuesIn(vals, 1, b)
      /\ \A u \in 1 .. b - 1 : f[u] \in rows /\ vals[u] = KeyOf(x, i, f[u])
  BY <1>1
<1>3. Neighbours(x, i, rows, w) = NextTo(S, v)
  BY <1>1 DEF Neighbours, Point, NextTo
<1> HIDE DEF S, A
<1>4. /\ p1 \in Nat /\ p1 + 1 \in 1 .. b - 1 /\ p1 \in 1 .. b - 1
      /\ p \in {p1, p1 + 1} /\ vals[p] \in A
      /\ \A u \in {p1, p1 + 1} :
           /\ vals[u] \in Int /\ vals[u] \in NextTo(S, v)
           /\ vals[u] \in A <=> vals[p1 + p1 + 1 - u] # v
           /\ vals[u] \notin A => vals[p] = v /\ vals[u] # v
      /\ \A u \in 1 .. b - 1 : vals[u] \in A => u \in {p1, p1 + 1}
  BY <1>2 DEF Straddles, A
<1>5. \A u \in {p1, p1 + 1} : u \in 1 .. b - 1 /\ f[u] \in rows /\ KeyOf(x, i, f[u]) = vals[u]
  BY <1>2, <1>4
<1>6. ASSUME NEW r \in rows, KeyOf(x, i, r) \in A PROVE \E u \in {p1, p1 + 1} : r = f[u]
  <2>1. PICK u \in 1 .. b - 1 : r = f[u]
    BY <1>2 DEF RowsAt
  <2> QED
    BY <1>2, <1>4, <1>6, <2>1
<1> QED
  BY <1>1, <1>3, <1>4, <1>5, <1>6 DEF OnAxis

LEMMA CornersAre ==
  ASSUME NEW x \in TableInputs, NEW at, NEW q, NEW num \in Nat, NEW ranges, NEW d, NEW e,
         NEW xs, NEW ys, NEW v, NEW w, NEW s, NEW t, NEW s1, NEW t1,
         TwoInterpolated(x, at, q, num, ranges, d, e, xs, ys, v, w, s, t, s1, t1)
  PROVE  LET corners == {s1, s1 + 1} \X {t1, t1 + 1}
             cell(c) == Corner(x, at, ranges, d, e, c)
         IN /\ \A c \in corners :
                 /\ cell(c) \in NeighbourCells(x, q)
                 /\ cell(c) \in BracketCells(x, q) <=>
                      xs[s1 + s1 + 1 - c[1]] # v /\ ys[t1 + t1 + 1 - c[2]] # w
                 /\ cell(c) \notin BracketCells(x, q) =>
                      \E b \in corners :
                        /\ cell(b) \in BracketCells(x, q)
                        /\ (v - xs[b[1]]) * (v - xs[b[1]]) + (w - ys[b[2]]) * (w - ys[b[2]]) <
                             (v - xs[c[1]]) * (v - xs[c[1]]) + (w - ys[c[2]]) * (w - ys[c[2]])
            /\ \A c \in BracketCells(x, q) : \E b \in corners : c = cell(b)
            /\ <<s, t>> \in corners /\ cell(<<s, t>>) \in BracketCells(x, q)
<1> DEFINE corners == {s1, s1 + 1} \X {t1, t1 + 1}
           cell(c) == Corner(x, at, ranges, d, e, c)
           i == num + 1
           j == num + 2
           rows == Selected(x, q, num)
           NearX(r) == KeyOf(x, i, r) \in Brackets(x, i, rows[d], q[i])
           NearY(r) == KeyOf(x, j, r) \in Brackets(x, j, rows[e], q[j])
<1>1. /\ LastInterpolated(x, at, q, num, ranges) /\ j = LastCoord(x)
      /\ d = Dim(x, i) /\ e = Dim(x, j) /\ d # e
      /\ AllUnique(ranges, Dims(x) \ {d, e})
      /\ d \in Dims(x) /\ e \in Dims(x)
  BY DEF TwoInterpolated, ValuesInOrder
<1>2. \A k : k \in num + 1 .. LastCoord(x) <=> k \in {i, j}
  BY <1>1
<1>3. Interpolated(x, num) = {d, e}
  BY <1>1, <1>2 DEF Interpolated
<1>4. /\ v \in Int /\ s \in {s1, s1 + 1} /\ NearX(at[d][s])
      /\ \A u \in {s1, s1 + 1} :
           /\ at[d][u] \in rows[d] /\ KeyOf(x, i, at[d][u]) = xs[u] /\ xs[u] \in Int
           /\ KeyOf(x, i, at[d][u]) \in Neighbours(x, i, rows[d], q[i])
           /\ NearX(at[d][u]) <=> xs[s1 + s1 + 1 - u] # v
           /\ ~NearX(at[d][u]) => xs[s] = v /\ xs[u] # v
      /\ \A r \in rows[d] : NearX(r) => \E u \in {s1, s1 + 1} : r = at[d][u]
  <2> DEFINE b == x.size[d] + 1
             f == at[d]
             R == rows[d]
             z == q[i]
  <2>1. ValuesInOrder(x, i, f, <<1, b>>, xs, v, z, R) /\ Straddles(xs, b, v, s, s1)
    BY DEF TwoInterpolated
  <2> HIDE DEF b, f, R, z, i
  <2>2. OnAxis(x, i, f, xs, v, z, R, s, s1)
    BY <2>1, OneCoordinate
  <2> QED
    BY <2>2 DEF OnAxis, f, R, z
<1>5. /\ w \in Int /\ t \in {t1, t1 + 1} /\ NearY(at[e][t])
      /\ \A u \in {t1, t1 + 1} :
           /\ at[e][u] \in rows[e] /\ KeyOf(x, j, at[e][u]) = ys[u] /\ ys[u] \in Int
           /\ KeyOf(x, j, at[e][u]) \in Neighbours(x, j, rows[e], q[j])
           /\ NearY(at[e][u]) <=> ys[t1 + t1 + 1 - u] # w
           /\ ~NearY(at[e][u]) => ys[t] = w /\ ys[u] # w
      /\ \A r \in rows[e] : NearY(r) => \E u \in {t1, t1 + 1} : r = at[e][u]
  <2> DEFINE b == x.size[e] + 1
             f == at[e]
             R == rows[e]
             z == q[j]
  <2>1. ValuesInOrder(x, j, f, <<1, b>>, ys, w, z, R) /\ Straddles(ys, b, w, t, t1)
    BY DEF TwoInterpolated
  <2> HIDE DEF b, f, R, z, j
  <2>2. OnAxis(x, j, f, ys, w, z, R, t, t1)
    BY <2>1, OneCoordinate
  <2> QED
    BY <2>2 DEF OnAxis, f, R, z
<1>6. ASSUME NEW c \in corners
      PROVE  /\ cell(c) = [g \in Dims(x) |-> cell(c)[g]]
             /\ \A g \in Dims(x) : cell(c)[g] \in rows[g]
             /\ cell(c)[d] = at[d][c[1]] /\ cell(c)[e] = at[e][c[2]]
  <2> DEFINE pos == [f \in {d, e} |-> IF f = d THEN c[1] ELSE c[2]]
  <2>1. DOMAIN pos = {d, e} /\ pos[d] = c[1] /\ pos[e] = c[2]
    BY <1>1
  <2>2. cell(c) = CellOf(x, at, ranges, pos)
    BY DEF Corner
  <2>3. c[1] \in {s1, s1 + 1} /\ c[2] \in {t1, t1 + 1}
    OBVIOUS
  <2> HIDE DEF pos, cell, rows
  <2>4. DOMAIN pos = Interpolated(x, num)
    BY <1>3, <2>1
  <2>5. \A g \in Interpolated(x, num) : at[g][pos[g]] \in Selected(x, q, num)[g]
    BY <1>3, <1>4, <1>5, <2>1, <2>3 DEF rows
  <2>6. /\ cell(c) = [g \in Dims(x) |-> cell(c)[g]]
        /\ \A g \in Dims(x) : cell(c)[g] \in Selected(x, q, num)[g]
        /\ \A g \in Interpolated(x, num) : g \in Dims(x) /\ cell(c)[g] = at[g][pos[g]]
    BY <1>1, <2>2, <2>4, <2>5, CellSelected
  <2> QED
    BY <1>3, <2>1, <2>6 DEF rows
<1>7. \A c : c \in BracketCells(x, q) <=>
        /\ c = [g \in Dims(x) |-> c[g]]
        /\ \A g \in Dims(x) : c[g] \in rows[g]
        /\ NearX(c[d]) /\ NearY(c[e])
  <2>1. \A c : c \in BracketCells(x, q) <=>
          /\ c = [g \in Dims(x) |-> c[g]]
          /\ \A g \in Dims(x) : c[g] \in rows[g]
          /\ \A k \in num + 1 .. LastCoord(x) :
               KeyOf(x, k, c[Dim(x, k)]) \in Brackets(x, k, rows[Dim(x, k)], q[k])
    BY <1>1, BracketCellsAre
  <2>2. \A c : (\A k \in num + 1 .. LastCoord(x) :
                  KeyOf(x, k, c[Dim(x, k)]) \in Brackets(x, k, rows[Dim(x, k)], q[k]))
               <=> NearX(c[d]) /\ NearY(c[e])
    <3> HIDE DEF rows, i, j
    <3> QED
      BY <1>1, <1>2
  <2> HIDE DEF rows, NearX, NearY
  <2> QED
    BY <2>1, <2>2
<1>8. \A c : c \in NeighbourCells(x, q) <=>
        /\ c = [g \in Dims(x) |-> c[g]]
        /\ \A g \in Dims(x) : c[g] \in rows[g]
        /\ KeyOf(x, i, c[d]) \in Neighbours(x, i, rows[d], q[i])
        /\ KeyOf(x, j, c[e]) \in Neighbours(x, j, rows[e], q[j])
  <2>1. \A c : c \in NeighbourCells(x, q) <=>
          /\ c = [g \in Dims(x) |-> c[g]]
          /\ \A g \in Dims(x) : c[g] \in rows[g]
          /\ \A k \in num + 1 .. LastCoord(x) :
               KeyOf(x, k, c[Dim(x, k)]) \in Neighbours(x, k, rows[Dim(x, k)], q[k])
    BY <1>1, BracketCellsAre
  <2>2. \A c : (\A k \in num + 1 .. LastCoord(x) :
                  KeyOf(x, k, c[Dim(x, k)]) \in Neighbours(x, k, rows[Dim(x, k)], q[k]))
               <=> /\ KeyOf(x, i, c[d]) \in Neighbours(x, i, rows[d], q[i])
                   /\ KeyOf(x, j, c[e]) \in Neighbours(x, j, rows[e], q[j])
    <3> HIDE DEF rows, i, j
    <3> QED
      BY <1>1, <1>2
  <2> HIDE DEF rows, i, j
  <2> QED
    BY <2>1, <2>2
<1> HIDE DEF cell, rows, NearX, NearY, i, j
<1>9. ASSUME NEW c \in corners
      PROVE  /\ cell(c) \in NeighbourCells(x, q)
             /\ cell(c) \in BracketCells(x, q) <=> NearX(at[d][c[1]]) /\ NearY(at[e][c[2]])
             /\ c[1] \in {s1, s1 + 1} /\ c[2] \in {t1, t1 + 1}
  <2>1. c[1] \in {s1, s1 + 1} /\ c[2] \in {t1, t1 + 1}
    OBVIOUS
  <2> HIDE DEF corners
  <2>2. /\ cell(c) = [g \in Dims(x) |-> cell(c)[g]]
        /\ \A g \in Dims(x) : cell(c)[g] \in rows[g]
        /\ cell(c)[d] = at[d][c[1]] /\ cell(c)[e] = at[e][c[2]]
    BY <1>6
  <2>3. cell(c) \in BracketCells(x, q) <=> NearX(at[d][c[1]]) /\ NearY(at[e][c[2]])
    BY <1>7, <2>2
  <2>4. cell(c) \in NeighbourCells(x, q)
    BY <1>4, <1>5, <1>8, <2>1, <2>2
  <2> QED
    BY <2>1, <2>3, <2>4
<1>10. ASSUME NEW c \in corners
       PROVE  cell(c) \in BracketCells(x, q) <=>
                xs[s1 + s1 + 1 - c[1]] # v /\ ys[t1 + t1 + 1 - c[2]] # w
  BY <1>4, <1>5, <1>9
<1>11. <<s, t>> \in corners /\ cell(<<s, t>>) \in BracketCells(x, q)
  <2>1. <<s, t>> \in corners
    BY <1>4, <1>5
  <2> HIDE DEF corners
  <2> QED
    BY <1>4, <1>5, <1>9, <2>1
<1>12. ASSUME NEW c \in BracketCells(x, q) PROVE \E b \in corners : c = cell(b)
  <2>1. /\ c = [g \in Dims(x) |-> c[g]]
        /\ \A g \in Dims(x) : c[g] \in rows[g]
        /\ NearX(c[d]) /\ NearY(c[e])
    BY <1>7
  <2>2. PICK u \in {s1, s1 + 1} : c[d] = at[d][u]
    BY <1>1, <1>4, <2>1
  <2>3. PICK z \in {t1, t1 + 1} : c[e] = at[e][z]
    BY <1>1, <1>5, <2>1
  <2> DEFINE b == <<u, z>>
  <2>4. b \in corners /\ b[1] = u /\ b[2] = z
    BY <2>2, <2>3
  <2> HIDE DEF b
  <2>5. /\ cell(b) = [g \in Dims(x) |-> cell(b)[g]]
        /\ \A g \in Dims(x) : cell(b)[g] \in rows[g]
        /\ cell(b)[d] = at[d][b[1]] /\ cell(b)[e] = at[e][b[2]]
    BY <1>6, <2>4
  <2>6. ASSUME NEW g \in Dims(x) PROVE cell(b)[g] = c[g]
    <3>1. CASE g \in {d, e}
      BY <2>2, <2>3, <2>4, <2>5, <3>1
    <3>2. CASE g \notin {d, e}
      <4>1. ranges[g][2] - ranges[g][1] = 1
        BY <1>1, <3>2 DEF AllUnique
      <4>2. RowsListed(x, g, at[g]) /\ RangeHolds(x, g, at[g], ranges[g], rows[g])
        BY <1>1 DEF LastInterpolated, Searched, rows
      <4>3. rows[g] = {at[g][ranges[g][1]]}
        BY <4>1, <4>2, OneRow
      <4> QED
        BY <2>1, <2>5, <4>3
    <3> QED
      BY <3>1, <3>2
  <2>7. c = cell(b)
    BY <2>1, <2>5, <2>6
  <2> QED
    BY <2>4, <2>7
<1>13. ASSUME NEW c \in corners, cell(c) \notin BracketCells(x, q)
       PROVE  \E b \in corners :
                /\ cell(b) \in BracketCells(x, q)
                /\ (v - xs[b[1]]) * (v - xs[b[1]]) + (w - ys[b[2]]) * (w - ys[b[2]]) <
                     (v - xs[c[1]]) * (v - xs[c[1]]) + (w - ys[c[2]]) * (w - ys[c[2]])
  <2> DEFINE u == IF NearX(at[d][c[1]]) THEN c[1] ELSE s
             z == IF NearY(at[e][c[2]]) THEN c[2] ELSE t
             b == <<u, z>>
  <2>1. /\ c[1] \in {s1, s1 + 1} /\ c[2] \in {t1, t1 + 1}
        /\ ~(NearX(at[d][c[1]]) /\ NearY(at[e][c[2]]))
    BY <1>9, <1>13
  <2>2. u \in {s1, s1 + 1} /\ z \in {t1, t1 + 1} /\ NearX(at[d][u]) /\ NearY(at[e][z])
    BY <1>4, <1>5, <2>1
  <2> DEFINE A == v - xs[u]
             B == w - ys[z]
             C == v - xs[c[1]]
             D == w - ys[c[2]]
  <2>3. /\ A \in Int /\ B \in Int /\ C \in Int /\ D \in Int
        /\ A = C \/ (A = 0 /\ C # 0)
        /\ B = D \/ (B = 0 /\ D # 0)
        /\ ~(NearX(at[d][c[1]])) => A = 0 /\ C # 0
        /\ ~(NearY(at[e][c[2]])) => B = 0 /\ D # 0
    BY <1>4, <1>5, <2>1
  <2>4. b \in corners /\ b[1] = u /\ b[2] = z
    BY <2>2
  <2>5. cell(b) \in BracketCells(x, q)
    <3> HIDE DEF b, corners, u, z
    <3> QED
      BY <1>9, <2>2, <2>4
  <2> HIDE DEF A, B, C, D, u, z
  <2>6. A * A + B * B < C * C + D * D
    <3>1. /\ A * A \in Int /\ B * B \in Int /\ C * C \in Int /\ D * D \in Int
          /\ C * C >= 0 /\ D * D >= 0 /\ (C # 0 => C * C > 0) /\ (D # 0 => D * D > 0)
      BY <2>3, SquareGrows
    <3>2. A = 0 => A * A = 0
      OBVIOUS
    <3>3. B = 0 => B * B = 0
      OBVIOUS
    <3>4. A * A <= C * C /\ B * B <= D * D /\ (A * A < C * C \/ B * B < D * D)
      BY <2>1, <2>3, <3>1, <3>2, <3>3
    <3> QED
      BY <3>1, <3>4
  <2> QED
    BY <2>4, <2>5, <2>6 DEF A, B, C, D
<1> QED
  BY <1>9, <1>10, <1>11, <1>12, <1>13 DEF cell

(* The results of bilinearInterpolation, see BilinearCells.                  *)
CellsOf(x, at, ranges, d, e, xs, ys, v, w, s, t) ==
  LET s1 == IF s > 1 THEN s - 1 ELSE s
      t1 == IF t > 1 THEN t - 1 ELSE t
      cell(c) == Corner(x, at, ranges, d, e, c)
      corners == {s1, s1 + 1} \X {t1, t1 + 1}
      inArray == {c \in corners : c[1] \in Rows(x, d) /\ c[2] \in Rows(x, e)}
      present == {c \in corners : cell(c) \notin x.missing}
      square(c) == (v - xs[c[1]]) * (v - xs[c[1]]) + (w - ys[c[2]]) * (w - ys[c[2]])
      weighs(c) == xs[s1 + s1 + 1 - c[1]] # v /\ ys[t1 + t1 + 1 - c[2]] # w
      degenerate == xs[s1] = xs[s1 + 1] \/ ys[t1] = ys[t1 + 1]
  IN IF xs[s] = v /\ ys[t] = w THEN {{cell(<<s, t>>)}}
     ELSE IF inArray # corners THEN SUBSET ({[f \in Dims(x) |-> 0]} \cup {cell(c) : c \in inArray})
     ELSE IF present = {} THEN {{}}
     ELSE IF present # corners
       THEN {{cell(c)} : c \in {o \in present : \A a \in present : square(o) <= square(a)}}
     ELSE IF degenerate THEN {{[f \in Dims(x) |-> 0]}}
     ELSE {{cell(c) : c \in {o \in corners : weighs(o)}}}

LEMMA BilinearAnswers ==
  ASSUME NEW x \in TableInputs, NEW at, NEW q, NEW num \in Nat, NEW ranges, NEW d, NEW e,
         NEW xs, NEW ys, NEW v, NEW w, NEW s, NEW t,
         TwoInterpolated(x, at, q, num, ranges, d, e, xs, ys, v, w, s, t,
                         IF s > 1 THEN s - 1 ELSE s, IF t > 1 THEN t - 1 ELSE t),
         Answerable(x, q), NEW cells \in CellsOf(x, at, ranges, d, e, xs, ys, v, w, s, t)
  PROVE  Answers(x, q, cells)
<1> DEFINE s1 == IF s > 1 THEN s - 1 ELSE s
           t1 == IF t > 1 THEN t - 1 ELSE t
           cell(c) == Corner(x, at, ranges, d, e, c)
           corners == {s1, s1 + 1} \X {t1, t1 + 1}
           inArray == {c \in corners : c[1] \in Rows(x, d) /\ c[2] \in Rows(x, e)}
           present == {c \in corners : cell(c) \notin x.missing}
           square(c) == (v - xs[c[1]]) * (v - xs[c[1]]) + (w - ys[c[2]]) * (w - ys[c[2]])
           weighs(c) == xs[s1 + s1 + 1 - c[1]] # v /\ ys[t1 + t1 + 1 - c[2]] # w
           degenerate == xs[s1] = xs[s1 + 1] \/ ys[t1] = ys[t1 + 1]
           B == BracketCells(x, q)
<1>1. /\ \A c \in corners : /\ cell(c) \in NeighbourCells(x, q)
                            /\ cell(c) \in B <=> weighs(c)
                            /\ cell(c) \notin B => \E b \in corners : cell(b) \in B /\ square(b) < square(c)
      /\ \A c \in B : \E b \in corners : c = cell(b)
      /\ <<s, t>> \in corners /\ cell(<<s, t>>) \in B
  <2> DEFINE T == TwoInterpolated(x, at, q, num, ranges, d, e, xs, ys, v, w, s, t, s1, t1)
  <2>1. T
    OBVIOUS
  <2> HIDE DEF s1, t1
  <2> QED
    BY <2>1, CornersAre
<1>2. ~degenerate
  BY DEF TwoInterpolated, Straddles
<1>3. ASSUME NEW c \in corners, NEW b \in corners PROVE square(c) \in Int /\ square(b) \in Int
  <2>1. c[1] \in {s1, s1 + 1} /\ c[2] \in {t1, t1 + 1} /\ b[1] \in {s1, s1 + 1} /\ b[2] \in {t1, t1 + 1}
    OBVIOUS
  <2>2. /\ v \in Int /\ w \in Int
        /\ \A u \in {s1, s1 + 1} : xs[u] \in Int
        /\ \A u \in {t1, t1 + 1} : ys[u] \in Int
    BY DEF TwoInterpolated, Straddles, ValuesInOrder
  <2>3. v - xs[c[1]] \in Int /\ w - ys[c[2]] \in Int /\ v - xs[b[1]] \in Int /\ w - ys[b[2]] \in Int
    <3> HIDE DEF corners, s1, t1
    <3> QED
      BY <2>1, <2>2
  <2> HIDE DEF corners, s1, t1
  <2> QED
    BY <2>3
<1>4. cells \in IF xs[s] = v /\ ys[t] = w THEN {{cell(<<s, t>>)}}
                ELSE IF inArray # corners
                  THEN SUBSET ({[f \in Dims(x) |-> 0]} \cup {cell(c) : c \in inArray})
                ELSE IF present = {} THEN {{}}
                ELSE IF present # corners
                  THEN {{cell(c)} : c \in {o \in present : \A a \in present : square(o) <= square(a)}}
                ELSE IF degenerate THEN {{[f \in Dims(x) |-> 0]}}
                ELSE {{cell(c) : c \in {o \in corners : weighs(o)}}}
  BY DEF CellsOf
<1>5. \A c : c \in present <=> c \in corners /\ cell(c) \notin x.missing
  OBVIOUS
<1>10. inArray = corners
  <2>1. s1 \in Rows(x, d) /\ s1 + 1 \in Rows(x, d) /\ t1 \in Rows(x, e) /\ t1 + 1 \in Rows(x, e)
    <3>1. x.size[d] \in Nat /\ x.size[e] \in Nat
      BY TableFacts DEF TwoInterpolated, ValuesInOrder
    <3>2. /\ s1 + 1 \in 1 .. (x.size[d] + 1) - 1 /\ s1 \in 1 .. (x.size[d] + 1) - 1
          /\ t1 + 1 \in 1 .. (x.size[e] + 1) - 1 /\ t1 \in 1 .. (x.size[e] + 1) - 1
      BY DEF TwoInterpolated, Straddles
    <3> HIDE DEF s1, t1
    <3> QED
      BY <3>1, <3>2 DEF Rows
  <2>2. \A c \in corners : c[1] \in {s1, s1 + 1} /\ c[2] \in {t1, t1 + 1}
    OBVIOUS
  <2> HIDE DEF s1, t1, corners
  <2> QED
    BY <2>1, <2>2
<1> HIDE DEF s1, t1, corners, cell, inArray, square, weighs, present, degenerate, B
<1>6. CASE cells = {cell(<<s, t>>)}
  BY <1>1, <1>6 DEF Answers, B
<1>7. CASE present = {} /\ cells = {}
  <2>1. B \subseteq x.missing
    BY <1>1, <1>5, <1>7
  <2> QED
    BY <1>7, <2>1 DEF Answers, B
<1>8. CASE cells \in {{cell(c)} : c \in {o \in present : \A a \in present : square(o) <= square(a)}}
  <2>1. PICK c \in present : cells = {cell(c)} /\ \A a \in present : square(c) <= square(a)
    BY <1>8
  <2>2. c \in corners /\ cell(c) \notin x.missing
    BY <1>5, <2>1
  <2>3. ASSUME cell(c) \notin B
        PROVE  cell(c) \in NeighbourCells(x, q) \ x.missing /\ B \cap x.missing # {}
    <3>1. PICK b \in corners : cell(b) \in B /\ square(b) < square(c)
      BY <1>1, <2>2, <2>3
    <3>2. square(b) \in Int /\ square(c) \in Int
      BY <1>3, <2>2
    <3>3. b \notin present
      BY <2>1, <3>1, <3>2
    <3>4. cell(b) \in x.missing
      BY <1>5, <3>3
    <3> QED
      BY <1>1, <2>2, <3>1, <3>4
  <2> QED
    BY <2>1, <2>3 DEF Answers, B
<1>9. CASE cells = {cell(c) : c \in {o \in corners : weighs(o)}}
  <2>1. \A c \in cells : c \in B
    BY <1>1, <1>9
  <2>2. cell(<<s, t>>) \in cells
    BY <1>1, <1>9
  <2> QED
    BY <2>1, <2>2 DEF Answers, B
<1> QED
  BY <1>2, <1>4, <1>6, <1>7, <1>8, <1>9, <1>10

(* Two coordinates of a regular table.                                      *)
LEMMA BilinearInterpolates ==
  ASSUME NEW x \in TableInputs, RegularTable(x), NEW at, NEW q, NEW num \in Nat, NEW ranges,
         LastInterpolated(x, at, q, num, ranges), num + 2 = LastCoord(x),
         x.schedule[num + 1].method = "bilinear", x.schedule[num + 2].method = "bilinear",
         NEW d, NEW xs, NEW v, Taken(x, at, q, num + 1, ranges, d, ranges[d], xs, v),
         NEW e, NEW ys, NEW w, Taken(x, at, q, num + 2, ranges, e, ranges[e], ys, w),
         NEW s, s = LowerBound(xs, ranges[d], v), NEW t, t = LowerBound(ys, ranges[e], w)
  PROVE  LET stops == \/ ~AllUnique(ranges, Dims(x) \ {d, e})
                      \/ IsOutOfBounds(v, xs, ranges[d])
                      \/ IsOutOfBounds(w, ys, ranges[e])
         IN /\ stops => ~Answerable(x, q)
            /\ ~stops => \A cells \in CellsOf(x, at, ranges, d, e, xs, ys, v, w, s, t) :
                           Answers(x, q, cells)
<1> USE DEF Taken
<1> DEFINE i == num + 1
           j == num + 2
           rows == Selected(x, q, num)
<1>1. /\ i \in 1 .. LastCoord(x) /\ j \in 1 .. LastCoord(x) /\ i # j
      /\ i \in DOMAIN x.schedule /\ j \in DOMAIN x.schedule
      /\ d \in Dims(x) /\ e \in Dims(x)
      /\ x.size[d] \in Nat /\ x.size[e] \in Nat
  <2>1. i \in 1 .. LastCoord(x) /\ j \in 1 .. LastCoord(x) /\ i # j
    OBVIOUS
  <2> QED
    BY <2>1, TableFacts
<1>2. /\ x.size[d] > 1 /\ x.size[e] > 1
      /\ \A k \in DOMAIN x.schedule : Dim(x, k) = d => k = i
      /\ \A k \in DOMAIN x.schedule : Dim(x, k) = e => k = j
      /\ \A r, u \in Rows(x, d) : KeyOf(x, i, r) = KeyOf(x, i, u) => r = u
      /\ \A r, u \in Rows(x, e) : KeyOf(x, j, r) = KeyOf(x, j, u) => r = u
  BY <1>1 DEF RegularTable
<1>3. d # e
  BY <1>1, <1>2
<1>4. ranges[d] = <<1, x.size[d] + 1>> /\ ranges[e] = <<1, x.size[e] + 1>>
  <2>1. \A k \in 1 .. num : k \in DOMAIN x.schedule /\ k # i /\ k # j
    BY <1>1, TableFacts
  <2>2. (\A k \in 1 .. num : Dim(x, k) # d) /\ (\A k \in 1 .. num : Dim(x, k) # e)
    BY <1>2, <2>1
  <2> QED
    BY <1>1, <2>2 DEF LastInterpolated, Searched
<1>5. ValuesInOrder(x, i, at[d], ranges[d], xs, v, q[i], rows[d])
  <2>1. i \in num + 1 .. LastCoord(x) /\ \A k \in num + 1 .. i - 1 : Dim(x, k) # Dim(x, i)
    OBVIOUS
  <2> QED
    BY <2>1, InterpolatedValues
<1>6. ValuesInOrder(x, j, at[e], ranges[e], ys, w, q[j], rows[e])
  <2>1. j \in num + 1 .. LastCoord(x)
    OBVIOUS
  <2>2. \A k \in num + 1 .. j - 1 : k = i
    OBVIOUS
  <2>3. \A k \in num + 1 .. j - 1 : Dim(x, k) # Dim(x, j)
    BY <1>3, <2>2
  <2> QED
    BY <2>1, <2>3, InterpolatedValues
<1>7. Answerable(x, q) <=>
        /\ ~IsOutOfBounds(v, xs, ranges[d]) /\ ~IsOutOfBounds(w, ys, ranges[e])
        /\ AllUnique(ranges, Dims(x) \ {d, e})
  <2>1. Answerable(x, q) <=> CanInterpolate(x, q, num, ranges)
    BY AnswerableIs
  <2>2. \A k : k \in num + 1 .. LastCoord(x) <=> k \in {i, j}
    OBVIOUS
  <2>3. Interpolated(x, num) = {d, e}
    BY <2>2 DEF Interpolated
  <2> DEFINE Good(k) == LET S == KeysOf(x, k, Selected(x, q, num)[Dim(x, k)])
                        IN ~Outside(S, Within(x.schedule[k].extrapMode, S, q[k]))
  <2>4. Good(i) <=> ~IsOutOfBounds(v, xs, ranges[d])
    BY <1>5 DEF ValuesInOrder
  <2>5. Good(j) <=> ~IsOutOfBounds(w, ys, ranges[e])
    BY <1>6 DEF ValuesInOrder
  <2>6. CanInterpolate(x, q, num, ranges) <=>
          (\A k \in num + 1 .. LastCoord(x) : Good(k)) /\ AllUnique(ranges, Dims(x) \ {d, e})
    BY <2>3 DEF CanInterpolate, AllUnique
  <2> HIDE DEF Good, i, j
  <2> QED
    BY <2>1, <2>2, <2>4, <2>5, <2>6
<1>8. ASSUME AllUnique(ranges, Dims(x) \ {d, e}),
             ~IsOutOfBounds(v, xs, ranges[d]), ~IsOutOfBounds(w, ys, ranges[e]),
             NEW cells \in CellsOf(x, at, ranges, d, e, xs, ys, v, w, s, t)
      PROVE  Answers(x, q, cells)
  <2>1. Straddles(xs, x.size[d] + 1, v, s, IF s > 1 THEN s - 1 ELSE s)
    <3> DEFINE b == x.size[d] + 1
    <3>1. v \in Int /\ Ascends(xs, 1, b) /\ \A p \in 1 .. b - 1 : xs[p] = KeyOf(x, i, at[d][p])
      BY <1>4, <1>5 DEF ValuesInOrder
    <3>2. \A p \in 1 .. b - 1 : p \in Rows(x, d)
      BY <1>1 DEF Rows
    <3>3. Permutes(at[d], Rows(x, d))
      BY <1>1 DEF LastInterpolated, RowsListed
    <3>4. \A p, u \in 1 .. b - 1 : xs[p] = xs[u] => p = u
      <4> SUFFICES ASSUME NEW p \in 1 .. b - 1, NEW u \in 1 .. b - 1, xs[p] = xs[u]
                   PROVE  p = u
        OBVIOUS
      <4>1. p \in Rows(x, d) /\ u \in Rows(x, d)
        BY <3>2
      <4>2. at[d][p] \in Rows(x, d) /\ at[d][u] \in Rows(x, d)
        BY <3>3, <4>1 DEF Permutes
      <4>3. KeyOf(x, i, at[d][p]) = KeyOf(x, i, at[d][u])
        BY <3>1
      <4>4. at[d][p] = at[d][u]
        BY <1>2, <4>2, <4>3
      <4> QED
        BY <3>3, <4>1, <4>4 DEF Permutes
    <3>5. 2 < b /\ ~IsOutOfBounds(v, xs, <<1, b>>) /\ s = LowerBound(xs, <<1, b>>, v)
      BY <1>1, <1>2, <1>4, <1>8
    <3> HIDE DEF b
    <3>6. Straddles(xs, b, v, s, IF s > 1 THEN s - 1 ELSE s)
      BY <3>1, <3>4, <3>5, PositionsStraddle
    <3> QED
      BY <3>6 DEF b
  <2>2. Straddles(ys, x.size[e] + 1, w, t, IF t > 1 THEN t - 1 ELSE t)
    <3> DEFINE b == x.size[e] + 1
    <3>1. w \in Int /\ Ascends(ys, 1, b) /\ \A p \in 1 .. b - 1 : ys[p] = KeyOf(x, j, at[e][p])
      BY <1>4, <1>6 DEF ValuesInOrder
    <3>2. \A p \in 1 .. b - 1 : p \in Rows(x, e)
      BY <1>1 DEF Rows
    <3>3. Permutes(at[e], Rows(x, e))
      BY <1>1 DEF LastInterpolated, RowsListed
    <3>4. \A p, u \in 1 .. b - 1 : ys[p] = ys[u] => p = u
      <4> SUFFICES ASSUME NEW p \in 1 .. b - 1, NEW u \in 1 .. b - 1, ys[p] = ys[u]
                   PROVE  p = u
        OBVIOUS
      <4>1. p \in Rows(x, e) /\ u \in Rows(x, e)
        BY <3>2
      <4>2. at[e][p] \in Rows(x, e) /\ at[e][u] \in Rows(x, e)
        BY <3>3, <4>1 DEF Permutes
      <4>3. KeyOf(x, j, at[e][p]) = KeyOf(x, j, at[e][u])
        BY <3>1
      <4>4. at[e][p] = at[e][u]
        BY <1>2, <4>2, <4>3
      <4> QED
        BY <3>3, <4>1, <4>4 DEF Permutes
    <3>5. 2 < b /\ ~IsOutOfBounds(w, ys, <<1, b>>) /\ t = LowerBound(ys, <<1, b>>, w)
      BY <1>1, <1>2, <1>4, <1>8
    <3> HIDE DEF b
    <3>6. Straddles(ys, b, w, t, IF t > 1 THEN t - 1 ELSE t)
      BY <3>1, <3>4, <3>5, PositionsStraddle
    <3> QED
      BY <3>6 DEF b
  <2>3. TwoInterpolated(x, at, q, num, ranges, d, e, xs, ys, v, w, s, t,
                        IF s > 1 THEN s - 1 ELSE s, IF t > 1 THEN t - 1 ELSE t)
    BY <1>3, <1>4, <1>5, <1>6, <1>8, <2>1, <2>2 DEF TwoInterpolated
  <2>4. Answerable(x, q)
    BY <1>7, <1>8
  <2> QED
    BY <1>8, <2>3, <2>4, BilinearAnswers
<1> QED
  BY <1>7, <1>8

(* No interpolation: a cell is found if every range is one row.              *)
LEMMA MatchAnswers ==
  ASSUME NEW x \in TableInputs, NEW at, NEW q, NEW ranges,
         LastInterpolated(x, at, q, LastCoord(x), ranges)
  PROVE  /\ ~AllUnique(ranges, Dims(x)) => ~Answerable(x, q)
         /\ AllUnique(ranges, Dims(x)) => Answers(x, q, {CellOf(x, at, ranges, <<>>)})
<1> DEFINE num == LastCoord(x)
           c == CellOf(x, at, ranges, <<>>)
<1>1. num \in Nat /\ num + 1 .. num = {}
  BY TableFacts
<1>2. Interpolated(x, num) = {}
  BY <1>1 DEF Interpolated
<1> HIDE DEF num, c
<1>3. LastInterpolated(x, at, q, num, ranges)
  BY DEF num
<1>4. Answerable(x, q) <=> CanInterpolate(x, q, num, ranges)
  BY <1>1, <1>3, AnswerableIs
<1>5. CanInterpolate(x, q, num, ranges) <=> AllUnique(ranges, Dims(x))
  BY <1>1, <1>2 DEF CanInterpolate, AllUnique, num
<1>6. c \in BracketCells(x, q)
  <2> DEFINE pos == <<>>
  <2>1. DOMAIN pos = Interpolated(x, num)
    BY <1>2
  <2>2. c = CellOf(x, at, ranges, pos)
    BY DEF c
  <2> HIDE DEF pos
  <2>3. \A d \in Interpolated(x, num) : at[d][pos[d]] \in Selected(x, q, num)[d]
    BY <1>2
  <2>4. /\ c = [d \in Dims(x) |-> c[d]]
        /\ \A d \in Dims(x) : c[d] \in Selected(x, q, num)[d]
        /\ \A d \in Interpolated(x, num) : d \in Dims(x) /\ c[d] = at[d][pos[d]]
    BY <1>1, <1>3, <2>1, <2>2, <2>3, CellSelected
  <2> QED
    BY <1>1, <1>3, <2>4, BracketCellsAre DEF num
<1>7. AllUnique(ranges, Dims(x)) => Answers(x, q, {c})
  BY <1>4, <1>5, <1>6 DEF Answers
<1> QED
  BY <1>4, <1>5, <1>7 DEF c

-----------------------------------------------------------------------------
(* The states.  While the coordinates are scheduled, every dimension is     *)
(* sorted and grouped by those scheduled so far; while values are looked up, *)
(* the ranges hold the rows that the values so far select.                 *)
SortInv ==
  /\ numScheduled \in Nat /\ numScheduled <= LastCoord(table)
  /\ DOMAIN placeOfRow = Dims(table) /\ DOMAIN groupOfRow = Dims(table)
  /\ \A d \in Dims(table) : RowsGrouped(table, d, numScheduled, placeOfRow[d], groupOfRow[d])
  /\ constrainedRanges = FullRanges(table)
  /\ ~resultSet /\ query = <<>>

SearchInv ==
  /\ \A d \in Dims(table) : RowsListed(table, d, rowAt[d])
  /\ query \in Seq(Int) /\ Len(query) <= LastCoord(table)
  /\ ~resultSet =>
       /\ DOMAIN constrainedRanges = Dims(table)
       /\ nextCoordToExtractBy = Len(query) + 1
       /\ Searched(table, rowAt, query, Len(query), constrainedRanges)
  /\ resultSet => /\ Len(query) = LastCoord(table) /\ table.floatPayload
                  /\ Answers(table, query, result)

ExtractorInv ==
  /\ table \in TableInputs
  /\ extractPc \in {"schedule", "extract", "done", "thrown"}
  /\ extractPc = "schedule" => SortInv
  /\ extractPc = "extract" => SearchInv
  /\ extractPc = "thrown" => ~Answerable(table, query)
  /\ answer # NoAnswer => Answers(table, answer.query, answer.cells)

LEMMA ExtractorInvInit ==
  ASSUME ExtractInit
  PROVE  ExtractorInv
<1>1. /\ table \in TableInputs /\ extractPc = "schedule" /\ answer = NoAnswer
      /\ numScheduled = 0 /\ constrainedRanges = FullRanges(table)
      /\ ~resultSet /\ query = <<>>
      /\ placeOfRow = [d \in Dims(table) |-> [r \in Rows(table, d) |-> r]]
      /\ groupOfRow = [d \in Dims(table) |-> [r \in Rows(table, d) |-> <<>>]]
  BY DEF ExtractInit
<1>2. LastCoord(table) \in Nat
  BY <1>1, TableFacts
<1>3. ASSUME NEW d \in Dims(table)
      PROVE  RowsGrouped(table, d, numScheduled, placeOfRow[d], groupOfRow[d])
  <2> DEFINE S == Rows(table, d)
  <2>1. \A r \in S : placeOfRow[d][r] = r /\ groupOfRow[d][r] = <<>>
    BY <1>1
  <2>2. 1 .. numScheduled = {}
    BY <1>1
  <2>3. Permutes(placeOfRow[d], S) /\ Contiguous(placeOfRow[d], groupOfRow[d], S)
    BY <2>1 DEF Permutes, Contiguous
  <2>4. \A r, s \in S : groupOfRow[d][r] = groupOfRow[d][s]
    BY <2>1
  <2>5. \A r, s \in S : SameGroup(table, d, numScheduled, r, s)
    BY <2>2 DEF SameGroup
  <2>6. SortedTo(table, d, numScheduled, placeOfRow[d])
    BY <2>2 DEF SortedTo
  <2> QED
    BY <2>3, <2>4, <2>5, <2>6 DEF RowsGrouped
<1>4. SortInv
  BY <1>1, <1>2, <1>3 DEF SortInv
<1> QED
  BY <1>1, <1>4 DEF ExtractorInv

LEMMA InvScheduleSort ==
  ASSUME RegularTables, ExtractorInv, ScheduleSort
  PROVE  ExtractorInv'
<1> DEFINE x == table
           k == numScheduled
           d == Dim(table, numScheduled + 1)
<1>1. /\ extractPc = "schedule" /\ k < LastCoord(x) /\ x \in TableInputs /\ SortInv
      /\ placeOfRow' = [placeOfRow EXCEPT ![d] = SortUpdate(k + 1)]
      /\ groupOfRow' = [groupOfRow EXCEPT ![d] = Regrouped(k + 1)]
      /\ numScheduled' = k + 1
      /\ UNCHANGED <<table, extractPc, rowAt, searchVars, query, answer, numLocations>>
  BY DEF ScheduleSort, ExtractorInv
<1>2. UNCHANGED <<table, extractPc, constrainedRanges, resultSet, query, answer>>
  BY <1>1 DEF searchVars
<1>3. RegularTable(x) /\ k \in Nat /\ LastCoord(x) \in Nat
  BY <1>1, TableFacts DEF RegularTables, SortInv
<1>4. d \in Dims(x)
  <2>1. k + 1 \in 1 .. LastCoord(x)
    BY <1>1, <1>3
  <2> QED
    BY <1>1, <2>1, TableFacts
<1>5. /\ placeOfRow'[d] = SortUpdate(k + 1) /\ groupOfRow'[d] = Regrouped(k + 1)
      /\ \A e \in Dims(x) \ {d} : placeOfRow'[e] = placeOfRow[e] /\ groupOfRow'[e] = groupOfRow[e]
      /\ DOMAIN placeOfRow' = Dims(x) /\ DOMAIN groupOfRow' = Dims(x)
  BY <1>1, <1>4 DEF SortInv
<1>6. RowsGrouped(x, d, k + 1, placeOfRow'[d], groupOfRow'[d])
  <2> DEFINE S == Rows(x, d)
             K == [r \in S |-> KeyOf(x, k + 1, r)]
             f == placeOfRow[d]
             g == groupOfRow[d]
             f2 == SortUpdate(k + 1)
             g2 == Regrouped(k + 1)
  <2>1. \A r \in S : K[r] = KeyOf(x, k + 1, r)
    OBVIOUS
  <2>2. ASSUME NEW r \in S
        PROVE  f2[r] = 1 + Cardinality(Below(S, EarlierRows(S, K, f, g), r))
    <3>1. f2[r] = 1 + Cardinality({s \in S : ComesFirst(k + 1, s, r)})
      BY DEF SortUpdate, Sorted
    <3>2. ASSUME NEW s \in S
          PROVE  ComesFirst(k + 1, s, r) <=> <<s, r>> \in EarlierRows(S, K, f, g)
      <4>1. ComesFirst(k + 1, s, r) <=>
              IF g[s] = g[r] /\ K[s] # K[r] THEN K[s] < K[r] ELSE f[s] < f[r]
        BY <2>1 DEF ComesFirst
      <4> HIDE DEF S, K, f, g, d
      <4>2. <<s, r>> \in EarlierRows(S, K, f, g) <=>
              IF g[s] = g[r] /\ K[s] # K[r] THEN K[s] < K[r] ELSE f[s] < f[r]
        BY EarlierRowsAre
      <4> QED
        BY <4>1, <4>2
    <3>3. {s \in S : ComesFirst(k + 1, s, r)} = Below(S, EarlierRows(S, K, f, g), r)
      <4> HIDE DEF S, K, f, g, d
      <4> QED
        BY <3>2 DEF Below
    <3> QED
      BY <3>1, <3>3
  <2>3. \A r \in S : g2[r] = IF Coord(x, k + 1).isFloat THEN g[r] ELSE <<g[r], K[r]>>
    BY <2>1 DEF Regrouped
  <2>4. RowsGrouped(x, d, k, f, g)
    BY <1>1, <1>4 DEF SortInv
  <2>5. S = Rows(x, d)
    OBVIOUS
  <2>6. d = Dim(x, k + 1)
    OBVIOUS
  <2> HIDE DEF S, K, f, g, f2, g2, d, x, k
  <2>7. Resorted(x, d, k + 1, K, f, g, f2, g2)
    BY <2>1, <2>2, <2>3, <2>5 DEF Resorted
  <2>8. RowsGrouped(x, d, k + 1, f2, g2)
    BY <1>1, <1>3, <2>4, <2>6, <2>7, SortKeepsGrouped
  <2> QED
    BY <1>5, <2>8 DEF f2, g2
<1>7. ASSUME NEW e \in Dims(x) \ {d}
      PROVE  RowsGrouped(x, e, k + 1, placeOfRow'[e], groupOfRow'[e])
  <2>1. RowsGrouped(x, e, k, placeOfRow[e], groupOfRow[e])
    BY <1>1 DEF SortInv
  <2>2. e # Dim(x, k + 1)
    OBVIOUS
  <2> HIDE DEF d, x, k
  <2>3. RowsGrouped(x, e, k + 1, placeOfRow[e], groupOfRow[e])
    BY <1>3, <2>1, <2>2, OthersStayGrouped
  <2> QED
    BY <1>5, <2>3
<1>8. table' = x /\ numScheduled' = k + 1 /\ k + 1 \in Nat /\ k + 1 <= LastCoord(x)
  BY <1>1, <1>2, <1>3
<1>9. SortInv'
  <2>1. \A e \in Dims(x) : RowsGrouped(x, e, k + 1, placeOfRow'[e], groupOfRow'[e])
    BY <1>6, <1>7
  <2>2. constrainedRanges' = FullRanges(x) /\ ~resultSet' /\ query' = <<>>
    BY <1>1, <1>2 DEF SortInv
  <2> HIDE DEF x, k
  <2> QED
    BY <1>5, <1>8, <2>1, <2>2 DEF SortInv
<1> QED
  BY <1>1, <1>2, <1>9 DEF ExtractorInv

LEMMA InvSortRows ==
  ASSUME ExtractorInv, SortRows
  PROVE  ExtractorInv'
<1>1. /\ extractPc = "schedule" /\ table \in TableInputs /\ SortInv
      /\ numScheduled = LastCoord(table)
      /\ rowAt' = [d \in Dims(table) |->
                     [p \in Rows(table, d) |-> CHOOSE r \in Rows(table, d) : placeOfRow[d][r] = p]]
      /\ nextCoordToExtractBy' = 1 /\ extractPc' = "extract"
      /\ UNCHANGED <<table, constrainedRanges, resultSet, result, query, answer>>
  BY DEF SortRows, ExtractorInv
<1>2. \A d \in Dims(table) : RowsListed(table, d, rowAt'[d])
  <2> SUFFICES ASSUME NEW d \in Dims(table)
               PROVE  RowsListed(table, d, rowAt'[d])
    OBVIOUS
  <2> DEFINE f == placeOfRow[d]
             g == groupOfRow[d]
             at == rowAt'[d]
  <2>1. RowsGrouped(table, d, LastCoord(table), f, g)
    BY <1>1 DEF SortInv
  <2>2. \A p \in Rows(table, d) : at[p] = CHOOSE r \in Rows(table, d) : f[r] = p
    BY <1>1
  <2> HIDE DEF f, g, at
  <2>3. RowsListed(table, d, at)
    BY <2>1, <2>2, GroupedRowsListed
  <2> QED
    BY <2>3 DEF at
<1>3. Searched(table, rowAt', query, 0, FullRanges(table))
  BY <1>1, <1>2, NothingSearched
<1>4. LastCoord(table) \in Nat
  BY <1>1, TableFacts
<1>5. /\ query' = <<>> /\ ~resultSet' /\ constrainedRanges' = FullRanges(table) /\ table' = table
      /\ query = <<>>
  BY <1>1 DEF SortInv
<1>6. DOMAIN constrainedRanges' = Dims(table)
  BY <1>5 DEF FullRanges
<1>7. SearchInv'
  BY <1>1, <1>2, <1>3, <1>4, <1>5, <1>6 DEF SearchInv
<1> QED
  BY <1>1, <1>7 DEF ExtractorInv

(* The values passed so far, and one more.                                   *)
LEMMA OneMoreValue ==
  ASSUME NEW q \in Seq(Int), NEW v \in Int
  PROVE  /\ q \o <<v>> \in Seq(Int) /\ Len(q \o <<v>>) = Len(q) + 1
         /\ (q \o <<v>>)[Len(q) + 1] = v
         /\ \A i \in 1 .. Len(q) : (q \o <<v>>)[i] = q[i]
  OBVIOUS

LEMMA TwoMoreValues ==
  ASSUME NEW q \in Seq(Int), NEW v \in Int, NEW w \in Int
  PROVE  /\ q \o <<v, w>> \in Seq(Int) /\ Len(q \o <<v, w>>) = Len(q) + 2
         /\ (q \o <<v, w>>)[Len(q) + 1] = v /\ (q \o <<v, w>>)[Len(q) + 2] = w
         /\ \A i \in 1 .. Len(q) : (q \o <<v, w>>)[i] = q[i]
  OBVIOUS

(* Methods that set no result are those of the coordinates so far.           *)
LEMMA InvIgnore ==
  ASSUME ExtractorInv, Ignore
  PROVE  ExtractorInv'
<1>1. extractPc = "extract" /\ resultSet /\ Called <= LastCoord(table)
  BY DEF Ignore, Extracting
<1>2. SearchInv /\ table \in TableInputs
  BY <1>1 DEF ExtractorInv
<1>3. Len(query) = LastCoord(table) /\ LastCoord(table) \in Nat
  BY <1>1, <1>2, TableFacts DEF SearchInv
<1> QED
  BY <1>1, <1>3 DEF Called

LEMMA InvExtractMatch ==
  ASSUME RegularTables, ExtractorInv, ExtractMatch
  PROVE  ExtractorInv'
<1> DEFINE x == table
           num == Len(query)
           i == nextCoordToExtractBy
           d == Dim(table, nextCoordToExtractBy)
<1>1. extractPc = "extract" /\ ~resultSet /\ Called <= LastCoord(x) /\ x.schedule[Called].method \in Matchings
  BY DEF ExtractMatch, Extracting
<1>2. SearchInv /\ x \in TableInputs /\ RegularTable(x)
  BY <1>1 DEF ExtractorInv, RegularTables
<1>3. /\ query \in Seq(Int) /\ num \in Nat /\ i = num + 1 /\ num < LastCoord(x) /\ i \in 1 .. LastCoord(x)
      /\ DOMAIN constrainedRanges = Dims(x)
      /\ Searched(x, rowAt, query, num, constrainedRanges)
      /\ \A e \in Dims(x) : RowsListed(x, e, rowAt[e])
      /\ LastCoord(x) \in Nat
  <2>1. query \in Seq(Int) /\ num \in Nat /\ i = num + 1 /\ Called = num + 1 /\ LastCoord(x) \in Nat
    BY <1>1, <1>2, TableFacts DEF SearchInv, Called
  <2> QED
    BY <1>1, <1>2, <2>1 DEF SearchInv
<1>4. x.schedule[i].method \in Matchings /\ i \in DOMAIN x.schedule /\ d \in Dims(x)
  <2>1. Called = i
    BY <1>3 DEF Called
  <2> QED
    BY <1>1, <1>2, <1>3, <2>1, TableFacts
<1>5. ~Interpolates(x, i) /\ ~BadMode(i) /\ ~ReturnsMissing(i)
  BY <1>2, <1>4 DEF Interpolates, Interpolations, Matchings, BadMode, ReturnsMissing, RegularTable
<1> DEFINE Found(v) == Match(table.schedule[i].method, VarValues(i), ApplyExtrapolation(i, v),
                             table.schedule[i].choice, RangeOf(i))
<1>6. PICK v \in LookupValues :
        IF Found(v) = NoMatch THEN Throw(<<v>>)
        ELSE /\ constrainedRanges' = [constrainedRanges EXCEPT ![d] = Found(v)]
             /\ nextCoordToExtractBy' = i + 1
             /\ query' = query \o <<v>> /\ answer' = NoAnswer
             /\ UNCHANGED <<table, extractPc, sortVars, resultSet, result, numLocations>>
  BY <1>5 DEF ExtractMatch
<1>7. v \in Int
  BY ExtractorAssumption
<1> DEFINE q == query \o <<v>>
<1>8. q \in Seq(Int) /\ Len(q) = num + 1 /\ q[num + 1] = v /\ \A j \in 1 .. num : query[j] = q[j]
  BY <1>3, <1>7, OneMoreValue
<1>9. /\ Found(v) = NoMatch => Selected(x, q, num + 1)[d] = {}
      /\ Found(v) # NoMatch => Searched(x, rowAt, q, num + 1, [constrainedRanges EXCEPT ![d] = Found(v)])
  <2> DEFINE vals == VarValues(i)
             range == RangeOf(i)
             w == ApplyExtrapolation(i, v)
             f == Found(v)
  <2>1. \A p \in Rows(x, d) : vals[p] = KeyOf(x, num + 1, rowAt[d][p])
    BY <1>3 DEF VarValues
  <2>2. range = constrainedRanges[d]
    BY DEF RangeOf
  <2>3. w = Extrapolated(x, num + 1, vals, range, q[num + 1])
    BY <1>3, <1>8 DEF ApplyExtrapolation, Extrapolated
  <2>4. f = Match(x.schedule[num + 1].method, vals, w, x.schedule[num + 1].choice, range)
    BY <1>3
  <2>5. d = Dim(x, num + 1) /\ ~Interpolates(x, num + 1) /\ q[num + 1] \in Int
    BY <1>3, <1>5, <1>7, <1>8
  <2> HIDE DEF vals, range, w, f, q, num, x, d, i, Found
  <2>6. Searched(x, rowAt, q, num, constrainedRanges)
    BY <1>3, <1>8, SearchedSame
  <2>7. Matched(x, rowAt, q, num + 1, constrainedRanges, d, vals, range, w, f)
    BY <2>1, <2>2, <2>3, <2>4 DEF Matched
  <2>8. /\ f = NoMatch => Selected(x, q, num + 1)[d] = {}
        /\ f # NoMatch => Searched(x, rowAt, q, num + 1, [constrainedRanges EXCEPT ![d] = f])
    BY <1>2, <1>3, <2>5, <2>6, <2>7, MatchNarrows
  <2> QED
    BY <2>8 DEF f
<1>10. CASE Found(v) = NoMatch
  <2>1. extractPc' = "thrown" /\ query' = q /\ answer' = NoAnswer /\ table' = x
    BY <1>6, <1>10 DEF Throw
  <2>2. ~Answerable(x, q)
    <3> HIDE DEF q, x, d, num
    <3> QED
      BY <1>4, <1>8, <1>9, <1>10 DEF Answerable
  <2> QED
    BY <1>2, <2>1, <2>2 DEF ExtractorInv
<1>11. CASE Found(v) # NoMatch
  <2>1. /\ constrainedRanges' = [constrainedRanges EXCEPT ![d] = Found(v)]
        /\ nextCoordToExtractBy' = i + 1
        /\ query' = q /\ answer' = NoAnswer
        /\ UNCHANGED <<table, extractPc, rowAt, resultSet>>
    BY <1>6, <1>11 DEF sortVars
  <2>2. SearchInv'
    <3>1. Searched(x, rowAt, q, num + 1, [constrainedRanges EXCEPT ![d] = Found(v)])
      BY <1>9, <1>11
    <3>2. DOMAIN [constrainedRanges EXCEPT ![d] = Found(v)] = Dims(x)
      BY <1>3
    <3>3. table' = x /\ rowAt' = rowAt /\ ~resultSet' /\ nextCoordToExtractBy' = (num + 1) + 1
      BY <1>1, <1>3, <2>1
    <3> HIDE DEF q, x, d, num, i, Found
    <3> QED
      BY <1>3, <1>8, <2>1, <3>1, <3>2, <3>3 DEF SearchInv
  <2> QED
    BY <1>1, <1>2, <2>1, <2>2 DEF ExtractorInv
<1> QED
  BY <1>10, <1>11

(* One value is passed and nothing is interpolated before it.                *)
LEMMA InvExtractLinear ==
  ASSUME RegularTables, ExtractorInv, ExtractLinear
  PROVE  ExtractorInv'
<1> DEFINE x == table
           num == Len(query)
           i == nextCoordToExtractBy
           d == Dim(table, nextCoordToExtractBy)
           vals == VarValues(nextCoordToExtractBy)
           range == RangeOf(nextCoordToExtractBy)
<1>1. extractPc = "extract" /\ ~resultSet /\ Called <= LastCoord(x) /\ x.schedule[Called].method = "linear"
  BY DEF ExtractLinear, Extracting
<1>2. SearchInv /\ x \in TableInputs /\ RegularTable(x)
  BY <1>1 DEF ExtractorInv, RegularTables
<1>3. /\ query \in Seq(Int) /\ num \in Nat /\ i = num + 1 /\ i \in 1 .. LastCoord(x)
      /\ Searched(x, rowAt, query, num, constrainedRanges)
      /\ \A e \in Dims(x) : RowsListed(x, e, rowAt[e])
      /\ LastCoord(x) \in Nat
  <2>1. query \in Seq(Int) /\ num \in Nat /\ i = num + 1 /\ Called = num + 1 /\ LastCoord(x) \in Nat
    BY <1>1, <1>2, TableFacts DEF SearchInv, Called
  <2> QED
    BY <1>1, <1>2, <2>1 DEF SearchInv
<1>4. x.schedule[i].method = "linear" /\ i = LastCoord(x) /\ Interpolates(x, i) /\ x.floatPayload
  <2>1. Called = i
    BY <1>3 DEF Called
  <2>2. x.schedule[i].method = "linear" /\ Interpolates(x, i)
    BY <1>1, <2>1 DEF Interpolates, Interpolations
  <2> QED
    BY <1>2, <1>3, <2>2, TableFacts
<1>5. ~ReturnsMissing(i)
  BY <1>2, <1>3, TableFacts DEF RegularTable, ReturnsMissing
<1> DEFINE cell(p) == CellAt([e \in {d} |-> p])
           at(v) == ApplyExtrapolation(i, v)
           pos(v) == LowerBound(vals, range, at(v))
           cells(v) == IF vals[pos(v)] = at(v) THEN {cell(pos(v))} ELSE {cell(pos(v) - 1), cell(pos(v))}
           stops(v) == ~Unique(Dims(x) \ {d}) \/ IsOutOfBounds(at(v), vals, range)
<1>6. PICK v \in LookupValues :
        IF stops(v) THEN Throw(<<v>>) ELSE SetResult(cells(v), <<v>>, i + 1)
  BY <1>5 DEF ExtractLinear
<1>7. v \in Int
  BY ExtractorAssumption
<1> DEFINE q == query \o <<v>>
<1>8. q \in Seq(Int) /\ Len(q) = num + 1 /\ q[num + 1] = v /\ \A j \in 1 .. num : query[j] = q[j]
  BY <1>3, <1>7, OneMoreValue
<1>9. LastInterpolated(x, rowAt, q, num, constrainedRanges)
  <2>1. \A j \in num + 1 .. LastCoord(x) : j = i
    BY <1>3, <1>4
  <2> HIDE DEF q, x, num, i
  <2>2. Searched(x, rowAt, q, num, constrainedRanges)
    BY <1>3, <1>8, SearchedSame
  <2> QED
    BY <1>3, <1>4, <1>8, <2>1, <2>2 DEF LastInterpolated
<1>10. /\ stops(v) => ~Answerable(x, q)
       /\ ~stops(v) => Answers(x, q, cells(v))
  <2> DEFINE w == at(v)
             p == pos(v)
  <2>1. \A r \in Rows(x, d) : vals[r] = KeyOf(x, i, rowAt[d][r])
    BY <1>3 DEF VarValues
  <2>2. range = constrainedRanges[d] /\ d = Dim(x, i)
    BY DEF RangeOf
  <2>3. w = Extrapolated(x, i, vals, range, q[i])
    BY <1>3, <1>8 DEF ApplyExtrapolation, Extrapolated
  <2>4. p = LowerBound(vals, range, w)
    OBVIOUS
  <2>5. /\ stops(v) <=> ~AllUnique(constrainedRanges, Dims(x) \ {d}) \/ IsOutOfBounds(w, vals, range)
        /\ cells(v) = LineOf(x, rowAt, constrainedRanges, d, vals, w, p)
    BY DEF LineOf, Unique, AllUnique, CellAt, CellOf
  <2> HIDE DEF w, p, stops, cells, vals, range, q, x, num, i, d
  <2>6. Taken(x, rowAt, q, i, constrainedRanges, d, range, vals, w)
    BY <2>1, <2>2, <2>3 DEF Taken
  <2>7. LET stuck == ~AllUnique(constrainedRanges, Dims(x) \ {d}) \/ IsOutOfBounds(w, vals, range)
        IN /\ stuck => ~Answerable(x, q)
           /\ ~stuck => Answers(x, q, LineOf(x, rowAt, constrainedRanges, d, vals, w, p))
    BY <1>2, <1>3, <1>4, <1>9, <2>4, <2>6, LinearAnswers
  <2> QED
    BY <2>5, <2>7
<1>11. CASE stops(v)
  <2>1. extractPc' = "thrown" /\ query' = q /\ answer' = NoAnswer /\ table' = x
    BY <1>6, <1>11 DEF Throw
  <2> QED
    BY <1>2, <1>10, <1>11, <2>1 DEF ExtractorInv
<1>12. CASE ~stops(v)
  <2>1. /\ resultSet' /\ result' = cells(v) /\ query' = q /\ answer' = NoAnswer
        /\ UNCHANGED <<table, extractPc, rowAt>>
    BY <1>6, <1>12 DEF SetResult, sortVars
  <2>2. SearchInv'
    <3>1. Answers(x, q, cells(v)) /\ Len(q) = LastCoord(x)
      BY <1>3, <1>4, <1>8, <1>10, <1>12
    <3>2. table' = x
      BY <2>1
    <3> HIDE DEF q, x, num, i, d, cells
    <3> QED
      BY <1>3, <1>4, <1>8, <2>1, <3>1, <3>2 DEF SearchInv
  <2> QED
    BY <1>1, <1>2, <2>1, <2>2 DEF ExtractorInv
<1> QED
  BY <1>11, <1>12

(* The result, or the cell that every range is left with.                    *)
LEMMA InvGetResult ==
  ASSUME ExtractorInv, GetResult
  PROVE  ExtractorInv'
<1> DEFINE x == table
<1>1. extractPc = "extract" /\ Called > LastCoord(x)
  BY DEF GetResult
<1>2. SearchInv /\ x \in TableInputs
  BY <1>1 DEF ExtractorInv
<1>3. query \in Seq(Int) /\ Len(query) = LastCoord(x) /\ LastCoord(x) \in Nat
  <2>1. query \in Seq(Int) /\ Len(query) <= LastCoord(x) /\ LastCoord(x) \in Nat
    BY <1>2, TableFacts DEF SearchInv
  <2>2. Len(query) \in Nat
    BY <2>1
  <2> QED
    BY <1>1, <2>1, <2>2 DEF Called
<1> DEFINE cells == IF resultSet THEN result ELSE {CellAt(<<>>)}
           found == IF resultSet THEN x.floatPayload ELSE Unique(Dims(x))
<1>4. /\ found => Answers(x, query, cells)
      /\ ~found => ~Answerable(x, query)
  <2>1. CASE resultSet
    BY <1>2, <2>1 DEF SearchInv
  <2>2. CASE ~resultSet
    <3>1. Searched(x, rowAt, query, LastCoord(x), constrainedRanges)
      BY <1>2, <1>3, <2>2 DEF SearchInv
    <3>2. LastCoord(x) + 1 .. LastCoord(x) = {}
      BY <1>3
    <3>3. LastInterpolated(x, rowAt, query, LastCoord(x), constrainedRanges)
      BY <1>2, <1>3, <3>1, <3>2 DEF LastInterpolated, SearchInv
    <3>4. /\ ~AllUnique(constrainedRanges, Dims(x)) => ~Answerable(x, query)
          /\ AllUnique(constrainedRanges, Dims(x)) =>
               Answers(x, query, {CellOf(x, rowAt, constrainedRanges, <<>>)})
      BY <1>2, <3>3, MatchAnswers
    <3>5. Unique(Dims(x)) <=> AllUnique(constrainedRanges, Dims(x))
      BY DEF Unique, AllUnique
    <3>6. CellAt(<<>>) = CellOf(x, rowAt, constrainedRanges, <<>>)
      BY DEF CellAt, CellOf
    <3> QED
      BY <2>2, <3>4, <3>5, <3>6
  <2> QED
    BY <2>1, <2>2
<1>5. CASE found
  <2>1. /\ answer' = [query |-> query, cells |-> cells]
        /\ query' = <<>> /\ ResetExtract
        /\ extractPc' \in {"extract", "done"} /\ UNCHANGED <<table, sortVars>>
    BY <1>5 DEF GetResult
  <2>2. answer'.query = query /\ answer'.cells = cells /\ table' = x /\ rowAt' = rowAt
    BY <2>1 DEF sortVars
  <2>3. Searched(x, rowAt, <<>>, 0, FullRanges(x))
    BY <1>2, NothingSearched DEF SearchInv
  <2>4. SearchInv'
    <3>1. /\ constrainedRanges' = FullRanges(x) /\ ~resultSet' /\ nextCoordToExtractBy' = 1
          /\ DOMAIN FullRanges(x) = Dims(x)
      BY <2>1 DEF ResetExtract, FullRanges
    <3>2. query' \in Seq(Int) /\ Len(query') = 0
      BY <2>1
    <3> HIDE DEF x
    <3> QED
      BY <1>2, <1>3, <2>1, <2>2, <2>3, <3>1, <3>2 DEF SearchInv
  <2>5. Answers(x, answer'.query, answer'.cells)
    BY <1>4, <1>5, <2>2
  <2> HIDE DEF cells
  <2> QED
    BY <1>2, <2>1, <2>2, <2>4, <2>5 DEF ExtractorInv
<1>6. CASE ~found
  <2>1. extractPc' = "thrown" /\ query' = query \o <<>> /\ answer' = NoAnswer /\ table' = x
    BY <1>6 DEF GetResult, Throw
  <2>2. query' = query
    BY <1>3, <2>1
  <2> QED
    BY <1>2, <1>4, <1>6, <2>1, <2>2 DEF ExtractorInv
<1> QED
  BY <1>5, <1>6

(* Two values are passed, and the coordinates are the last two.              *)
LEMMA InvExtractBilinear ==
  ASSUME RegularTables, ExtractorInv, ExtractBilinear
  PROVE  ExtractorInv'
<1> DEFINE x == table
           num == Len(query)
           i == nextCoordToExtractBy
           j == nextCoordToExtractBy + 1
           d == Dim(table, nextCoordToExtractBy)
           e == Dim(table, nextCoordToExtractBy + 1)
           xs == VarValues(nextCoordToExtractBy)
           ys == VarValues(nextCoordToExtractBy + 1)
           ranges == constrainedRanges
<1>1. extractPc = "extract" /\ ~resultSet /\ Called <= LastCoord(x) /\ x.schedule[Called].method = "bilinear"
  BY DEF ExtractBilinear, Extracting
<1>2. SearchInv /\ x \in TableInputs /\ RegularTable(x)
  BY <1>1 DEF ExtractorInv, RegularTables
<1>3. /\ query \in Seq(Int) /\ num \in Nat /\ i = num + 1 /\ j = num + 2 /\ i \in 1 .. LastCoord(x)
      /\ Searched(x, rowAt, query, num, ranges)
      /\ \A f \in Dims(x) : RowsListed(x, f, rowAt[f])
      /\ LastCoord(x) \in Nat
  <2>1. query \in Seq(Int) /\ num \in Nat /\ i = num + 1 /\ Called = num + 1 /\ LastCoord(x) \in Nat
    BY <1>1, <1>2, TableFacts DEF SearchInv, Called
  <2> QED
    BY <1>1, <1>2, <2>1 DEF SearchInv
<1>4. /\ x.schedule[i].method = "bilinear" /\ x.schedule[j].method = "bilinear"
      /\ j = LastCoord(x) /\ Interpolates(x, i) /\ Interpolates(x, j) /\ x.floatPayload
  <2>1. x.schedule[i].method = "bilinear"
    BY <1>1, <1>3 DEF Called
  <2>2. /\ i \in {LastCoord(x) - 1, LastCoord(x)} /\ LastCoord(x) > 1
        /\ x.schedule[LastCoord(x) - 1].method = "bilinear"
        /\ x.schedule[LastCoord(x)].method = "bilinear"
    BY <1>2, <1>3, <2>1, TableFacts
  <2>3. i = LastCoord(x) - 1
    <3> SUFFICES ASSUME i = LastCoord(x)
                 PROVE  FALSE
      BY <2>2
    <3>1. LastCoord(x) - 1 \in 1 .. num
      BY <1>3, <2>2
    <3>2. ~Interpolates(x, LastCoord(x) - 1)
      BY <1>3, <3>1 DEF Searched
    <3> QED
      BY <2>2, <3>2 DEF Interpolates, Interpolations
  <2>4. j = LastCoord(x)
    BY <1>3, <2>3
  <2>5. Interpolates(x, i) /\ Interpolates(x, j)
    BY <2>1, <2>2, <2>4 DEF Interpolates, Interpolations
  <2> QED
    BY <1>2, <1>3, <2>1, <2>2, <2>4, <2>5, TableFacts
<1>5. ~ReturnsMissing(i) /\ ~ReturnsMissing(j)
  <2>1. i \in DOMAIN x.schedule /\ j \in DOMAIN x.schedule
    BY <1>2, <1>3, <1>4, TableFacts
  <2> QED
    BY <1>2, <2>1 DEF RegularTable, ReturnsMissing
<1> DEFINE atX(v) == ApplyExtrapolation(i, v)
           atY(w) == ApplyExtrapolation(j, w)
           stops(v, w) == \/ ~Unique(Dims(x) \ {d, e})
                          \/ IsOutOfBounds(atX(v), xs, RangeOf(i))
                          \/ IsOutOfBounds(atY(w), ys, RangeOf(j))
<1>6. PICK v \in LookupValues, w \in LookupValues :
        IF stops(v, w) THEN Throw(<<v, w>>)
        ELSE \E cells \in BilinearCells(i, atX(v), j, atY(w)) : SetResult(cells, <<v, w>>, j + 1)
  BY <1>5 DEF ExtractBilinear
<1>7. v \in Int /\ w \in Int
  BY ExtractorAssumption
<1> DEFINE q == query \o <<v, w>>
<1>8. /\ q \in Seq(Int) /\ Len(q) = num + 2 /\ q[num + 1] = v /\ q[num + 2] = w
      /\ \A k \in 1 .. num : query[k] = q[k]
  BY <1>3, <1>7, TwoMoreValues
<1>9. LastInterpolated(x, rowAt, q, num, ranges)
  <2>1. \A k \in num + 1 .. LastCoord(x) : k = i \/ k = j
    BY <1>3, <1>4
  <2> HIDE DEF q, x, num, i, j
  <2>2. Searched(x, rowAt, q, num, ranges)
    BY <1>3, <1>8, SearchedSame
  <2>3. Len(q) = LastCoord(x) /\ num <= LastCoord(x)
    BY <1>3, <1>4, <1>8
  <2> QED
    BY <1>3, <1>4, <1>8, <2>1, <2>2, <2>3 DEF LastInterpolated
<1>10. /\ stops(v, w) => ~Answerable(x, q)
       /\ ~stops(v, w) => \A cells \in BilinearCells(i, atX(v), j, atY(w)) : Answers(x, q, cells)
  <2> DEFINE a == atX(v)
             b == atY(w)
             s == LowerBound(xs, ranges[d], a)
             t == LowerBound(ys, ranges[e], b)
  <2>1. Taken(x, rowAt, q, num + 1, ranges, d, ranges[d], xs, a)
    <3>1. \A r \in Rows(x, d) : xs[r] = KeyOf(x, num + 1, rowAt[d][r])
      BY <1>3 DEF VarValues
    <3>2. a = Extrapolated(x, num + 1, xs, ranges[d], q[num + 1])
      BY <1>3, <1>8 DEF ApplyExtrapolation, Extrapolated, RangeOf
    <3>3. d = Dim(x, num + 1)
      BY <1>3
    <3> QED
      BY <3>1, <3>2, <3>3 DEF Taken
  <2>2. Taken(x, rowAt, q, num + 2, ranges, e, ranges[e], ys, b)
    <3>1. \A r \in Rows(x, e) : ys[r] = KeyOf(x, num + 2, rowAt[e][r])
      BY <1>3 DEF VarValues
    <3>2. b = Extrapolated(x, num + 2, ys, ranges[e], q[num + 2])
      BY <1>3, <1>8 DEF ApplyExtrapolation, Extrapolated, RangeOf
    <3>3. e = Dim(x, num + 2)
      BY <1>3
    <3> QED
      BY <3>1, <3>2, <3>3 DEF Taken
  <2>3. stops(v, w) <=> \/ ~AllUnique(ranges, Dims(x) \ {d, e})
                        \/ IsOutOfBounds(a, xs, ranges[d])
                        \/ IsOutOfBounds(b, ys, ranges[e])
    BY DEF Unique, AllUnique, RangeOf
  <2>4. BilinearCells(i, atX(v), j, atY(w)) = CellsOf(x, rowAt, ranges, d, e, xs, ys, a, b, s, t)
    BY Zenon DEF BilinearCells, CellsOf, CellAt, CellOf, Corner, NotANumber, RangeOf
  <2>5. x.schedule[num + 1].method = "bilinear" /\ x.schedule[num + 2].method = "bilinear"
    BY <1>3, <1>4
  <2>6. num + 2 = LastCoord(x)
    BY <1>3, <1>4
  <2>7. s = LowerBound(xs, ranges[d], a) /\ t = LowerBound(ys, ranges[e], b)
    OBVIOUS
  <2> HIDE DEF a, b, s, t, stops, xs, ys, q, x, num, i, j, d, e, ranges
  <2>8. LET stuck == \/ ~AllUnique(ranges, Dims(x) \ {d, e})
                     \/ IsOutOfBounds(a, xs, ranges[d])
                     \/ IsOutOfBounds(b, ys, ranges[e])
        IN /\ stuck => ~Answerable(x, q)
           /\ ~stuck => \A cells \in CellsOf(x, rowAt, ranges, d, e, xs, ys, a, b, s, t) :
                          Answers(x, q, cells)
    BY <1>2, <1>3, <1>9, <2>1, <2>2, <2>5, <2>6, <2>7, BilinearInterpolates
  <2> QED
    BY <2>3, <2>4, <2>8
<1>11. CASE stops(v, w)
  <2>1. extractPc' = "thrown" /\ query' = q /\ answer' = NoAnswer /\ table' = x
    BY <1>6, <1>11 DEF Throw
  <2> QED
    BY <1>2, <1>10, <1>11, <2>1 DEF ExtractorInv
<1>12. CASE ~stops(v, w)
  <2>1. PICK cells \in BilinearCells(i, atX(v), j, atY(w)) : SetResult(cells, <<v, w>>, j + 1)
    BY <1>6, <1>12
  <2>2. /\ resultSet' /\ result' = cells /\ query' = q /\ answer' = NoAnswer
        /\ UNCHANGED <<table, extractPc, rowAt>>
    BY <2>1 DEF SetResult, sortVars
  <2>3. SearchInv'
    <3>1. Answers(x, q, cells) /\ Len(q) = LastCoord(x)
      BY <1>3, <1>4, <1>8, <1>10, <1>12
    <3>2. table' = x
      BY <2>2
    <3> HIDE DEF q, x, num, i, j, d, e
    <3> QED
      BY <1>3, <1>4, <1>8, <2>2, <3>1, <3>2 DEF SearchInv
  <2> QED
    BY <1>1, <1>2, <2>2, <2>3 DEF ExtractorInv
<1> QED
  BY <1>11, <1>12

LEMMA InvExtractStutters ==
  ASSUME ExtractorInv, UNCHANGED lookupVars
  PROVE  ExtractorInv'
BY DEF ExtractorInv, SortInv, SearchInv, lookupVars, sortVars, searchVars

LEMMA InvExtractNext ==
  ASSUME RegularTables, ExtractorInv, ExtractNext
  PROVE  ExtractorInv'
<1>1. CASE ScheduleSort
  BY <1>1, InvScheduleSort
<1>2. CASE SortRows
  BY <1>2, InvSortRows
<1>3. CASE Ignore
  BY <1>3, InvIgnore
<1>4. CASE ExtractMatch
  BY <1>4, InvExtractMatch
<1>5. CASE ExtractLinear
  BY <1>5, InvExtractLinear
<1>6. CASE ExtractBilinear
  BY <1>6, InvExtractBilinear
<1>7. CASE GetResult
  BY <1>7, InvGetResult
<1>8. CASE ExtractStopped
  BY <1>8, InvExtractStutters DEF ExtractStopped
<1> QED
  BY <1>1, <1>2, <1>3, <1>4, <1>5, <1>6, <1>7, <1>8 DEF ExtractNext

(* The rows of a range are those listed at its positions.                    *)
LEMMA ExtractorInvSuffices ==
  ASSUME ExtractorInv
  PROVE  ExtractsMatches
<1>1. ASSUME extractPc = "extract", ~resultSet, NEW d \in Dims(table)
      PROVE  {rowAt[d][p] : p \in Positions(constrainedRanges[d])} =
               Selected(table, query, Len(query))[d]
  <2>1. RangeHolds(table, d, rowAt[d], constrainedRanges[d], Selected(table, query, Len(query))[d])
    BY <1>1 DEF ExtractorInv, SearchInv, Searched
  <2>2. PICK a \in Nat, b \in Nat :
          /\ constrainedRanges[d] = <<a, b>>
          /\ Selected(table, query, Len(query))[d] = RowsAt(rowAt[d], a, b)
    BY <2>1 DEF RangeHolds
  <2>3. Positions(constrainedRanges[d]) = a .. b - 1
    BY <2>2 DEF Positions
  <2> QED
    BY <2>2, <2>3 DEF RowsAt
<1> QED
  BY <1>1 DEF ExtractorInv, ExtractsMatches

(* A file that asks for no extrapolation to `missing', in which the floats   *)
(* of a dimension are matched last and every value that a bilinear           *)
(* interpolation lies between is on one row: the range of each dimension     *)
(* holds the rows that match the values passed so far, extract throws only   *)
(* if they have no answer, and getResult returns an answer to them           *)
(* (DataExtractor::sort, extract and getResult).                            *)
THEOREM ExtractionMatches ==
  ASSUME RegularTables
  PROVE  ExtractSpec => []ExtractsMatches
<1>1. ExtractInit => ExtractorInv
  BY ExtractorInvInit
<1>2. ExtractorInv /\ [ExtractNext]_lookupVars => ExtractorInv'
  BY InvExtractNext, InvExtractStutters
<1>3. ExtractorInv => ExtractsMatches
  BY ExtractorInvSuffices
<1> QED
  BY <1>1, <1>2, <1>3, PTL DEF ExtractSpec

=============================================================================
