--------------------------- MODULE RecursiveSplitter ---------------------------
(***************************************************************************)
(* ufo::RecursiveSplitter, on which the thinning filters, the track checks *)
(* and the buddy pair finder rest: it partitions the ids 0 .. n - 1 into   *)
(* classes of ids that are equal under every vector of categories it has   *)
(* been given.                                                             *)
(*                                                                         *)
(* The classes are kept as segments of one permutation of the ids, and the *)
(* segments of two or more ids as a linked list threaded through a second  *)
(* array of the same size.  groupBy() walks that list and writes the       *)
(* refined list into the same array as it goes.                            *)
(***************************************************************************)
EXTENDS Integers, FiniteSets, Sequences

CONSTANTS Sizes,      \* the numbers of ids a splitter may be created with
          Categories, \* the values of the vectors of categories and of sort keys
          MaxGroupBy, \* bound on the calls of groupBy
          MaxReorder  \* bound on the calls of sortGroupsBy and shuffleGroups

ASSUME SplitterAssumption ==
  /\ Sizes \subseteq Nat
  /\ Categories \subseteq Int
  /\ MaxGroupBy \in Nat /\ MaxReorder \in Nat

VARIABLES
  n,                    \* the number of ids
  ops,                  \* opsCompatibilityMode_: sorting is not stable
  orderedIds,           \* orderedIds_
  encodedGroups,        \* encodedGroups_
  pc,                   \* where the call of groupBy is; "idle" between calls
  categories,           \* the argument of groupBy
  lastIndexInGroup,     \* end of the old group being split
  lastIndexInLastGroup, \* end of the last new group written
  newFirstIndex,        \* start of the new group being found
  newLastIndex,         \* candidate for its end
  given,                \* the vectors of categories given so far (history)
  before,               \* encodedGroups when groupBy was called (history)
  reordered             \* calls of sortGroupsBy and shuffleGroups (history)

arrays  == <<orderedIds, encodedGroups>>
cursors == <<lastIndexInGroup, lastIndexInLastGroup, newFirstIndex, newLastIndex>>
vars    == <<n, ops, arrays, pc, categories, cursors, given, before, reordered>>

Ids     == 0 .. n - 1
Vectors == [Ids -> Categories]

TypeOK ==
  /\ n \in Sizes /\ ops \in BOOLEAN
  /\ orderedIds \in [Ids -> Ids]
  /\ encodedGroups \in [Ids -> 0 .. n]
  /\ pc \in {"idle", "outer", "inner"}
  /\ categories \in Vectors
  /\ lastIndexInGroup \in -1 .. n - 1
  /\ lastIndexInLastGroup \in -1 .. n - 1
  /\ newFirstIndex \in 0 .. n /\ newLastIndex \in 0 .. n
  /\ given \in Seq(Vectors)
  /\ before \in [Ids -> 0 .. n]
  /\ reordered \in 0 .. MaxReorder

-----------------------------------------------------------------------------
(* The iterators, which read the linked list.                              *)

(* operator++: the first index of the next group of two or more, n at the end. *)
NextFirst(first) ==
  LET last == encodedGroups[first + 1] IN
  IF last + 1 < n THEN encodedGroups[last + 1] ELSE n

First == IF n = 0 THEN 0 ELSE encodedGroups[0]

IdsAt(first, last) == {orderedIds[i] : i \in first .. last}

(* The first indices a MultiElementGroupIterator visits: what one comes to  *)
(* from the first group.                                                   *)
Visited ==
  {f \in Ids : \A S \in SUBSET (0 .. n) :
     First \in S /\ (\A g \in S : g + 1 < n => NextFirst(g) \in S) => f \in S}

Segments == {<<f, encodedGroups[f + 1]>> : f \in Visited}

multiElementGroups == {IdsAt(s[1], s[2]) : s \in Segments}

(* The groups a GroupIterator visits: those, and one of a single id for    *)
(* every index between two of them.                                        *)
groups ==
  LET inGroup == UNION {s[1] .. s[2] : s \in Segments} IN
  multiElementGroups \cup {{orderedIds[i]} : i \in Ids \ inGroup}

-----------------------------------------------------------------------------
Init ==
  /\ n \in Sizes /\ ops \in BOOLEAN
  /\ orderedIds = [i \in Ids |-> i]
  /\ encodedGroups = [i \in Ids |-> IF i = 0 /\ n = 1 THEN n
                                    ELSE IF i = 1 THEN n - 1 ELSE 0]
  /\ pc = "idle"
  /\ categories \in {[i \in Ids |-> c] : c \in Categories}
  /\ lastIndexInGroup = -1 /\ lastIndexInLastGroup = -1
  /\ newFirstIndex = 0 /\ newLastIndex = 0
  /\ given = <<>>
  /\ before = encodedGroups
  /\ reordered = 0

(* A rearrangement q of the ids: q[i] is the index the id at i is taken from. *)
Permuted(q) == [i \in Ids |-> orderedIds[q[i]]]

Bijections == UNION
  {{q \in [0 .. m - 1 -> 0 .. m - 1] : \A i, j \in 0 .. m - 1 : q[i] = q[j] => i = j}
     : m \in Sizes}

Rearrangements == {q \in Bijections : DOMAIN q = Ids}

MovesWithin(q, first, last) == \A i \in Ids :
  IF i \in first .. last THEN q[i] \in first .. last ELSE q[i] = i

(* Mutant: the sort is not stable.                                         *)
IsSortedUnstable(q, key, first, last) ==
  \A i, j \in first .. last : i < j => key[orderedIds[q[i]]] <= key[orderedIds[q[j]]]

(* std::stable_sort has one result, the heap sort of the OPS any result    *)
(* whose keys ascend.                                                      *)
IsSortedStable(q, key, first, last) ==
  \A i, j \in first .. last :
    i < j => \/ key[orderedIds[q[i]]] < key[orderedIds[q[j]]]
             \/ /\ key[orderedIds[q[i]]] = key[orderedIds[q[j]]]
                /\ ops \/ q[i] < q[j]

(* Calls of groupBy: the loop over the old groups starts.                  *)
GroupBy ==
  /\ pc = "idle" /\ Len(given) < MaxGroupBy
  /\ categories' \in Vectors
  /\ lastIndexInGroup' = -1 /\ lastIndexInLastGroup' = -1
  /\ given' = Append(given, categories')
  /\ before' = encodedGroups
  /\ pc' = "outer"
  /\ UNCHANGED <<n, ops, arrays, newFirstIndex, newLastIndex, reordered>>

OldGroupLeft ==
  lastIndexInGroup + 1 < n /\ encodedGroups[lastIndexInGroup + 1] + 1 < n

(* The next old group is found and its ids are sorted by category.         *)
NextGroup ==
  /\ pc = "outer" /\ OldGroupLeft
  /\ LET first == encodedGroups[lastIndexInGroup + 1]
         last  == encodedGroups[first + 1]
     IN /\ lastIndexInGroup' = last
        /\ \E q \in Rearrangements :
             /\ MovesWithin(q, first, last) /\ IsSortedStable(q, categories, first, last)
             /\ orderedIds' = Permuted(q)
        /\ newFirstIndex' = first /\ newLastIndex' = first
  /\ pc' = "inner"
  /\ UNCHANGED <<n, ops, encodedGroups, categories, lastIndexInLastGroup,
                 given, before, reordered>>

CategoryContinues ==
  /\ newLastIndex # lastIndexInGroup
  /\ categories[orderedIds[newLastIndex]] = categories[orderedIds[newLastIndex + 1]]

Advance ==
  /\ newLastIndex' = newLastIndex + 1
  /\ pc' = IF newLastIndex = lastIndexInGroup THEN "outer" ELSE "inner"
  /\ UNCHANGED <<n, ops, orderedIds, categories, lastIndexInGroup,
                 given, before, reordered>>

(* Mutant: a member of the group is looked at again and again.             *)
ContinueWithoutStep ==
  /\ pc = "inner" /\ CategoryContinues
  /\ UNCHANGED vars

(* One iteration of the loop over the ids of the old group: in the midst    *)
(* of a new group, ...                                                      *)
Continue ==
  /\ pc = "inner" /\ CategoryContinues
  /\ Advance
  /\ UNCHANGED <<encodedGroups, newFirstIndex, lastIndexInLastGroup>>

(* ... at the end of one of a single id, ...                               *)
EndSingle ==
  /\ pc = "inner" /\ ~CategoryContinues /\ newLastIndex = newFirstIndex
  /\ newFirstIndex' = newLastIndex + 1
  /\ Advance
  /\ UNCHANGED <<encodedGroups, lastIndexInLastGroup>>

(* Mutant: the end of a group is linked to itself when the group is written. *)
EndGroupWritesAhead ==
  /\ pc = "inner" /\ ~CategoryContinues /\ newLastIndex > newFirstIndex
  /\ encodedGroups' = [k \in Ids |->
       IF k = newLastIndex + 1 THEN n
       ELSE IF k = newFirstIndex + 1 THEN newLastIndex
       ELSE IF k = lastIndexInLastGroup + 1 THEN newFirstIndex ELSE encodedGroups[k]]
  /\ lastIndexInLastGroup' = newLastIndex
  /\ newFirstIndex' = newLastIndex + 1
  /\ Advance

(* ... or at the end of one of several, which enters the list.             *)
EndGroup ==
  /\ pc = "inner" /\ ~CategoryContinues /\ newLastIndex > newFirstIndex
  /\ encodedGroups' = [encodedGroups EXCEPT ![lastIndexInLastGroup + 1] = newFirstIndex,
                                            ![newFirstIndex + 1] = newLastIndex]
  /\ lastIndexInLastGroup' = newLastIndex
  /\ newFirstIndex' = newLastIndex + 1
  /\ Advance

(* Mutant: the list is not terminated.                                     *)
ReturnOpenList ==
  /\ pc = "outer" /\ ~OldGroupLeft
  /\ pc' = "idle"
  /\ UNCHANGED <<n, ops, arrays, categories, cursors, given, before, reordered>>

(* No old group is left: the list is terminated.                           *)
Return ==
  /\ pc = "outer" /\ ~OldGroupLeft
  /\ encodedGroups' = [i \in Ids |-> IF i = lastIndexInLastGroup + 1
                                       THEN n ELSE encodedGroups[i]]
  /\ pc' = "idle"
  /\ UNCHANGED <<n, ops, orderedIds, categories, cursors, given, before, reordered>>

(* The rearrangements that move ids only within their group.               *)
WithinGroups ==
  LET ranges == {s[1] .. s[2] : s \in Segments} IN
  {q \in Rearrangements :
     \A i \in Ids : q[i] = i \/ \E r \in ranges : {i, q[i]} \subseteq r}

Reorder(q) ==
  /\ orderedIds' = Permuted(q)
  /\ reordered' = reordered + 1
  /\ UNCHANGED <<n, ops, encodedGroups, pc, categories, cursors, given, before>>

SortGroupsBy ==
  /\ pc = "idle" /\ reordered < MaxReorder
  /\ \E q \in WithinGroups, key \in Vectors :
    /\ \A s \in Segments : IsSortedStable(q, key, s[1], s[2])
    /\ Reorder(q)

ShuffleGroups ==
  /\ pc = "idle" /\ reordered < MaxReorder
  /\ \E q \in WithinGroups : Reorder(q)

Stopped == pc = "idle" /\ UNCHANGED vars

Next == \/ GroupBy \/ NextGroup \/ Continue \/ EndSingle \/ EndGroup \/ Return
        \/ SortGroupsBy \/ ShuffleGroups
        \/ Stopped

(* A call of groupBy runs on one thread, to its end.                       *)
Fairness == WF_vars(NextGroup \/ Continue \/ EndSingle \/ EndGroup \/ Return)

Spec == Init /\ [][Next]_vars /\ Fairness

-----------------------------------------------------------------------------
(* Properties.                                                             *)

Equivalent(a, b) == \A k \in DOMAIN given : given[k][a] = given[k][b]

(* The partition groupBy promises: RecursiveSplitter.h says that the ids   *)
(* of a class are equal under every criterion.                             *)
Classes == {{b \in Ids : Equivalent(a, b)} : a \in Ids}

(* Between calls the iterators visit exactly the classes of ids equal      *)
(* under all the vectors of categories given so far, and, of those, all    *)
(* that have two ids or more: no id is lost, none appears in two groups,   *)
(* and the walk ends.                                                      *)
GroupsAreClasses ==
  pc = "idle" => /\ groups = Classes
                 /\ multiElementGroups = {c \in Classes : Cardinality(c) > 1}

(* The refined list is written into the array the old list is still being  *)
(* read from: no link that is yet to be read has been overwritten.         *)
UnreadLinksKept ==
  pc # "idle" => \A i \in Ids : i > lastIndexInGroup => encodedGroups[i] = before[i]

(* Without the OPS mode, and as long as nobody reorders the groups, ids    *)
(* ascend in every group: the filters' choice of the first of equally good *)
(* observations is reproducible.                                           *)
IdsAscendInGroups ==
  pc = "idle" /\ ~ops /\ reordered = 0 =>
    \A s \in Segments : \A i, j \in s[1] .. s[2] : i < j => orderedIds[i] < orderedIds[j]

(* groupBy returns, whatever the groups and the categories are.            *)
GroupByReturns == pc # "idle" ~> pc = "idle"

=============================================================================
