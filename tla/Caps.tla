-------------------------------- MODULE Caps --------------------------------
(***************************************************************************)
(* caps.cap and record._cap_by_findings: cutting a list to a limit without *)
(* letting one kind of item crowd out the others.                          *)
(*                                                                         *)
(* An item is its place in sort order, a number; sort keys are total, so   *)
(* no two items share one.  What the code keeps is a set: it is sorted     *)
(* again on the way out.                                                   *)
(***************************************************************************)
EXTENDS Integers, FiniteSets

\* The n lowest of S, or all of S when there are no more.
Lowest(S, n) == {i \in S : Cardinality({j \in S : j < i}) < n}

\* Whatever of S the room left allows, in sort order.
Fill(kept, S, limit) == kept \cup Lowest(S \ kept, limit - Cardinality(kept))

\* The first of each key in S, but for the keys already seen.
Firsts(S, key, seen) ==
  {i \in S : key[i] \notin seen /\ \A j \in S : key[j] = key[i] => i <= j}

\* Mutant: nothing is pinned.
CapUnpinned(items, key, pinned, limit) ==
  IF Cardinality(items) <= limit THEN items
  ELSE Fill(Fill({}, Firsts(items, key, {}), limit), items, limit)

\* Mutant: the two passes over the keys are left out.
CapPrefix(items, key, pinned, limit) == Lowest(items, limit)

\* cap: one of each key among the pinned, one of each other key, the other
\* pinned, the others.
Cap(items, key, pinned, limit) ==
  IF Cardinality(items) <= limit THEN items
  ELSE LET rest == items \ pinned
           claimed == Fill({}, Firsts(pinned, key, {}), limit)
           every == Fill(claimed, Firsts(rest, key, {key[i] : i \in claimed}), limit)
       IN Fill(Fill(every, pinned, limit), rest, limit)

\* The lowest of a non-empty set.
Least(S) == CHOOSE i \in S : \A j \in S : i <= j

\* Mutant: what any finding refers to, in path order.
CapByPath(items, groups, max) ==
  IF Cardinality(items) <= max THEN items
  ELSE Fill(Lowest(UNION {groups[g] : g \in DOMAIN groups}, max), items, max)

\* _cap_by_findings: one item of each group, group by group, then whatever a
\* group refers to, then the others.  groups: for the findings in order, the
\* items each refers to, none of them empty.
CapByFindings(items, groups, max) ==
  IF Cardinality(items) <= max THEN items
  ELSE LET lead == [g \in DOMAIN groups |-> Least(groups[g])]
           turns == {g \in DOMAIN groups : \A h \in DOMAIN groups : lead[h] = lead[g] => g <= h}
           first == {lead[g] : g \in Lowest(turns, max)}
           referred == UNION {groups[g] : g \in DOMAIN groups}
       IN Fill(Fill(first, referred, max), items, max)
=============================================================================
