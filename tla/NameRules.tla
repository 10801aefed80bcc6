----------------------------- MODULE NameRules ------------------------------
(***************************************************************************)
(* The string transforms the npm and the Python resemblance checks share   *)
(* (checks/typosquat.ts, checks/python-typosquat.ts), and the edit         *)
(* distance that levenshtein.ts computes.  A name is a sequence of         *)
(* characters.                                                             *)
(***************************************************************************)
EXTENDS Integers, Sequences, SequencesExt, FiniteSetsExt

TooFar == 99

(* The full table of edit distances between the prefixes of a and of b,    *)
(* a row at a time: table[i][j] is that of the first i and the first j.    *)
NextRow(above, i, a, b) ==
  LET cell[j \in 0..Len(b)] ==
        IF j = 0 THEN i
        ELSE Min({cell[j - 1] + 1, above[j] + 1, above[j - 1] + (IF a[i] = b[j] THEN 0 ELSE 1)})
  IN [j \in 0..Len(b) |-> cell[j]]

EditDistance(a, b) ==
  LET table[i \in 0..Len(a)] ==
        IF i = 0 THEN [j \in 0..Len(b) |-> j] ELSE NextRow(table[i - 1], i, a, b)
  IN table[Len(a)][Len(b)]

(* What bandedDistance returns: BandedDistance is its row-by-row model.    *)
Within(a, b, k) ==
  IF Len(a) - Len(b) \notin (-k)..k THEN TooFar
  ELSE LET d == EditDistance(a, b) IN IF d > k THEN TooFar ELSE d

(* The positions in S, from the first to the last.                         *)
InOrder(S) == [k \in 1..Cardinality(S) |-> CHOOSE i \in S : Cardinality({j \in S : j <= i}) = k]

Moves(n) == {i \in 2..Len(n) : n[i] # n[i - 1]}
Repeats(n) == {i \in 2..Len(n) : n[i] = n[i - 1]}

(* Each transform lists its candidate names in the order they are tried.   *)
CollapseRuns(n) ==
  LET at == InOrder(Moves(n)) IN <<n[1]>> \o [k \in DOMAIN at |-> n[at[k]]]

RepeatsDropped(n) ==
  LET at == InOrder(Repeats(n)) IN [k \in DOMAIN at |-> RemoveAt(n, at[k])]

Transposed(n) ==
  LET at == InOrder(Moves(n))
  IN [k \in DOMAIN at |-> [n EXCEPT ![at[k] - 1] = n[at[k]], ![at[k]] = n[at[k] - 1]]]

(* near[c]: the neighbouring keys of c, in the order they are tried.       *)
KeyNeighbours(n, near) ==
  FlattenSeq([i \in DOMAIN n |-> [k \in DOMAIN near[n[i]] |-> [n EXCEPT ![i] = near[n[i]][k]]]])

(* The first candidate that is one of the targets, as a set.               *)
FirstHit(candidates, Targets) ==
  LET hits == {k \in DOMAIN candidates : candidates[k] \in Targets}
  IN {candidates[k] : k \in {k \in hits : \A j \in hits : k <= j}}
=============================================================================
