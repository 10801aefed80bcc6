--------------------------- MODULE BandedDistance ---------------------------
(***************************************************************************)
(* bandedDistance (levenshtein.ts): the edit distance of two names, or     *)
(* nothing past maxK, computed row by row inside the band around the       *)
(* diagonal.  The two rows are reused, so a cell outside the band holds    *)
(* whatever an earlier row left there unless the code resets it.           *)
(***************************************************************************)
EXTENDS Integers, Sequences, SequencesExt, FiniteSetsExt, NameRules

CONSTANTS Alphabet, MaxLength

VARIABLES a, b, maxK, row, previous, current, result

vars == <<a, b, maxK, row, previous, current, result>>

Running == -1
Beyond == maxK + 1

Init ==
  /\ a \in BoundedSeq(Alphabet, MaxLength) /\ b \in BoundedSeq(Alphabet, MaxLength)
  /\ maxK \in {1, 2}
  /\ row = 0
  /\ previous = [c \in 0..Len(b) |-> IF c <= maxK THEN c ELSE Beyond]
  /\ current = [c \in 0..Len(b) |-> Beyond]
  /\ result = IF Len(a) - Len(b) > maxK \/ Len(b) - Len(a) > maxK THEN TooFar
              ELSE IF a = b THEN 0 ELSE Running

Low(r) == Max({1, r - maxK})
High(r) == Min({r + maxK, Len(b)})

\* Mutant of BandEdges: the cell left of the band keeps an older row's value.
RightEdgeOnly(r) ==
  [c \in DOMAIN current |->
     IF c = 0 /\ r <= maxK THEN r ELSE IF c = High(r) + 1 THEN Beyond ELSE current[c]]

(* The reused row with the two cells beside the band reset.                *)
BandEdges(r) ==
  [c \in DOMAIN current |->
     CASE c = Low(r) - 1 -> IF r <= maxK THEN r ELSE Beyond
       [] c = High(r) + 1 -> Beyond
       [] OTHER -> current[c]]

Cells(r) ==
  LET edge == BandEdges(r)
      cell[c \in (Low(r) - 1)..High(r)] ==
        IF c = Low(r) - 1 THEN edge[c]
        ELSE Min({previous[c - 1] + (IF a[r] = b[c] THEN 0 ELSE 1),
                  previous[c] + 1, cell[c - 1] + 1, Beyond})
  IN [c \in DOMAIN current |-> IF c \in Low(r)..High(r) THEN cell[c] ELSE edge[c]]

RowBest(r, cells) ==
  Min({cells[c] : c \in Low(r)..High(r)} \cup {IF r <= maxK THEN r ELSE Beyond})

Row ==
  /\ result = Running /\ row < Len(a)
  /\ row' = row + 1
  /\ LET cells == Cells(row')
     IN /\ previous' = cells /\ current' = previous
        /\ result' = IF RowBest(row', cells) > maxK THEN TooFar ELSE Running
  /\ UNCHANGED <<a, b, maxK>>

Finish ==
  /\ result = Running /\ row = Len(a)
  /\ result' = IF previous[Len(b)] > maxK THEN TooFar ELSE previous[Len(b)]
  /\ UNCHANGED <<a, b, maxK, row, previous, current>>

Next == Row \/ Finish \/ (result # Running /\ UNCHANGED vars)

Spec == Init /\ [][Next]_vars

-----------------------------------------------------------------------------
(* The banded walk answers what the full table answers, for every pair of  *)
(* names and either band: the cells it never computes, the rows it reuses  *)
(* and its early stop lose nothing.                                        *)
BandedIsLevenshtein == result # Running => result = Within(a, b, maxK)
=============================================================================
