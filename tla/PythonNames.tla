----------------------------- MODULE PythonNames ----------------------------
(***************************************************************************)
(* The Python name checks: which names of the manifests and of the         *)
(* lockfile are new (python-delta.ts, pypiCandidates), and the resemblance *)
(* of each to the other names the repository declares                      *)
(* (checks/python-typosquat.ts).  Two manifests, one of them beside the    *)
(* lockfile, are enough for every anchor a name can have.                  *)
(***************************************************************************)
EXTENDS NameRules, Naturals, FiniteSets, Sequences, SequencesExt

CONSTANTS
  Changes,           \* [before, after : sides, trusted : what a second comparison side declares]
  Near, Alphabetic,  \* KEYBOARD_NEIGHBOURS; the letters in string order
  ShortLength, MinTarget

(* A side is [beside, apart, lock, lockRead].  Names are over one alphabet *)
(* with an order, and a file declares finitely many.                       *)
PythonConstants ==
  /\ \A c, d \in DOMAIN Alphabetic : Alphabetic[c] \in Nat /\ (Alphabetic[c] = Alphabetic[d] => c = d)
  /\ \A c \in Changes :
       /\ IsFiniteSet(c.after.beside) /\ IsFiniteSet(c.after.apart) /\ IsFiniteSet(DOMAIN c.after.lock)
       /\ c.after.beside \cup c.after.apart \cup DOMAIN c.after.lock \subseteq Seq(DOMAIN Alphabetic)

VARIABLES before, after, trusted, pending, reported

vars == <<before, after, trusted, pending, reported>>

(* A lock entry is "index", "excluded" (a path, git or URL source) or      *)
(* absent from the function.                                               *)
LockNames(side) == IF side.lockRead THEN DOMAIN side.lock ELSE {}
SideNames(side) ==
  side.beside \cup side.apart \cup {n \in LockNames(side) : side.lock[n] # "excluded"}

JudgedNames == SideNames(after)
ComparisonNames == SideNames(before) \cup trusted

(* The manifest walk: a dependency its manifest did not have.              *)
ManifestNames ==
  {[name |-> n, anchor |-> "beside"] : n \in after.beside \ before.beside}
    \cup {[name |-> n, anchor |-> "apart"] : n \in after.apart \ before.apart}

(* The lockfile walk: an entry of the index whose name the same file did   *)
(* not record, whatever source it recorded it with.                        *)
NewLockNames == {n \in LockNames(after) : after.lock[n] = "index" /\ n \notin LockNames(before)}

Candidates ==
  ManifestNames \cup
  {[name |-> n, anchor |-> IF n \in after.beside THEN "beside" ELSE "lockfile"] : n \in NewLockNames}

NewSet == {c.name : c \in Candidates}
AnchorCount(n) == Cardinality({c \in Candidates : c.name = n})

Precedes(m, n) ==
  \/ IsStrictPrefix(m, n)
  \/ \E i \in DOMAIN m \cap DOMAIN n :
       /\ \A j \in 1..(i - 1) : m[j] = n[j]
       /\ Alphabetic[m[i]] < Alphabetic[n[i]]

Band(n) == IF Len(n) <= ShortLength THEN 1 ELSE 2

Distance(n, Known) ==
  LET apart == [t \in Known |-> Within(n, t, Band(n))]
      close == {t \in Known : apart[t] # TooFar}
      best == {t \in close : \A u \in close : apart[t] <= apart[u]}
  IN {t \in best : \A u \in best : u = t \/ Precedes(t, u)}

(* matchPythonName: the target, as a set of at most one.                   *)
Match(n) ==
  LET Known == {t \in JudgedNames \cup ComparisonNames : Len(t) >= MinTarget} \ {n}
      collapsed == {CollapseRuns(n)} \cap Known
      tried == <<IF collapsed # {} THEN collapsed ELSE FirstHit(RepeatsDropped(n), Known),
                 FirstHit(Transposed(n), Known),
                 FirstHit(KeyNeighbours(n, Near), Known),
                 Distance(n, Known)>>
      hits == {i \in DOMAIN tried : tried[i] # {}}
  IN UNION {tried[i] : i \in {i \in hits : \A j \in hits : i <= j}}

\* Mutant of Outranks: a tie of the counts is not broken by the name.
TiesOutrank(t, n) ==
  IF (t \in ComparisonNames) # (n \in ComparisonNames) THEN t \in ComparisonNames
  ELSE AnchorCount(t) >= AnchorCount(n)

Outranks(t, n) ==
  IF (t \in ComparisonNames) # (n \in ComparisonNames) THEN t \in ComparisonNames
  ELSE IF AnchorCount(t) # AnchorCount(n) THEN AnchorCount(t) > AnchorCount(n)
  ELSE Precedes(t, n)

LeftToTheOther(t, n) == t \in NewSet /\ n \notin ComparisonNames /\ ~Outranks(t, n)

Init ==
  /\ \E c \in Changes : before = c.before /\ after = c.after /\ trusted = c.trusted
  /\ pending = Candidates
  /\ reported = {}

(* The order of the candidates changes nothing a report reads.             *)
Judge ==
  /\ pending # {}
  /\ LET c == CHOOSE c \in pending : TRUE
     IN /\ pending' = pending \ {c}
        /\ reported' = reported \cup
             {[name |-> c.name, anchor |-> c.anchor, target |-> t] :
                t \in {t \in Match(c.name) : ~LeftToTheOther(t, c.name)}}
  /\ UNCHANGED <<before, after, trusted>>

Next == Judge \/ (pending = {} /\ UNCHANGED vars)

Spec == Init /\ [][Next]_vars

-----------------------------------------------------------------------------
Reported(n, t) == \E r \in reported : r.name = n /\ r.target = t

(* Two new names that are each other's match are one fact: exactly one of  *)
(* them is reported, the same one wherever the names are declared.         *)
MutualPairOnce ==
  pending = {} =>
    \A m \in NewSet \ ComparisonNames : \A n \in Match(m) \cap (NewSet \ ComparisonNames) :
      m \in Match(n) => (Reported(m, n) <=> ~Reported(n, m))

(* What the header of python-typosquat.ts says: when both names of a       *)
(* resembling pair are new, the pair is reported.  (Both are long enough   *)
(* to be a target.)                                                        *)
ResemblingPairIsReported ==
  pending = {} =>
    \A m \in NewSet : \A n \in Match(m) \cap NewSet :
      Len(m) >= MinTarget => (\E t \in NewSet : Reported(m, t) \/ Reported(n, t))

(* What it says next: against the name the comparison side declared.       *)
ReportedAgainstTheDeclared ==
  \A m, n \in NewSet : m \in ComparisonNames /\ n \notin ComparisonNames => ~Reported(m, n)
=============================================================================
