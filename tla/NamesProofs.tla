---------------------------- MODULE NamesProofs -----------------------------
(***************************************************************************)
(* What is proved of the names:                                            *)
(*   - whatever the lockfiles, the manifests and the order of the pull     *)
(*     requests, nothing the base branch fetches from a registry escaped   *)
(*     the name checks;                                                    *)
(*   - of two new Python names that resemble each other exactly one is     *)
(*     reported, for any names, manifests and alphabet;                    *)
(*   - the banded walk over two names answers the edit distance of the     *)
(*     full table, for names of any length over any alphabet;              *)
(*   - what some rule calls like a popular name is reported unless it      *)
(*     stands behind a sibling, and what is reported is alike, for any     *)
(*     names, popularity lists and keyboard.                               *)
(***************************************************************************)
EXTENDS MCNames, WellFoundedInduction, FiniteSetTheorems, SequenceTheorems, TLAPS

(* What keeps the theorem inductive besides itself: an alias line of the   *)
(* base has had its target judged, so a tarball that only the line vouches *)
(* for is one of a judged package.                                         *)
DeclaredWasJudged ==
  \A k \in Keys : declares[k] # NoName /\ declares[k] # k => declares[k] \in judged \cup Local

IInv == TypeOK /\ InstalledWasJudged /\ DeclaredWasJudged

(* An entry that counts as the registry install of a name fetches it.      *)
LEMMA InstalledIsFetched ==
  ASSUME NEW e \in Entries, NEW at \in Packages, NEW nm \in Packages,
         InstalledFromRegistry(e, at, nm)
  PROVE  nm \in Fetched(e, at)
BY InstalledNamesConstants, SMT DEF InstalledFromRegistry, Fetched, Maybe

(* Two entries of one resolution fetch the same package.                   *)
LEMMA SameResolutionSameFetch ==
  ASSUME NEW d \in Entries, NEW e \in Entries, NEW at,
         ResolutionIdentity(d) = ResolutionIdentity(e)
  PROVE  Fetched(d, at) = Fetched(e, at)
BY DEF ResolutionIdentity, Fetched

(* The entries a new one is compared with are entries of its key.          *)
LEMMA EarlierIsOfTheKey ==
  ASSUME TypeOK, NEW l \in Lockfiles, NEW p \in Paths, NEW was \in Earlier(l, p)
  PROVE  \E q \in Paths : lock[q] = was /\ was # NoEntry /\ KeyOf[q] = KeyOf[p]
<1>1. CASE format = "npm"
  BY <1>1 DEF Earlier
<1>2. CASE format # "npm"
  <2>1. Candidates(l[p], At(lock, KeyOf[p])) \subseteq At(lock, KeyOf[p])
    BY DEF Candidates, Narrow
  <2> QED BY <1>2, <2>1 DEF Earlier, At
<1> QED BY <1>1, <1>2

(* A name that is not new at a place was fetched from there, or from an    *)
(* entry of the same key, and had been judged.                             *)
LEMMA NotNewWasJudged ==
  ASSUME IInv, NEW l \in Lockfiles, NEW p \in Paths, NEW n \in Packages, ~NewHere(l, p, n)
  PROVE  n \in judged \/ Aliased(n, p)
<1>1. PICK was \in Earlier(l, p) : InstalledFromRegistry(was, KeyOf[p], n)
  BY DEF NewHere
<1>2. PICK q \in Paths : lock[q] = was /\ was # NoEntry /\ KeyOf[q] = KeyOf[p]
  BY EarlierIsOfTheKey DEF IInv
<1>3. was \in Entries /\ KeyOf[p] \in Packages
  BY <1>2, InstalledNamesConstants DEF IInv, TypeOK, Lockfiles
<1>4. n \in Fetched(lock[q], KeyOf[q])
  BY <1>1, <1>2, <1>3, InstalledIsFetched
<1> QED BY <1>2, <1>4 DEF IInv, InstalledWasJudged, Aliased

(* The declared aliases of the merged manifest have been judged.           *)
LEMMA MergeKeepsDeclared ==
  ASSUME IInv, NEW l \in Lockfiles, NEW d \in Manifests, NEW attr \in Manifests,
         NEW edges \in Edges, Merge(l, d, attr, edges)
  PROVE  DeclaredWasJudged'
<1> SUFFICES ASSUME NEW k \in Keys, d[k] # NoName, d[k] # k
             PROVE  d[k] \in judged' \cup Local
  BY DEF DeclaredWasJudged, Merge
<1>1. CASE d[k] = declares[k]
  BY <1>1 DEF IInv, DeclaredWasJudged, Merge
<1>2. CASE d[k] # declares[k]
  <2>1. d[k] \in ManifestNames(d)
    BY <1>2 DEF ManifestNames
  <2> QED BY <2>1 DEF Merge, NpmNames
<1> QED BY <1>1, <1>2

(* What a new entry fetches is judged with it, or was before.              *)
LEMMA ChangeIsJudged ==
  ASSUME IInv, NEW l \in Lockfiles, NEW d \in Manifests, NEW attr \in Manifests,
         NEW edges \in Edges, Merge(l, d, attr, edges),
         NEW p \in Paths, IsChange(l, p), NEW n \in Fetched(l[p], KeyOf[p])
  PROVE  n \in judged' \/ Aliased(n, p)
<1> DEFINE e == l[p]  at == KeyOf[p]  target == AcceptedAlias(l, attr, edges, p)
<1>1. e \in Entries /\ at \in Packages /\ at \in Keys /\ e.field \in Maybe
        /\ e.url \in Packages \cup {NoUrl, Elsewhere}
  BY InstalledNamesConstants DEF IsChange, Lockfiles, Keys
<1>2. NpmNames(l, d, attr, edges) \subseteq judged' /\ judged \subseteq judged'
  BY DEF Merge
<1>3. e.url # Elsewhere /\ ~e.bundled /\ ~(e.url = NoUrl /\ e.version = "local")
  BY DEF Fetched
<1>4. n \in Packages
  BY <1>1, <1>3 DEF Fetched, Maybe
<1>5. CASE target # NoName
  <2>1. target = e.url /\ e.url \in Packages
    BY <1>5 DEF AcceptedAlias, LookupName
  <2>2. n = target
    BY <2>1, <1>3 DEF Fetched
  <2>3. target \in AliasTargets(l, attr, edges)
    BY <1>5 DEF AliasTargets
  <2>4. n \in judged' \/ n \in Local
    BY <2>2, <2>3, <1>2 DEF NpmNames
  <2>5. <<at, n>> \in edges
    BY <1>5, <2>2 DEF AcceptedAlias
  <2> QED BY <2>4, <2>5 DEF Aliased
<1>6. CASE target = NoName
  <2>1. LockEntryNames(l, attr, edges, p) \subseteq judged'
    BY <1>2 DEF NpmNames
  <2>2. ~LocalDirectory(e)
    BY <1>3 DEF LocalDirectory
  <2>3. LockEntryNames(l, attr, edges, p) =
          {m \in {at} : NewHere(l, p, m) /\ ~KeyIsFolder(l, attr, edges, p)}
            \cup {m \in {Field(e, p)} \ {NoName} : NewHere(l, p, m)}
    BY <1>6, <1>3, <2>2 DEF LockEntryNames
  <2>4. CASE n = Field(e, p)
    <3>1. NewHere(l, p, n) => n \in judged'
      BY <2>1, <2>3, <2>4, <1>4, InstalledNamesConstants
    <3> QED BY <3>1, <1>2, <1>4, NotNewWasJudged
  <2>5. CASE n = at
    <3>1. ~KeyIsFolder(l, attr, edges, p)
      BY <2>5, <1>1, <1>3, InstalledNamesConstants DEF KeyIsFolder, Field, LookupName, Fetched, Maybe
    <3>2. NewHere(l, p, n) => n \in judged'
      BY <2>1, <2>3, <2>5, <3>1
    <3> QED BY <3>2, <1>2, <1>4, NotNewWasJudged
  <2>6. CASE n # at /\ n # Field(e, p)
    <3>1. e.url \in Packages /\ n = e.url
      <4>1. CASE e.url = NoUrl
        <5>1. e.field \in Packages /\ n = e.field
          BY <4>1, <2>6, <1>1, <1>3, InstalledNamesConstants DEF Fetched
        <5>2. format = "npm"
          BY <5>1, InstalledNamesConstants DEF Merge, Parsed, IsChange, IInv, TypeOK
        <5> QED BY <5>1, <5>2, <2>6 DEF Field
      <4>2. CASE e.url \in Packages
        BY <4>2, <1>3 DEF Fetched
      <4> QED BY <4>1, <4>2, <1>1, <1>3
    <3>2. n = PackageName(attr, at)
      BY <3>1, <1>6, <1>4, InstalledNamesConstants DEF Merge, TarballVouched
    <3>3. attr[at] = n
      BY <3>2, <2>6 DEF PackageName
    <3>4. n = d[at]
      BY <3>3, <2>6, <1>1, <1>4, InstalledNamesConstants DEF Merge, Attributions
    <3>5. n \in judged' \cup Local
      BY <3>4, <2>6, <1>1, <1>4, MergeKeepsDeclared, InstalledNamesConstants DEF DeclaredWasJudged, Merge
    <3> QED BY <3>5, <2>6 DEF Aliased
  <2> QED BY <2>4, <2>5, <2>6
<1> QED BY <1>5, <1>6

(* The names one run hands to the name checks are package names.           *)
LEMMA NpmNamesArePackages ==
  ASSUME NEW l \in Lockfiles, NEW d \in Manifests, NEW attr \in Manifests, NEW edges \in Edges
  PROVE  NpmNames(l, d, attr, edges) \subseteq Packages
<1>1. ManifestNames(d) \subseteq Packages
  BY DEF ManifestNames, Manifests, Maybe
<1>2. AliasTargets(l, attr, edges) \subseteq Packages
  <2>1. \A p \in Paths : AcceptedAlias(l, attr, edges, p) \in Maybe
    BY DEF AcceptedAlias, LookupName, Maybe
  <2> QED BY <2>1 DEF AliasTargets, Maybe
<1>3. ASSUME NEW p \in Paths PROVE LockEntryNames(l, attr, edges, p) \subseteq Packages
  <2>1. CASE IsChange(l, p)
    <3>1. l[p] \in Entries /\ KeyOf[p] \in Packages /\ l[p].field \in Maybe
      BY <2>1, InstalledNamesConstants DEF IsChange, Lockfiles
    <3> QED BY <3>1 DEF LockEntryNames, Field, Maybe
  <2>2. CASE ~IsChange(l, p)
    BY <2>2 DEF LockEntryNames
  <2> QED BY <2>1, <2>2
<1> QED BY <1>1, <1>2, <1>3 DEF NpmNames

LEMMA InitIInv == Init => IInv
BY InstalledNamesConstants
   DEF Init, IInv, TypeOK, InstalledWasJudged, DeclaredWasJudged, Lockfiles, Manifests, Maybe, Keys

LEMMA MergeIInv ==
  ASSUME IInv, NEW l \in Lockfiles, NEW d \in Manifests, NEW attr \in Manifests,
         NEW edges \in Edges, Merge(l, d, attr, edges)
  PROVE  IInv'
<1>1. TypeOK'
  BY NpmNamesArePackages DEF IInv, TypeOK, Merge
<1>2. InstalledWasJudged'
  <2> SUFFICES ASSUME NEW p \in Paths, l[p] # NoEntry, NEW n \in Fetched(l[p], KeyOf[p])
               PROVE  n \in judged' \/ Aliased(n, p)
    BY DEF InstalledWasJudged, Merge, Fetched, Aliased
  <2>1. CASE IsChange(l, p)
    BY <2>1, ChangeIsJudged
  <2>2. CASE ~IsChange(l, p)
    <3>1. PICK was \in At(lock, KeyOf[p]) : ResolutionIdentity(was) = ResolutionIdentity(l[p])
      BY <2>2 DEF IsChange
    <3>2. PICK q \in Paths : KeyOf[q] = KeyOf[p] /\ lock[q] = was /\ was # NoEntry
      BY <3>1 DEF At
    <3>3. was \in Entries /\ l[p] \in Entries
      BY <3>2 DEF IInv, TypeOK, Lockfiles
    <3>4. n \in Fetched(lock[q], KeyOf[q])
      BY <3>1, <3>2, <3>3, SameResolutionSameFetch
    <3>5. n \in judged \/ Aliased(n, q)
      BY <3>2, <3>4 DEF IInv, InstalledWasJudged
    <3> QED BY <3>2, <3>5 DEF Aliased, Merge
  <2> QED BY <2>1, <2>2
<1> QED BY <1>1, <1>2, MergeKeepsDeclared DEF IInv

LEMMA StepIInv == IInv /\ [Next]_vars => IInv'
<1> SUFFICES ASSUME IInv, [Next]_vars PROVE IInv'
  OBVIOUS
<1>1. CASE UNCHANGED vars
  BY <1>1 DEF IInv, TypeOK, InstalledWasJudged, DeclaredWasJudged, Fetched, Aliased, vars
<1>2. CASE Next
  BY <1>2, MergeIInv DEF Next
<1> QED BY <1>1, <1>2

(* InstalledWasJudged for every lockfile, manifest and number of merges.   *)
THEOREM SpecInstalledWasJudged == Spec => []InstalledWasJudged
<1>1. IInv => InstalledWasJudged
  BY DEF IInv
<1> QED BY <1>1, InitIInv, StepIInv, PTL DEF Spec

------------------------------------------------------------------------------
(* The order of strings, and the two names of a pair.                      *)
PythonName == Seq(DOMAIN Alphabetic)

(* Among the numbers that fall in a set there is a least one.              *)
LEMMA LeastOf ==
  ASSUME NEW S \in SUBSET Nat, S # {}
  PROVE  \E d \in S : \A j \in S : d <= j
<1> DEFINE R == OpToRel(<, Nat)
<1>1. IsWellFoundedOn(R, Nat)
  BY NatLessThanWellFounded
<1>2. \A x, y \in Nat : x < y => <<x, y>> \in R
  BY DEF OpToRel
<1> HIDE DEF R
<1>3. PICK d \in S : \A j \in S : ~(<<j, d>> \in R)
  BY <1>1, WFMin
<1>4. \A j \in S : d \in Nat /\ j \in Nat /\ ~(j < d)
  BY <1>2, <1>3
<1>5. \A j \in S : d <= j
  BY <1>4
<1> QED BY <1>5

(* The first letter in which two names differ orders them.                 *)
LEMMA FirstDifferenceDecides ==
  ASSUME NEW m \in PythonName, NEW n \in PythonName,
         NEW d \in (1..Len(m)) \cap (1..Len(n)), m[d] # n[d],
         \A j \in 1..(d - 1) : m[j] = n[j]
  PROVE  PyNames!Precedes(m, n) <=> Alphabetic[m[d]] < Alphabetic[n[d]]
<1>1. DOMAIN m = 1..Len(m) /\ DOMAIN n = 1..Len(n)
  BY DEF PythonName
<1>2. ASSUME PyNames!IsStrictPrefix(m, n) PROVE FALSE
  <2>1. Len(m) <= Len(n) /\ SubSeq(m, 1, Len(m)) = SubSeq(n, 1, Len(m))
    BY <1>2 DEF PyNames!IsStrictPrefix, PyNames!IsPrefix, PythonName
  <2>2. SubSeq(m, 1, Len(m))[d] = m[d] /\ SubSeq(n, 1, Len(m))[d] = n[d]
    BY <2>1 DEF PythonName
  <2> QED BY <2>1, <2>2
<1>3. ASSUME NEW i \in DOMAIN m \cap DOMAIN n, \A j \in 1..(i - 1) : m[j] = n[j],
             Alphabetic[m[i]] < Alphabetic[n[i]]
      PROVE  i = d
  <2>1. i \in Nat /\ d \in Nat /\ i >= 1 /\ d >= 1
    BY <1>1
  <2>2. m[i] \in DOMAIN Alphabetic /\ n[i] \in DOMAIN Alphabetic
    BY <1>1 DEF PythonName
  <2>3. m[i] # n[i]
    BY <1>3, <2>2, PythonAssumption DEF PyNames!PythonConstants
  <2>4. ~(i < d)
    BY <2>1, <2>3
  <2>5. ~(d < i)
    BY <2>1, <1>3
  <2> QED BY <2>1, <2>4, <2>5
<1>4. d \in DOMAIN m \cap DOMAIN n
  BY <1>1
<1>5. CASE Alphabetic[m[d]] < Alphabetic[n[d]]
  <2>1. PyNames!Precedes(m, n)
    BY <1>4, <1>5, Zenon DEF PyNames!Precedes
  <2> QED BY <1>5, <2>1
<1>6. CASE ~(Alphabetic[m[d]] < Alphabetic[n[d]])
  <2>1. ~PyNames!Precedes(m, n)
    BY <1>2, <1>3, <1>6, Zenon DEF PyNames!Precedes
  <2> QED BY <1>6, <2>1
<1> QED BY <1>5, <1>6

(* Of two different names exactly one comes before the other.              *)
LEMMA OneComesFirst ==
  ASSUME NEW m \in PythonName, NEW n \in PythonName, m # n
  PROVE  PyNames!Precedes(m, n) <=> ~PyNames!Precedes(n, m)
<1> DEFINE Differ == {i \in (1..Len(m)) \cap (1..Len(n)) : m[i] # n[i]}
<1>0. /\ Len(m) \in Nat /\ Len(n) \in Nat
      /\ DOMAIN m = 1..Len(m) /\ DOMAIN n = 1..Len(n)
  BY DEF PythonName
<1>1. CASE Differ = {}
  <2>1. Len(m) # Len(n)
    <3>1. \A i \in 1..Len(m) : Len(m) = Len(n) => m[i] = n[i]
      BY <1>0, <1>1
    <3> QED BY <3>1, SeqEqual DEF PythonName
  <2>2. ASSUME NEW s \in PythonName, NEW t \in PythonName, Len(s) < Len(t),
               \A i \in (1..Len(s)) \cap (1..Len(t)) : s[i] = t[i]
        PROVE  PyNames!Precedes(s, t) /\ ~PyNames!Precedes(t, s)
    <3>1. SubSeq(s, 1, Len(s)) = SubSeq(t, 1, Len(s))
      BY <2>2 DEF PythonName
    <3>2. PyNames!IsStrictPrefix(s, t)
      BY <2>2, <3>1 DEF PyNames!IsStrictPrefix, PyNames!IsPrefix, PythonName
    <3>3. ~PyNames!IsStrictPrefix(t, s)
      BY <2>2 DEF PyNames!IsStrictPrefix, PyNames!IsPrefix, PythonName
    <3>4. ASSUME NEW i \in DOMAIN t \cap DOMAIN s PROVE ~(Alphabetic[t[i]] < Alphabetic[s[i]])
      <4>1. s[i] = t[i] /\ t[i] \in DOMAIN Alphabetic
        BY <2>2 DEF PythonName
      <4> QED BY <4>1, PythonAssumption DEF PyNames!PythonConstants
    <3> QED BY <3>2, <3>3, <3>4, Zenon DEF PyNames!Precedes
  <2>3. CASE Len(m) < Len(n)
    BY <1>1, <2>2, <2>3
  <2>4. CASE Len(n) < Len(m)
    BY <1>1, <2>2, <2>4
  <2>5. Len(m) < Len(n) \/ Len(n) < Len(m)
    <3>1. \A x, y \in Nat : x # y => x < y \/ y < x
      OBVIOUS
    <3> QED BY <1>0, <2>1, <3>1, Zenon
  <2> QED BY <2>3, <2>4, <2>5
<1>2. CASE Differ # {}
  <2>0. Differ \in SUBSET Nat
    BY <1>0
  <2>1. PICK d \in Differ : \A j \in Differ : d <= j
    <3> HIDE DEF Differ
    <3> QED BY <1>2, <2>0, LeastOf
  <2>2. d \in (1..Len(m)) \cap (1..Len(n)) /\ m[d] # n[d] /\ \A j \in 1..(d - 1) : m[j] = n[j]
    BY <1>0, <2>1
  <2>3. m[d] \in DOMAIN Alphabetic /\ n[d] \in DOMAIN Alphabetic
    BY <1>0, <2>2 DEF PythonName
  <2>4. PyNames!Precedes(m, n) <=> Alphabetic[m[d]] < Alphabetic[n[d]]
    BY <2>2, FirstDifferenceDecides
  <2>5. PyNames!Precedes(n, m) <=> Alphabetic[n[d]] < Alphabetic[m[d]]
    BY <2>2, FirstDifferenceDecides
  <2> QED BY <2>2, <2>3, <2>4, <2>5, PythonAssumption DEF PyNames!PythonConstants
<1> QED BY <1>1, <1>2

------------------------------------------------------------------------------
(* The sides stay those of one change; what is reported is what the names  *)
(* judged so far match and do not leave to the other.                      *)
OneChange == \E c \in Changes : before = c.before /\ after = c.after /\ trusted = c.trusted

JudgedAreReported ==
  \A n, t : PyNames!Reported(n, t) <=>
              /\ \E c \in PyNames!Candidates \ pending : c.name = n
              /\ t \in PyNames!Match(n) /\ ~PyNames!LeftToTheOther(t, n)

PythonInv ==
  OneChange /\ pending \subseteq PyNames!Candidates /\ JudgedAreReported

(* The candidates are finitely many, and their names are names.            *)
LEMMA CandidatesAreFinite ==
  ASSUME OneChange
  PROVE  IsFiniteSet(PyNames!Candidates) /\ PyNames!NewSet \subseteq PythonName
<1>1. /\ IsFiniteSet(after.beside) /\ IsFiniteSet(after.apart) /\ IsFiniteSet(DOMAIN after.lock)
      /\ after.beside \cup after.apart \cup DOMAIN after.lock \subseteq PythonName
  <2>1. PICK c \in Changes : after = c.after
    BY DEF OneChange
  <2>2. /\ PyNames!IsFiniteSet(c.after.beside) /\ PyNames!IsFiniteSet(c.after.apart)
        /\ PyNames!IsFiniteSet(DOMAIN c.after.lock)
        /\ c.after.beside \cup c.after.apart \cup DOMAIN c.after.lock \subseteq PythonName
    BY PythonAssumption DEF PyNames!PythonConstants, PythonName
  <2> QED BY <2>1, <2>2, Zenon DEF PyNames!IsFiniteSet, IsFiniteSet
<1> DEFINE names == after.beside \cup after.apart \cup DOMAIN after.lock
           anchors == {"beside", "apart", "lockfile"}
<1>2. IsFiniteSet(names)
  BY <1>1, FS_Union
<1>3. IsFiniteSet(anchors)
  <2>1. IsFiniteSet({"beside"}) /\ IsFiniteSet({"apart"}) /\ IsFiniteSet({"lockfile"})
    BY FS_Singleton
  <2>2. anchors = ({"beside"} \cup {"apart"}) \cup {"lockfile"}
    OBVIOUS
  <2>3. IsFiniteSet({"beside"} \cup {"apart"})
    BY <2>1, FS_Union
  <2> QED BY <2>1, <2>2, <2>3, FS_Union
<1>4. IsFiniteSet(names \X anchors)
  BY <1>2, <1>3, FS_Product
<1> DEFINE Of == [p \in names \X anchors |-> [name |-> p[1], anchor |-> p[2]]]
           all == {Of[p] : p \in names \X anchors}
<1>5. IsFiniteSet(all)
  <2>1. Of \in Surjection(names \X anchors, all)
    BY DEF Surjection
  <2> HIDE DEF Of, all
  <2> QED BY <1>4, <2>1, FS_Surjection
<1>6. PyNames!Candidates \subseteq all
  <2> SUFFICES ASSUME NEW c \in PyNames!Candidates
               PROVE  \E p \in names \X anchors : c = Of[p]
    OBVIOUS
  <2>1. c = [name |-> c.name, anchor |-> c.anchor] /\ c.name \in names /\ c.anchor \in anchors
    BY DEF PyNames!Candidates, PyNames!ManifestNames, PyNames!NewLockNames, PyNames!LockNames
  <2>2. <<c.name, c.anchor>> \in names \X anchors /\ Of[<<c.name, c.anchor>>] = c
    BY <2>1
  <2> QED BY <2>2
<1>7. \A c \in PyNames!Candidates : c.name \in names
  BY DEF PyNames!Candidates, PyNames!ManifestNames, PyNames!NewLockNames, PyNames!LockNames
<1> QED BY <1>1, <1>5, <1>6, <1>7, FS_Subset DEF PyNames!NewSet

(* Of two new names neither of which was declared before, exactly one      *)
(* outranks the other.                                                     *)
LEMMA OneOutranks ==
  ASSUME OneChange, NEW m \in PyNames!NewSet \ PyNames!ComparisonNames,
         NEW n \in PyNames!NewSet \ PyNames!ComparisonNames, m # n
  PROVE  PyNames!Outranks(m, n) <=> ~PyNames!Outranks(n, m)
<1>1. PyNames!AnchorCount(m) \in Nat /\ PyNames!AnchorCount(n) \in Nat
  <2>1. ASSUME NEW q PROVE PyNames!AnchorCount(q) \in Nat
    <3>1. IsFiniteSet({c \in PyNames!Candidates : c.name = q})
      BY CandidatesAreFinite, FS_Subset
    <3>2. Cardinality({c \in PyNames!Candidates : c.name = q}) \in Nat
      BY <3>1, FS_CardinalityType
    <3> QED BY <3>2 DEF PyNames!AnchorCount, PyNames!Cardinality, Cardinality
  <2> QED BY <2>1
<1>2. PyNames!Precedes(m, n) <=> ~PyNames!Precedes(n, m)
  BY CandidatesAreFinite, OneComesFirst
<1> QED BY <1>1, <1>2 DEF PyNames!Outranks

(* No name is its own match.                                               *)
LEMMA MatchIsAnother ==
  ASSUME NEW n
  PROVE  n \notin PyNames!Match(n)
<1> DEFINE Known == {t \in PyNames!JudgedNames \cup PyNames!ComparisonNames : Len(t) >= 3} \ {n}
           collapsed == {PyNames!CollapseRuns(n)} \cap Known
           tried == <<IF collapsed # {} THEN collapsed ELSE PyNames!FirstHit(PyNames!RepeatsDropped(n), Known),
                      PyNames!FirstHit(PyNames!Transposed(n), Known),
                      PyNames!FirstHit(PyNames!KeyNeighbours(n, Near), Known),
                      PyNames!Distance(n, Known)>>
           hits == {i \in DOMAIN tried : tried[i] # {}}
<1>1. PyNames!Match(n) =
        IF hits = {} THEN {} ELSE UNION {tried[i] : i \in {i \in hits : \A j \in hits : i <= j}}
  BY DEF PyNames!Match
<1>2. ASSUME NEW s PROVE PyNames!FirstHit(s, Known) \subseteq Known
  BY DEF PyNames!FirstHit
<1>3. PyNames!Distance(n, Known) \subseteq Known
  BY DEF PyNames!Distance
<1>4. collapsed \subseteq Known /\ n \notin Known
  OBVIOUS
<1> HIDE DEF Known, collapsed
<1>5. DOMAIN tried = 1..4 /\ \A i \in 1..4 : tried[i] \subseteq Known
  <2>1. tried[1] \subseteq Known
    BY <1>2, <1>4
  <2>2. tried[2] \subseteq Known /\ tried[3] \subseteq Known /\ tried[4] \subseteq Known
    BY <1>2, <1>3
  <2>3. \A i \in 1..4 : i = 1 \/ i = 2 \/ i = 3 \/ i = 4
    OBVIOUS
  <2>4. DOMAIN tried = 1..4
    OBVIOUS
  <2> HIDE DEF tried
  <2> QED BY <2>1, <2>2, <2>3, <2>4
<1> HIDE DEF tried
<1> QED BY <1>1, <1>4, <1>5

(* The invariant, and what it says when every candidate is judged.         *)
LEMMA PythonInvInit == PyNames!Init => PythonInv
<1> SUFFICES ASSUME PyNames!Init PROVE PythonInv
  OBVIOUS
<1>1. OneChange /\ pending = PyNames!Candidates /\ reported = {}
  BY DEF PyNames!Init, OneChange
<1>2. JudgedAreReported
  BY <1>1 DEF JudgedAreReported, PyNames!Reported
<1> QED BY <1>1, <1>2 DEF PythonInv

LEMMA PythonInvStep == PythonInv /\ [PyNames!Next]_pythonVars => PythonInv'
<1> SUFFICES ASSUME PythonInv, [PyNames!Next]_pythonVars PROVE PythonInv'
  OBVIOUS
<1>1. UNCHANGED <<before, after, trusted>>
  BY DEF PyNames!Next, PyNames!Judge, PyNames!vars, pythonVars
<1>2. /\ PyNames!Candidates' = PyNames!Candidates
      /\ \A n : PyNames!Match(n)' = PyNames!Match(n)
      /\ \A n, t : PyNames!LeftToTheOther(t, n)' = PyNames!LeftToTheOther(t, n)
  <2>1. PyNames!Candidates' = PyNames!Candidates
    BY <1>1 DEF PyNames!Candidates, PyNames!ManifestNames, PyNames!NewLockNames, PyNames!LockNames
  <2>2. PyNames!JudgedNames' = PyNames!JudgedNames /\ PyNames!ComparisonNames' = PyNames!ComparisonNames
    BY <1>1 DEF PyNames!JudgedNames, PyNames!ComparisonNames, PyNames!SideNames, PyNames!LockNames
  <2>3. ASSUME NEW n PROVE PyNames!Match(n)' = PyNames!Match(n)
    BY <2>2 DEF PyNames!Match
  <2>4. PyNames!NewSet' = PyNames!NewSet /\ \A n : PyNames!AnchorCount(n)' = PyNames!AnchorCount(n)
    BY <2>1 DEF PyNames!NewSet, PyNames!AnchorCount
  <2>5. ASSUME NEW n, NEW t PROVE PyNames!LeftToTheOther(t, n)' = PyNames!LeftToTheOther(t, n)
    BY <2>2, <2>4, Zenon DEF PyNames!LeftToTheOther, PyNames!Outranks
  <2> QED BY <2>1, <2>3, <2>5
<1>3. OneChange'
  BY <1>1 DEF PythonInv, OneChange
<1>4. CASE PyNames!Judge
  <2>1. PICK c \in pending :
          /\ pending' = pending \ {c}
          /\ reported' = reported \cup
               {[name |-> c.name, anchor |-> c.anchor, target |-> t] :
                  t \in {t \in PyNames!Match(c.name) : ~PyNames!LeftToTheOther(t, c.name)}}
    BY <1>4 DEF PyNames!Judge
  <2>2. c \in PyNames!Candidates
    BY DEF PythonInv
  <2>3. ASSUME NEW n, NEW t
        PROVE  PyNames!Reported(n, t)' <=>
                 \/ PyNames!Reported(n, t)
                 \/ n = c.name /\ t \in PyNames!Match(n) /\ ~PyNames!LeftToTheOther(t, n)
    <3> DEFINE found == {u \in PyNames!Match(c.name) : ~PyNames!LeftToTheOther(u, c.name)}
               facts == {[name |-> c.name, anchor |-> c.anchor, target |-> u] : u \in found}
    <3>1. reported' = reported \cup facts
      BY <2>1
    <3>2. (\E r \in facts : r.name = n /\ r.target = t) <=> n = c.name /\ t \in found
      <4>1. \A r \in facts : r.name = c.name /\ r.target \in found
        OBVIOUS
      <4>2. ASSUME t \in found
            PROVE  \E r \in facts : r.name = c.name /\ r.target = t
        <5>1. [name |-> c.name, anchor |-> c.anchor, target |-> t] \in facts
          BY <4>2
        <5> QED BY <5>1
      <4> HIDE DEF facts, found
      <4> QED BY <4>1, <4>2
    <3>3. t \in found /\ n = c.name
            <=> n = c.name /\ t \in PyNames!Match(n) /\ ~PyNames!LeftToTheOther(t, n)
      OBVIOUS
    <3> HIDE DEF facts, found
    <3> QED BY <3>1, <3>2, <3>3 DEF PyNames!Reported
  <2>4. \A n : (\E d \in PyNames!Candidates \ pending' : d.name = n) <=>
                 (\E d \in PyNames!Candidates \ pending : d.name = n) \/ n = c.name
    BY <2>1, <2>2
  <2>5. JudgedAreReported'
    BY <1>2, <2>3, <2>4, Zenon DEF PythonInv, JudgedAreReported
  <2> QED BY <1>2, <1>3, <2>1, <2>5 DEF PythonInv
<1>5. CASE UNCHANGED pythonVars
  <2>1. pending' = pending /\ reported' = reported
    BY <1>5 DEF pythonVars
  <2>2. JudgedAreReported'
    BY <1>2, <2>1 DEF PythonInv, JudgedAreReported, PyNames!Reported
  <2> QED BY <1>2, <1>3, <2>1, <2>2 DEF PythonInv
<1> QED BY <1>4, <1>5 DEF PyNames!Next, PyNames!vars, pythonVars

LEMMA JudgedPairsOnce ==
  ASSUME PythonInv
  PROVE  PyNames!MutualPairOnce
<1> SUFFICES ASSUME pending = {},
                    NEW m \in PyNames!NewSet \ PyNames!ComparisonNames,
                    NEW n \in PyNames!Match(m) \cap (PyNames!NewSet \ PyNames!ComparisonNames),
                    m \in PyNames!Match(n)
             PROVE  PyNames!Reported(m, n) <=> ~PyNames!Reported(n, m)
  BY DEF PyNames!MutualPairOnce
<1>1. m # n
  BY MatchIsAnother
<1>2. \A q \in PyNames!NewSet : \E c \in PyNames!Candidates \ pending : c.name = q
  BY DEF PyNames!NewSet
<1>3. PyNames!Reported(m, n) <=> ~PyNames!LeftToTheOther(n, m)
  BY <1>2 DEF PythonInv, JudgedAreReported
<1>4. PyNames!Reported(n, m) <=> ~PyNames!LeftToTheOther(m, n)
  BY <1>2 DEF PythonInv, JudgedAreReported
<1>5. PyNames!Outranks(m, n) <=> ~PyNames!Outranks(n, m)
  BY <1>1, OneOutranks DEF PythonInv
<1> QED BY <1>3, <1>4, <1>5 DEF PyNames!LeftToTheOther

(* Of two new Python names that are each other's match exactly one is      *)
(* reported, for every alphabet, keyboard and set of changes.              *)
THEOREM MutualPairsReportedOnce == MCSpec => []MutualPairOnce
<1> DEFINE Inv == subject = "python" => PythonInv
<1>1. MCInit => Inv
  BY PythonInvInit DEF MCInit
<1>2. Inv /\ [MCNext]_<<subject, installedVars, distanceVars, resemblanceVars, pythonVars>> => Inv'
  <2> SUFFICES ASSUME Inv, [MCNext]_<<subject, installedVars, distanceVars, resemblanceVars, pythonVars>>,
                      subject' = "python"
               PROVE  PythonInv'
    OBVIOUS
  <2>1. subject' = subject
    BY DEF MCNext, InstalledStep, DistanceStep, ResemblanceStep, PythonStep
  <2>2. [PyNames!Next]_pythonVars
    BY DEF MCNext, InstalledStep, DistanceStep, ResemblanceStep, PythonStep
  <2> QED BY <2>1, <2>2, PythonInvStep
<1>3. Inv => MutualPairOnce
  BY JudgedPairsOnce DEF MutualPairOnce
<1> QED BY <1>1, <1>2, <1>3, PTL DEF MCSpec

------------------------------------------------------------------------------
(* The full table of edit distances, and the walk that keeps its band.     *)

(* What holds of the first of some numbers, and of one if of the one       *)
(* before, holds of all.                                                   *)
GoesOn(S, lo, hi) == \A i \in lo..(hi - 1) : i \in S => i + 1 \in S

LEMMA Induction ==
  ASSUME NEW lo \in Int, NEW hi \in Int, NEW S, lo \in S, GoesOn(S, lo, hi)
  PROVE  lo..hi \subseteq S
<1> USE DEF GoesOn
<1> DEFINE left == {k \in 0..(hi - lo) : lo + k \notin S}
<1>1. CASE left = {}
  <2>1. ASSUME NEW i \in lo..hi PROVE i \in S
    <3>1. i - lo \in 0..(hi - lo) /\ lo + (i - lo) = i
      OBVIOUS
    <3> QED BY <1>1, <3>1
  <2> QED BY <2>1
<1> SUFFICES ASSUME left # {} PROVE FALSE
  BY <1>1
<1>2. PICK k \in left : \A l \in left : k <= l
  <2>1. left \in SUBSET Nat
    OBVIOUS
  <2> HIDE DEF left
  <2> QED BY <2>1, LeastOf
<1>3. k \in 0..(hi - lo) /\ lo + k \notin S /\ k # 0
  BY <1>2
<1>4. k - 1 \notin left
  <2>1. ~(k <= k - 1)
    BY <1>3
  <2> QED BY <1>2, <2>1
<1>5. lo + (k - 1) \in S /\ lo + (k - 1) \in lo..(hi - 1) /\ lo + (k - 1) + 1 = lo + k
  BY <1>3, <1>4
<1> QED BY <1>3, <1>5

(* f goes from its first value on by steps.                                *)
Follows(f, lo, hi, base, step) == f[lo] = base /\ \A i \in (lo + 1)..hi : f[i] = step[i][f[i - 1]]

(* A function can be defined by recursion over lo..hi.                     *)
LEMMA Recursion ==
  ASSUME NEW lo \in Int, NEW hi \in Int, lo <= hi,
         NEW V, NEW base \in V, NEW step \in [(lo + 1)..hi -> [V -> V]]
  PROVE  \E f \in [lo..hi -> V] : Follows(f, lo, hi, base, step)
<1> DEFINE Solved(m) == \E f \in [lo..m -> V] : Follows(f, lo, m, base, step)
           S == {m \in lo..hi : Solved(m)}
<1>1. lo \in S
  <2> DEFINE f == [i \in lo..lo |-> base]
  <2>1. f \in [lo..lo -> V] /\ f[lo] = base /\ (lo + 1)..lo = {}
    OBVIOUS
  <2> HIDE DEF f
  <2>2. Follows(f, lo, lo, base, step)
    BY <2>1 DEF Follows
  <2>3. Solved(lo)
    BY <2>1, <2>2
  <2> QED BY <2>3
<1>2. ASSUME NEW k \in lo..(hi - 1), k \in S PROVE k + 1 \in S
  <2> DEFINE m == k + 1
  <2>1. k \in Int /\ k >= lo /\ m \in lo..hi /\ m \in (lo + 1)..hi
    OBVIOUS
  <2>2. PICK f \in [lo..k -> V] : Follows(f, lo, k, base, step)
    BY <1>2
  <2> DEFINE g == [i \in lo..m |-> IF i = m THEN step[m][f[k]] ELSE f[i]]
  <2>3. f[k] \in V /\ step[m] \in [V -> V]
    BY <2>1, <2>2
  <2>4. g \in [lo..m -> V] /\ g[lo] = base
    <3>1. g[lo] = f[lo]
      BY <2>1
    <3>2. f[lo] = base
      BY <2>2 DEF Follows
    <3>3. \A i \in lo..m : i # m => i \in lo..k
      BY <2>1
    <3> QED BY <2>2, <2>3, <3>1, <3>2, <3>3
  <2>5. ASSUME NEW i \in (lo + 1)..m PROVE g[i] = step[i][g[i - 1]]
    <3>1. g[i - 1] = f[i - 1]
      BY <2>1
    <3>2. CASE i = m
      <4>1. i - 1 = k /\ i \in lo..m
        BY <2>1, <3>2
      <4> QED BY <3>1, <3>2, <4>1
    <3>3. CASE i # m
      <4>1. i \in (lo + 1)..k /\ g[i] = f[i]
        BY <2>1, <3>3
      <4>2. f[i] = step[i][f[i - 1]]
        BY <2>2, <4>1 DEF Follows
      <4> QED BY <4>1, <4>2, <3>1
    <3> QED BY <3>2, <3>3
  <2> HIDE DEF g
  <2>6. Follows(g, lo, m, base, step)
    BY <2>4, <2>5 DEF Follows
  <2>7. Solved(m)
    BY <2>4, <2>6
  <2> QED BY <2>1, <2>7
<1> HIDE DEF S
<1>3. GoesOn(S, lo, hi)
  BY <1>2 DEF GoesOn
<1>4. lo..hi \subseteq S
  BY <1>1, <1>3, Induction
<1>5. hi \in S
  BY <1>4
<1> QED BY <1>5 DEF S

(* m is one of three numbers, and none of them is less; and of four.       *)
IsLeast(m, p, q, r) == m \in {p, q, r} /\ m <= p /\ m <= q /\ m <= r

(* The least of three numbers.                                             *)
LEMMA LeastOfThree ==
  ASSUME NEW p \in Int, NEW q \in Int, NEW r \in Int
  PROVE  IsLeast(Distance!Min({p, q, r}), p, q, r)
<1>1. \E m \in {p, q, r} : \A x \in {p, q, r} : m <= x
  <2>1. CASE p <= q /\ p <= r
    BY <2>1
  <2>2. CASE q <= p /\ q <= r
    BY <2>2
  <2>3. CASE r <= p /\ r <= q
    BY <2>3
  <2> QED BY <2>1, <2>2, <2>3
<1> DEFINE m == Distance!Min({p, q, r})
<1>2. m \in {p, q, r} /\ \A x \in {p, q, r} : m <= x
  BY <1>1 DEF Distance!Min
<1> QED BY <1>2 DEF IsLeast

(* What a replacement costs, and a row of the table under the one above.   *)
Cost(x, y, i, j) == IF x[i] = y[j] THEN 0 ELSE 1

IsRow(r, above, i, x, y) ==
  /\ r \in [0..Len(y) -> Nat] /\ r[0] = i
  /\ \A j \in 1..Len(y) : r[j] = Distance!Min({r[j - 1] + 1, above[j] + 1, above[j - 1] + Cost(x, y, i, j)})

(* A row follows from the one above it, left to right.                     *)
LEMMA NextRowIs ==
  ASSUME NEW x, NEW y, Len(y) \in Nat, NEW i \in Nat, NEW above \in [0..Len(y) -> Nat]
  PROVE  IsRow(Distance!NextRow(above, i, x, y), above, i, x, y)
<1> DEFINE n == Len(y)
           Body(c) == [j \in 0..n |-> IF j = 0 THEN i
                        ELSE Distance!Min({c[j - 1] + 1, above[j] + 1, above[j - 1] + (IF x[i] = y[j] THEN 0 ELSE 1)})]
           cell == CHOOSE c : c = Body(c)
           step == [j \in 1..n |-> [v \in Nat |->
                     Distance!Min({v + 1, above[j] + 1, above[j - 1] + (IF x[i] = y[j] THEN 0 ELSE 1)})]]
<1>1. Distance!NextRow(above, i, x, y) = [j \in 0..n |-> cell[j]]
  BY DEF Distance!NextRow
<1>2. step \in [1..n -> [Nat -> Nat]]
  <2> SUFFICES ASSUME NEW j \in 1..n, NEW v \in Nat
               PROVE  Distance!Min({v + 1, above[j] + 1, above[j - 1] + (IF x[i] = y[j] THEN 0 ELSE 1)}) \in Nat
    OBVIOUS
  <2>1. v + 1 \in Nat /\ above[j] + 1 \in Nat /\ above[j - 1] + (IF x[i] = y[j] THEN 0 ELSE 1) \in Nat
    OBVIOUS
  <2> HIDE DEF step
  <2>2. \A p, r, t \in Nat : Distance!Min({p, r, t}) \in Nat
    BY LeastOfThree DEF IsLeast
  <2> QED BY <2>1, <2>2
<1>3. PICK f \in [0..n -> Nat] : Follows(f, 0, n, i, step)
  <2>1. n \in Nat /\ i \in Nat /\ 0 <= n /\ n \in Int /\ 0 \in Int /\ (0 + 1)..n = 1..n
    OBVIOUS
  <2> HIDE DEF n, cell, Body, step
  <2> QED BY <1>2, <2>1, Recursion
<1>4. f = Body(f)
  <2>1. ASSUME NEW j \in 1..n
        PROVE  f[j] = Distance!Min({f[j - 1] + 1, above[j] + 1, above[j - 1] + (IF x[i] = y[j] THEN 0 ELSE 1)})
    <3>0. j - 1 \in 0..n
      OBVIOUS
    <3>1. f[j - 1] \in Nat
      <4> HIDE DEF step, cell, Body, n
      <4> QED BY <1>3, <3>0
    <3>2. f[j] = step[j][f[j - 1]]
      <4> HIDE DEF step, cell, Body
      <4> QED BY <1>3 DEF Follows
    <3> QED BY <3>1, <3>2
  <2> QED BY <1>3, <2>1 DEF Follows
<1>5. cell = Body(cell)
  BY <1>4
<1>6. cell = Distance!NextRow(above, i, x, y)
  BY <1>1, <1>5
<1> DEFINE e(j) == IF j = 0 THEN i
                   ELSE Distance!Min({cell[j - 1] + 1, above[j] + 1, above[j - 1] + (IF x[i] = y[j] THEN 0 ELSE 1)})
<1>7. cell = [j \in 0..n |-> e(j)] /\ n \in Nat
  BY <1>5
<1> HIDE DEF cell, step, Body, n
<1>8. /\ cell[0] = i
      /\ \A j \in 1..n : cell[j] = Distance!Min({cell[j - 1] + 1, above[j] + 1, above[j - 1] + Cost(x, y, i, j)})
  <2>1. cell[0] = i
    BY <1>7
  <2>2. ASSUME NEW j \in 1..n PROVE cell[j] = e(j) /\ j # 0
    <3> HIDE DEF e
    <3> QED BY <1>7
  <2>3. ASSUME NEW j \in 1..n
        PROVE  cell[j] = Distance!Min({cell[j - 1] + 1, above[j] + 1, above[j - 1] + Cost(x, y, i, j)})
    BY <2>2 DEF Cost
  <2> QED BY <2>1, <2>3
<1>9. ASSUME NEW j \in 1..n, cell[j - 1] \in Nat PROVE cell[j] \in Nat
  <2>1. above[j] \in Nat /\ above[j - 1] \in Nat /\ Cost(x, y, i, j) \in Nat
    BY <1>7 DEF Cost, n
  <2>2. \A p, q, t \in Nat : Distance!Min({p, q, t}) \in Nat
    BY LeastOfThree DEF IsLeast
  <2>3. cell[j - 1] + 1 \in Nat /\ above[j] + 1 \in Nat /\ above[j - 1] + Cost(x, y, i, j) \in Nat
    BY <2>1, <1>9
  <2>4. Distance!Min({cell[j - 1] + 1, above[j] + 1, above[j - 1] + Cost(x, y, i, j)}) \in Nat
    BY <2>2, <2>3
  <2> QED BY <1>8, <2>4
<1>10. \A j \in 0..n : cell[j] \in Nat
  <2> DEFINE S == {j \in 0..n : cell[j] \in Nat}
  <2>1. 0 \in S
    BY <1>7, <1>8
  <2>2. ASSUME NEW j \in 0..(n - 1), j \in S PROVE j + 1 \in S
    <3>1. j + 1 \in 1..n /\ (j + 1) - 1 = j
      BY <1>7
    <3>2. cell[j + 1] \in Nat
      BY <1>9, <2>2, <3>1
    <3> QED BY <3>1, <3>2
  <2> HIDE DEF S
  <2>3. GoesOn(S, 0, n)
    BY <2>2 DEF GoesOn
  <2>4. 0..n \subseteq S
    BY <1>7, <2>1, <2>3, Induction
  <2> QED BY <2>4 DEF S
<1>11. cell = [j \in 0..n |-> cell[j]]
  <2> HIDE DEF e
  <2> QED BY <1>7
<1> QED BY <1>6, <1>8, <1>10, <1>11 DEF IsRow, n

(* D is the table of the distances of the prefixes of x and y.             *)
IsTable(D, x, y) ==
  /\ D \in [0..Len(x) -> [0..Len(y) -> Nat]]
  /\ \A j \in 0..Len(y) : D[0][j] = j
  /\ \A i \in 1..Len(x) : D[i][0] = i
  /\ \A i \in 1..Len(x), j \in 1..Len(y) :
       /\ D[i][j] \in {D[i][j - 1] + 1, D[i - 1][j] + 1, D[i - 1][j - 1] + Cost(x, y, i, j)}
       /\ D[i][j] <= D[i][j - 1] + 1 /\ D[i][j] <= D[i - 1][j] + 1
       /\ D[i][j] <= D[i - 1][j - 1] + Cost(x, y, i, j)

(* EditDistance reads the last cell of such a table.                       *)
LEMMA DistanceIsOfTable ==
  ASSUME NEW x, NEW y, Len(x) \in Nat, Len(y) \in Nat
  PROVE  \E D : IsTable(D, x, y) /\ Distance!EditDistance(x, y) = D[Len(x)][Len(y)]
<1> DEFINE m == Len(x)
           n == Len(y)
           Rows == [0..n -> Nat]
           first == [j \in 0..n |-> j]
           Body(t) == [i \in 0..m |-> IF i = 0 THEN [j \in 0..n |-> j] ELSE Distance!NextRow(t[i - 1], i, x, y)]
           table == CHOOSE t : t = Body(t)
           step == [i \in 1..m |-> [v \in Rows |-> Distance!NextRow(v, i, x, y)]]
<1>0. m \in Nat /\ n \in Nat
  OBVIOUS
<1>1. Distance!EditDistance(x, y) = table[m][n]
  BY DEF Distance!EditDistance
<1>2. ASSUME NEW i \in 1..m, NEW v \in Rows PROVE Distance!NextRow(v, i, x, y) \in Rows
  <2>1. i \in Nat
    BY <1>0
  <2>2. IsRow(Distance!NextRow(v, i, x, y), v, i, x, y)
    BY <2>1, NextRowIs
  <2> QED BY <2>2 DEF IsRow
<1>3. PICK f \in [0..m -> Rows] : Follows(f, 0, m, first, step)
  <2>1. first \in Rows
    OBVIOUS
  <2>2. step \in [1..m -> [Rows -> Rows]]
    BY <1>2
  <2>3. 0 \in Int /\ m \in Int /\ 0 <= m /\ (0 + 1)..m = 1..m
    BY <1>0
  <2> HIDE DEF m, n, Rows, first, step
  <2> QED BY <2>1, <2>2, <2>3, Recursion
<1>4. f = Body(f)
  <2>1. ASSUME NEW i \in 1..m PROVE f[i] = Distance!NextRow(f[i - 1], i, x, y)
    <3>1. i - 1 \in 0..m
      BY <1>0
    <3>2. f[i - 1] \in Rows
      BY <3>1
    <3>3. f[i] = step[i][f[i - 1]]
      <4> HIDE DEF step, m
      <4> QED BY <1>3 DEF Follows
    <3> HIDE DEF Rows
    <3> QED BY <3>2, <3>3
  <2>2. f[0] = first
    BY <1>3 DEF Follows
  <2> QED BY <1>3, <2>1, <2>2
<1>5. table = Body(table)
  BY <1>4
<1> DEFINE e(i) == IF i = 0 THEN [j \in 0..n |-> j] ELSE Distance!NextRow(table[i - 1], i, x, y)
<1>6. table = [i \in 0..m |-> e(i)]
  BY <1>5
<1> HIDE DEF table, step, Body
<1>7. /\ table[0] = first /\ \A i \in 1..m : table[i] = Distance!NextRow(table[i - 1], i, x, y)
      /\ table = [i \in 0..m |-> table[i]]
  <2>1. table[0] = e(0) /\ \A i \in 1..m : table[i] = e(i) /\ i # 0
    <3> HIDE DEF e
    <3> QED BY <1>0, <1>6
  <2>2. table = [i \in 0..m |-> table[i]]
    <3> HIDE DEF e
    <3> QED BY <1>6
  <2> QED BY <2>1, <2>2
<1>8. \A i \in 0..m : table[i] \in Rows
  <2> DEFINE S == {i \in 0..m : table[i] \in Rows}
  <2>1. 0 \in S
    BY <1>0, <1>7
  <2>2. ASSUME NEW i \in 0..(m - 1), i \in S PROVE i + 1 \in S
    <3>1. i + 1 \in 1..m /\ (i + 1) - 1 = i /\ i + 1 \in 0..m
      BY <1>0
    <3>2. table[i + 1] = Distance!NextRow(table[i], i + 1, x, y)
      BY <1>7, <3>1
    <3> QED BY <1>2, <2>2, <3>1, <3>2
  <2> HIDE DEF S
  <2>3. GoesOn(S, 0, m)
    BY <2>2 DEF GoesOn
  <2>4. 0..m \subseteq S
    BY <1>0, <2>1, <2>3, Induction
  <2> QED BY <2>4 DEF S
<1>9. table \in [0..m -> Rows]
  BY <1>7, <1>8
<1>10. ASSUME NEW i \in 1..m
       PROVE  /\ table[i][0] = i
              /\ \A j \in 1..n :
                   /\ table[i][j] \in {table[i][j - 1] + 1, table[i - 1][j] + 1, table[i - 1][j - 1] + Cost(x, y, i, j)}
                   /\ table[i][j] <= table[i][j - 1] + 1 /\ table[i][j] <= table[i - 1][j] + 1
                   /\ table[i][j] <= table[i - 1][j - 1] + Cost(x, y, i, j)
  <2> DEFINE above == table[i - 1]
             r == table[i]
  <2>1. above \in Rows /\ r \in Rows /\ i \in Nat
    BY <1>0, <1>8
  <2>2. r = Distance!NextRow(above, i, x, y)
    BY <1>7
  <2> HIDE DEF above, r
  <2>3. IsRow(r, above, i, x, y)
    BY <2>1, <2>2, NextRowIs
  <2>4. ASSUME NEW j \in 1..n
        PROVE  /\ r[j] \in {r[j - 1] + 1, above[j] + 1, above[j - 1] + Cost(x, y, i, j)}
               /\ r[j] <= r[j - 1] + 1 /\ r[j] <= above[j] + 1 /\ r[j] <= above[j - 1] + Cost(x, y, i, j)
    <3> DEFINE p == r[j - 1] + 1
               q == above[j] + 1
               t == above[j - 1] + Cost(x, y, i, j)
    <3>1. j - 1 \in 0..n /\ j \in 0..n
      BY <1>0
    <3>2. Cost(x, y, i, j) \in Int
      BY DEF Cost
    <3>3. r[j - 1] \in Nat /\ above[j] \in Nat /\ above[j - 1] \in Nat
      BY <2>1, <3>1
    <3>4. p \in Int /\ q \in Int /\ t \in Int
      BY <3>2, <3>3
    <3>5. r[j] = Distance!Min({p, q, t})
      BY <2>3 DEF IsRow
    <3> HIDE DEF p, q, t
    <3>6. IsLeast(r[j], p, q, t)
      BY <3>4, <3>5, LeastOfThree
    <3> QED BY <3>6 DEF p, q, t, IsLeast
  <2>5. r[0] = i
    BY <2>3 DEF IsRow
  <2> QED BY <2>4, <2>5 DEF above, r
<1>11. IsTable(table, x, y)
  <2>1. \A j \in 0..n : table[0][j] = j
    BY <1>7
  <2> QED BY <1>9, <1>10, <2>1 DEF IsTable
<1> QED BY <1>1, <1>11

(* What holds of a cell if of all that come before it holds of all cells.  *)
LEMMA GridInduction ==
  ASSUME NEW m \in Nat, NEW n \in Nat, NEW S,
         \A i \in 0..m, j \in 0..n :
           (\A k \in 0..m, l \in 0..n : k + l < i + j => <<k, l>> \in S) => <<i, j>> \in S
  PROVE  \A i \in 0..m, j \in 0..n : <<i, j>> \in S
<1> DEFINE Left(s) == \E i \in 0..m, j \in 0..n : s = i + j /\ <<i, j>> \notin S
           left == {s \in Nat : Left(s)}
<1> SUFFICES ASSUME NEW p \in 0..m, NEW q \in 0..n, <<p, q>> \notin S PROVE FALSE
  OBVIOUS
<1>1. p + q \in left
  <2>1. \E i \in 0..m, j \in 0..n : p + q = i + j /\ <<i, j>> \notin S
    <3> WITNESS p \in 0..m, q \in 0..n
    <3> QED OBVIOUS
  <2>2. p + q \in Nat
    OBVIOUS
  <2> QED BY <2>1, <2>2
<1>2. PICK s \in left : \A t \in left : s <= t
  <2>1. left \in SUBSET Nat /\ left # {}
    BY <1>1
  <2> HIDE DEF left
  <2> QED BY <2>1, LeastOf
<1>3. PICK i \in 0..m, j \in 0..n : s = i + j /\ <<i, j>> \notin S
  BY <1>2
<1>4. ASSUME NEW k \in 0..m, NEW l \in 0..n, k + l < i + j PROVE <<k, l>> \in S
  <2>1. k + l \in Nat /\ s \in Nat /\ ~(s <= k + l)
    BY <1>2, <1>3, <1>4
  <2>2. k + l \notin left
    <3> HIDE DEF left
    <3> QED BY <1>2, <2>1
  <2>3. ~Left(k + l)
    BY <2>1, <2>2
  <2> QED BY <2>3
<1> QED BY <1>3, <1>4

(* A distance is never less than the difference of the lengths.            *)
LEMMA DistanceBounds ==
  ASSUME NEW x, NEW y, Len(x) \in Nat, Len(y) \in Nat, NEW D, IsTable(D, x, y)
  PROVE  \A i \in 0..Len(x), j \in 0..Len(y) : D[i][j] \in Nat /\ i - j <= D[i][j] /\ j - i <= D[i][j]
<1> DEFINE m == Len(x)
           n == Len(y)
           Apart(i, j) == i - j <= D[i][j] /\ j - i <= D[i][j]
           S == {c \in (0..m) \X (0..n) : Apart(c[1], c[2])}
<1>0. m \in Nat /\ n \in Nat
  OBVIOUS
<1>1. \A i \in 0..m, j \in 0..n : D[i][j] \in Nat
  BY DEF IsTable
<1>2. ASSUME NEW i \in 0..m, NEW j \in 0..n,
             \A k \in 0..m, l \in 0..n : k + l < i + j => Apart(k, l)
      PROVE  Apart(i, j)
  <2>1. CASE i = 0
    <3>1. D[i][j] = j
      BY <2>1 DEF IsTable
    <3> QED BY <1>0, <2>1, <3>1
  <2>2. CASE j = 0 /\ i # 0
    <3>1. D[i][j] = i
      BY <1>0, <2>2 DEF IsTable
    <3> QED BY <1>0, <2>2, <3>1
  <2>3. CASE i # 0 /\ j # 0
    <3>1. i - 1 \in 0..m /\ j - 1 \in 0..n /\ i \in 1..m /\ j \in 1..n
      BY <1>0, <2>3
    <3>2. D[i][j] \in {D[i][j - 1] + 1, D[i - 1][j] + 1, D[i - 1][j - 1] + Cost(x, y, i, j)}
      BY <3>1 DEF IsTable
    <3>3. Apart(i, j - 1) /\ Apart(i - 1, j) /\ Apart(i - 1, j - 1)
      <4>1. i + (j - 1) < i + j /\ (i - 1) + j < i + j /\ (i - 1) + (j - 1) < i + j
        BY <1>0
      <4> HIDE DEF Apart
      <4> QED BY <1>2, <3>1, <4>1
    <3>4. D[i][j] \in Nat /\ D[i][j - 1] \in Nat /\ D[i - 1][j] \in Nat /\ D[i - 1][j - 1] \in Nat
      BY <1>1, <3>1
    <3>5. Cost(x, y, i, j) \in {0, 1}
      BY DEF Cost
    <3>6. i \in Int /\ j \in Int
      BY <1>0
    <3>7. CASE D[i][j] = D[i][j - 1] + 1
      BY <3>3, <3>4, <3>6, <3>7
    <3>8. CASE D[i][j] = D[i - 1][j] + 1
      BY <3>3, <3>4, <3>6, <3>8
    <3>9. CASE D[i][j] = D[i - 1][j - 1] + Cost(x, y, i, j)
      BY <3>3, <3>4, <3>5, <3>6, <3>9
    <3> QED BY <3>2, <3>7, <3>8, <3>9
  <2> QED BY <2>1, <2>2, <2>3
<1>3. ASSUME NEW i \in 0..m, NEW j \in 0..n PROVE <<i, j>> \in S <=> Apart(i, j)
  OBVIOUS
<1> HIDE DEF S, Apart
<1>4. \A i \in 0..m, j \in 0..n : <<i, j>> \in S
  BY <1>0, <1>2, <1>3, GridInduction
<1>5. \A i \in 0..m, j \in 0..n : Apart(i, j)
  BY <1>3, <1>4
<1> QED BY <1>1, <1>5 DEF Apart

(* Of two numbers.                                                         *)
LEMMA OfTwo ==
  ASSUME NEW p \in Int, NEW q \in Int
  PROVE  /\ Distance!Max({p, q}) = IF p >= q THEN p ELSE q
         /\ Distance!Min({p, q}) = IF p <= q THEN p ELSE q
<1>1. Distance!Max({p, q}) \in {p, q} /\ \A x \in {p, q} : Distance!Max({p, q}) >= x
  <2>1. \E m \in {p, q} : \A x \in {p, q} : m >= x
    BY p >= q \/ q >= p
  <2> QED BY <2>1 DEF Distance!Max
<1>2. Distance!Min({p, q}) \in {p, q} /\ \A x \in {p, q} : Distance!Min({p, q}) <= x
  <2>1. \E m \in {p, q} : \A x \in {p, q} : m <= x
    BY p <= q \/ q <= p
  <2> QED BY <2>1 DEF Distance!Min
<1> QED BY <1>1, <1>2

(* A distance as the band keeps it: exact to K, and K + 1 past that.       *)
Cap(v, K) == IF v > K THEN K + 1 ELSE v

IsLeastOfFour(m, p, q, r, s) == m \in {p, q, r, s} /\ m <= p /\ m <= q /\ m <= r /\ m <= s

(* The least of four numbers.                                              *)
LEMMA LeastOfFour ==
  ASSUME NEW p \in Int, NEW q \in Int, NEW r \in Int, NEW s \in Int
  PROVE  IsLeastOfFour(Distance!Min({p, q, r, s}), p, q, r, s)
<1>1. \E m \in {p, q, r, s} : \A x \in {p, q, r, s} : m <= x
  <2>1. PICK l : IsLeast(l, p, q, r)
    BY LeastOfThree
  <2>2. l \in Int
    BY <2>1 DEF IsLeast
  <2>3. CASE l <= s
    BY <2>1, <2>3 DEF IsLeast
  <2>4. CASE s <= l
    BY <2>1, <2>2, <2>4 DEF IsLeast
  <2> QED BY <2>2, <2>3, <2>4
<1> DEFINE m == Distance!Min({p, q, r, s})
<1>2. m \in {p, q, r, s} /\ \A x \in {p, q, r, s} : m <= x
  BY <1>1 DEF Distance!Min
<1> QED BY <1>2 DEF IsLeastOfFour

(* A cell of the table beside its three neighbours, and as the walk has it.*)
IsCell(d, p, q, r, cost) == d \in {r + 1, q + 1, p + cost} /\ d <= r + 1 /\ d <= q + 1 /\ d <= p + cost

IsKeptLeast(m, p, q, r, cost, K) == IsLeastOfFour(m, Cap(p, K) + cost, Cap(q, K) + 1, Cap(r, K) + 1, K + 1)

(* The least of kept neighbours is the kept least of the neighbours.       *)
LEMMA CapOfLeast ==
  ASSUME NEW K \in Nat, NEW p \in Nat, NEW q \in Nat, NEW r \in Nat, NEW cost \in {0, 1}, NEW d \in Nat, NEW m,
         IsCell(d, p, q, r, cost), IsKeptLeast(m, p, q, r, cost, K)
  PROVE  m = Cap(d, K)
<1> DEFINE P == Cap(p, K)
           Q == Cap(q, K)
           R == Cap(r, K)
<1>0. P \in Nat /\ Q \in Nat /\ R \in Nat
  BY DEF Cap
<1>1. /\ P = IF p > K THEN K + 1 ELSE p
      /\ Q = IF q > K THEN K + 1 ELSE q
      /\ R = IF r > K THEN K + 1 ELSE r
  BY DEF Cap
<1>2. IsLeastOfFour(m, P + cost, Q + 1, R + 1, K + 1)
  BY DEF IsKeptLeast
<1> HIDE DEF P, Q, R
<1>3. CASE d = r + 1
  BY <1>0, <1>1, <1>2, <1>3 DEF IsCell, IsLeastOfFour, Cap
<1>4. CASE d = q + 1
  BY <1>0, <1>1, <1>2, <1>4 DEF IsCell, IsLeastOfFour, Cap
<1>5. CASE d = p + cost
  BY <1>0, <1>1, <1>2, <1>5 DEF IsCell, IsLeastOfFour, Cap
<1> QED BY <1>3, <1>4, <1>5 DEF IsCell

KeptLeast(p, q, r, cost, K) == Distance!Min({Cap(p, K) + cost, Cap(q, K) + 1, Cap(r, K) + 1, K + 1})

(* A cell computed from kept neighbours is the cell of the table, kept.    *)
LEMMA CapStep ==
  ASSUME NEW K \in Nat, NEW p \in Nat, NEW q \in Nat, NEW r \in Nat, NEW cost \in {0, 1}, NEW d \in Nat,
         IsCell(d, p, q, r, cost)
  PROVE  KeptLeast(p, q, r, cost, K) = Cap(d, K)
<1> DEFINE P == Cap(p, K) + cost
           Q == Cap(q, K) + 1
           R == Cap(r, K) + 1
<1>1. P \in Int /\ Q \in Int /\ R \in Int /\ K + 1 \in Int
  BY DEF Cap
<1>2. KeptLeast(p, q, r, cost, K) = Distance!Min({P, Q, R, K + 1})
  BY DEF KeptLeast
<1> HIDE DEF P, Q, R
<1>3. IsLeastOfFour(KeptLeast(p, q, r, cost, K), P, Q, R, K + 1)
  BY <1>1, <1>2, LeastOfFour
<1>4. IsKeptLeast(KeptLeast(p, q, r, cost, K), p, q, r, cost, K)
  BY <1>3 DEF IsKeptLeast, P, Q, R
<1> QED BY <1>4, CapOfLeast

(* The edges of the band, and the row as the walk has it.                  *)
LEMMA BandOf ==
  ASSUME NEW r \in Nat, r >= 1, maxK \in Nat, maxK >= 1, Len(b) \in Nat, r - maxK <= Len(b)
  PROVE  /\ Distance!Low(r) = (IF r > maxK THEN r - maxK ELSE 1)
         /\ Distance!High(r) = (IF r + maxK <= Len(b) THEN r + maxK ELSE Len(b))
         /\ Distance!Low(r) \in Nat /\ Distance!High(r) \in Nat
         /\ Distance!Low(r) >= 1 /\ Distance!Low(r) - 1 <= Distance!High(r) /\ Distance!High(r) <= Len(b)
<1>1. Distance!Low(r) = IF 1 >= r - maxK THEN 1 ELSE r - maxK
  BY OfTwo DEF Distance!Low
<1>2. Distance!High(r) = IF r + maxK <= Len(b) THEN r + maxK ELSE Len(b)
  <2>1. r + maxK \in Int /\ Len(b) \in Int
    OBVIOUS
  <2> QED BY <2>1, OfTwo DEF Distance!High
<1>3. maxK \in Nat /\ Len(b) \in Nat
  OBVIOUS
<1> QED BY <1>1, <1>2, <1>3

(* A row of the walk has the cells of the table's row r near the diagonal. *)
Kept(kept, D, K, r, n) == \A c \in 0..n : r - K - 1 <= c /\ c <= r + K + 1 => kept[c] = Cap(D[r][c], K)

(* A row of the walk keeps the table's row wherever the next one looks.    *)
LEMMA CellsAreKept ==
  ASSUME Len(a) \in Nat, Len(b) \in Nat, NEW r \in 1..Len(a), maxK \in Nat, maxK >= 1,
         Len(a) - Len(b) <= maxK, previous \in [0..Len(b) -> Nat], current \in [0..Len(b) -> Nat],
         NEW D, IsTable(D, a, b), Kept(previous, D, maxK, r - 1, Len(b))
  PROVE  /\ Distance!Cells(r) \in [0..Len(b) -> Nat]
         /\ Kept(Distance!Cells(r), D, maxK, r, Len(b))
<1> DEFINE n == Len(b)
           K == maxK
           L == Distance!Low(r)
           H == Distance!High(r)
           edge == Distance!BandEdges(r)
<1>0. r \in Nat /\ r >= 1 /\ n \in Nat /\ K \in Nat /\ K >= 1 /\ r - K <= n
  OBVIOUS
<1>1. /\ L = (IF r > K THEN r - K ELSE 1) /\ H = (IF r + K <= n THEN r + K ELSE n)
      /\ L \in Nat /\ H \in Nat /\ L >= 1 /\ L - 1 <= H /\ H <= n
  BY <1>0, BandOf
<1>2. edge \in [0..n -> Nat] /\ edge[L - 1] = (IF r <= K THEN r ELSE K + 1)
        /\ (H + 1 <= n => edge[H + 1] = K + 1)
  <2> HIDE DEF L, H
  <2>1. edge = [c \in 0..n |-> IF c = L - 1 THEN IF r <= K THEN r ELSE K + 1
                               ELSE IF c = H + 1 THEN K + 1 ELSE current[c]]
    <3>1. edge = [c \in 0..n |-> CASE c = L - 1 -> (IF r <= K THEN r ELSE K + 1)
                                   [] c = H + 1 -> K + 1
                                   [] OTHER -> current[c]]
      BY DEF Distance!BandEdges, Distance!Beyond, L, H
    <3>2. L - 1 # H + 1
      BY <1>1
    <3>3. \A c \in 0..n : (CASE c = L - 1 -> (IF r <= K THEN r ELSE K + 1)
                                   [] c = H + 1 -> K + 1
                                   [] OTHER -> current[c]) = IF c = L - 1 THEN IF r <= K THEN r ELSE K + 1
                               ELSE IF c = H + 1 THEN K + 1 ELSE current[c]
      BY <3>2
    <3> QED BY <3>1, <3>3
  <2>2. L - 1 \in 0..n /\ L - 1 # H + 1 /\ (H + 1 <= n => H + 1 \in 0..n)
    BY <1>1
  <2>3. edge \in [0..n -> Nat]
    BY <1>0, <2>1
  <2> HIDE DEF edge
  <2> QED BY <2>1, <2>2, <2>3
<1> DEFINE Cell(v, c) == Distance!Min({previous[c - 1] + (IF a[r] = b[c] THEN 0 ELSE 1),
                                       previous[c] + 1, v + 1, K + 1})
           Body(f) == [c \in (L - 1)..H |-> IF c = L - 1 THEN edge[c] ELSE Cell(f[c - 1], c)]
           cell == CHOOSE f : f = Body(f)
           step == [c \in L..H |-> [v \in Nat |-> Cell(v, c)]]
<1>3. Distance!Cells(r) = [c \in 0..n |-> IF c \in L..H THEN cell[c] ELSE edge[c]]
  <2>1. DOMAIN current = 0..n
    OBVIOUS
  <2> QED BY <2>1 DEF Distance!Cells, Distance!Beyond
<1> HIDE DEF L, H, edge
<1>4. ASSUME NEW c \in L..H, NEW v \in Nat PROVE Cell(v, c) \in Nat
  <2>1. c \in 0..n /\ c - 1 \in 0..n
    BY <1>0, <1>1
  <2> DEFINE p == previous[c - 1] + (IF a[r] = b[c] THEN 0 ELSE 1)
             q == previous[c] + 1
  <2>2. p \in Nat /\ q \in Nat /\ v + 1 \in Nat /\ K + 1 \in Nat
    <3>1. previous[c - 1] \in Nat /\ previous[c] \in Nat
      BY <2>1
    <3> QED BY <1>0, <3>1
  <2> HIDE DEF p, q
  <2>3. IsLeastOfFour(Distance!Min({p, q, v + 1, K + 1}), p, q, v + 1, K + 1)
    BY <2>2, LeastOfFour
  <2>4. Distance!Min({p, q, v + 1, K + 1}) \in Nat
    BY <2>2, <2>3 DEF IsLeastOfFour
  <2> QED BY <2>4 DEF p, q
<1>5. PICK f \in [(L - 1)..H -> Nat] : Follows(f, L - 1, H, edge[L - 1], step)
  <2>1. step \in [L..H -> [Nat -> Nat]]
    <3> HIDE DEF Cell
    <3> QED BY <1>4
  <2>2. edge[L - 1] \in Nat /\ L - 1 \in Int /\ H \in Int /\ L - 1 <= H /\ (L - 1 + 1)..H = L..H
    BY <1>0, <1>1, <1>2
  <2> HIDE DEF step
  <2> QED BY <2>1, <2>2, Recursion
<1>6. f = Body(f)
  <2>1. ASSUME NEW c \in L..H PROVE f[c] = Cell(f[c - 1], c) /\ c # L - 1
    <3>1. c - 1 \in (L - 1)..H /\ c \in (L - 1 + 1)..H /\ c # L - 1
      BY <1>1
    <3>2. f[c - 1] \in Nat
      BY <3>1
    <3>3. f[c] = step[c][f[c - 1]]
      <4> HIDE DEF step
      <4> QED BY <1>5, <3>1 DEF Follows
    <3> HIDE DEF Cell
    <3> QED BY <3>1, <3>2, <3>3
  <2>2. f[L - 1] = edge[L - 1]
    BY <1>5 DEF Follows
  <2>3. \A c \in (L - 1)..H : c = L - 1 \/ c \in L..H
    BY <1>1
  <2> HIDE DEF Cell
  <2> QED BY <2>1, <2>2, <2>3
<1>7. cell = Body(cell)
  BY <1>6
<1> HIDE DEF cell, step
<1>8. cell[L - 1] = edge[L - 1] /\ \A c \in L..H : cell[c] = Cell(cell[c - 1], c)
  <2> DEFINE e(c) == IF c = L - 1 THEN edge[c] ELSE Cell(cell[c - 1], c)
  <2>1. cell = [c \in (L - 1)..H |-> e(c)]
    BY <1>7
  <2>2. cell[L - 1] = e(L - 1) /\ \A c \in L..H : cell[c] = e(c) /\ c # L - 1
    <3>1. L - 1 \in (L - 1)..H /\ \A c \in L..H : c \in (L - 1)..H /\ c # L - 1
      BY <1>1
    <3> HIDE DEF e, Body
    <3> QED BY <2>1, <3>1
  <2> HIDE DEF Cell, Body
  <2> QED BY <2>2
<1> HIDE DEF Body
<1>9. \A i \in 0..Len(a), j \in 0..n : D[i][j] \in Nat /\ i - j <= D[i][j] /\ j - i <= D[i][j]
  BY DistanceBounds
<1>10. \A i \in 1..Len(a) : D[i][0] = i
  BY DEF IsTable
<1>11. edge[L - 1] = Cap(D[r][L - 1], K)
  <2>1. L - 1 \in 0..n /\ r \in 0..Len(a)
    BY <1>0, <1>1
  <2>2. CASE r <= K
    <3>1. L - 1 = 0 /\ D[r][0] = r
      BY <1>0, <1>1, <1>10, <2>2
    <3> QED BY <1>0, <1>2, <2>2, <3>1 DEF Cap
  <2>3. CASE r > K
    <3>1. L - 1 = r - K - 1
      BY <1>0, <1>1, <2>3
    <3>2. r - (L - 1) <= D[r][L - 1] /\ D[r][L - 1] \in Nat
      BY <1>9, <2>1
    <3> QED BY <1>0, <1>1, <1>2, <2>3, <3>1, <3>2 DEF Cap
  <2> QED BY <1>0, <2>2, <2>3
<1>12. ASSUME NEW c \in L..H, cell[c - 1] = Cap(D[r][c - 1], K) PROVE cell[c] = Cap(D[r][c], K)
  <2> DEFINE p == D[r - 1][c - 1]
             q == D[r - 1][c]
             s == D[r][c - 1]
             d == D[r][c]
             cost == Cost(a, b, r, c)
  <2>1. c \in 1..n /\ c - 1 \in 0..n /\ c \in 0..n /\ r - 1 \in 0..Len(a) /\ r \in 0..Len(a)
    BY <1>0, <1>1
  <2>2. p \in Nat /\ q \in Nat /\ s \in Nat /\ d \in Nat /\ cost \in {0, 1}
    BY <1>9, <2>1 DEF Cost
  <2>3. d \in {s + 1, q + 1, p + cost} /\ d <= s + 1 /\ d <= q + 1 /\ d <= p + cost
    BY <2>1 DEF IsTable
  <2>4. previous[c - 1] = Cap(p, K) /\ previous[c] = Cap(q, K)
    <3>1. /\ r - 1 - K - 1 <= c - 1 /\ c - 1 <= r - 1 + K + 1
          /\ r - 1 - K - 1 <= c /\ c <= r - 1 + K + 1
      BY <1>0, <1>1
    <3> QED BY <2>1, <3>1 DEF Kept
  <2>5. cell[c] = Distance!Min({previous[c - 1] + cost, previous[c] + 1, cell[c - 1] + 1, K + 1})
    BY <1>8 DEF Cost
  <2> HIDE DEF p, q, s, d, cost
  <2>6. cell[c] = Distance!Min({Cap(p, K) + cost, Cap(q, K) + 1, Cap(s, K) + 1, K + 1})
    BY <2>4, <2>5, <1>12 DEF s
  <2>7. cell[c] = Cap(d, K)
    <3>1. IsCell(d, p, q, s, cost) /\ K \in Nat
      BY <1>0, <2>3 DEF IsCell
    <3>2. cell[c] = KeptLeast(p, q, s, cost, K)
      BY <2>6 DEF KeptLeast
    <3>3. KeptLeast(p, q, s, cost, maxK) = Cap(d, maxK)
      <4>1. /\ IsCell(d, p, q, s, cost) /\ maxK \in Nat /\ cost \in {0, 1}
            /\ p \in Nat /\ q \in Nat /\ s \in Nat /\ d \in Nat
        BY <3>1, <2>2
      <4> QED BY ONLY <4>1, CapStep
    <3> QED BY <3>2, <3>3
  <2> QED BY <2>7 DEF d
<1> HIDE DEF Cell
<1>13. \A c \in (L - 1)..H : cell[c] = Cap(D[r][c], K)
  <2> DEFINE S == {c \in (L - 1)..H : cell[c] = Cap(D[r][c], K)}
  <2>1. L - 1 \in S
    BY <1>1, <1>8, <1>11
  <2>2. ASSUME NEW c \in (L - 1)..(H - 1), c \in S PROVE c + 1 \in S
    <3>1. c + 1 \in L..H /\ (c + 1) - 1 = c /\ c + 1 \in (L - 1)..H
      BY <1>1
    <3> QED BY <1>12, <2>2, <3>1
  <2> HIDE DEF S
  <2>3. GoesOn(S, L - 1, H)
    BY <2>2 DEF GoesOn
  <2>4. (L - 1)..H \subseteq S
    BY <1>1, <2>1, <2>3, Induction
  <2> QED BY <2>4 DEF S
<1>14. Distance!Cells(r) \in [0..n -> Nat]
  <2>1. \A c \in L..H : cell[c] \in Nat
    <3>1. \A c \in L..H : c \in (L - 1)..H /\ c \in 0..n /\ r \in 0..Len(a)
      BY <1>0, <1>1
    <3>2. \A v \in Nat : Cap(v, K) \in Nat
      BY <1>0 DEF Cap
    <3> QED BY <1>9, <1>13, <3>1, <3>2
  <2>2. \A c \in 0..n : (IF c \in L..H THEN cell[c] ELSE edge[c]) \in Nat
    BY <1>2, <2>1
  <2> QED BY <1>3, <2>2
<1>15. ASSUME NEW c \in 0..n, r - K - 1 <= c, c <= r + K + 1
       PROVE  Distance!Cells(r)[c] = Cap(D[r][c], K)
  <2>0. r \in 0..Len(a)
    BY <1>0
  <2>1. CASE c \in L..H
    <3>1. c \in (L - 1)..H
      BY <1>1, <2>1
    <3> QED BY <1>3, <1>13, <2>1, <3>1
  <2>2. CASE c = L - 1
    <3>1. c \notin L..H
      BY <1>1, <2>2
    <3> QED BY <1>3, <1>11, <2>2, <3>1
  <2>3. CASE c = H + 1 /\ H + 1 = r + K + 1
    <3>1. c \notin L..H /\ H + 1 <= n
      BY <1>1, <2>3
    <3>2. Distance!Cells(r)[c] = K + 1
      BY <1>2, <1>3, <2>3, <3>1
    <3>3. D[r][c] \in Nat /\ c - r <= D[r][c]
      BY <1>9, <2>0
    <3> QED BY <1>0, <2>3, <3>2, <3>3 DEF Cap
  <2>4. c \in L..H \/ c = L - 1 \/ (c = H + 1 /\ H + 1 = r + K + 1)
    <3>1. c \in Nat /\ c <= n
      BY <1>0
    <3> QED BY <1>0, <1>1, <1>15, <3>1
  <2> QED BY <2>1, <2>2, <2>3, <2>4
<1> QED BY <1>14, <1>15 DEF Kept

(* Once every cell of a row is past K, so is every cell of the next ones.  *)
RowPast(D, i, n, K) == \A c \in 0..n : D[i][c] > K

(* Past K in every cell, a row is followed by such a row.                  *)
LEMMA NextRowIsPast ==
  ASSUME NEW x, NEW y, Len(x) \in Nat, Len(y) \in Nat, NEW D, IsTable(D, x, y), NEW K \in Nat,
         NEW i \in 0..(Len(x) - 1), RowPast(D, i, Len(y), K)
  PROVE  RowPast(D, i + 1, Len(y), K)
<1> DEFINE n == Len(y)
           S == {c \in 0..n : D[i + 1][c] > K}
<1>1. /\ i \in 0..Len(x) /\ i + 1 \in 1..Len(x) /\ i + 1 \in 0..Len(x) /\ (i + 1) - 1 = i
      /\ n \in Nat /\ i \in Nat
  OBVIOUS
<1>2. \A c \in 0..n : D[i][c] \in Nat /\ D[i + 1][c] \in Nat /\ D[i][c] > K
  BY <1>1 DEF IsTable, RowPast
<1>3. 0 \in S
  <2>1. D[i + 1][0] = i + 1
    BY <1>1 DEF IsTable
  <2>2. D[i][0] = i
    <3>1. CASE i = 0
      BY <1>1, <3>1 DEF IsTable
    <3>2. CASE i # 0
      <4>1. i \in 1..Len(x)
        BY <1>1, <3>2
      <4> QED BY <4>1 DEF IsTable
    <3> QED BY <3>1, <3>2
  <2>3. i > K /\ 0 \in 0..n
    BY <1>1, <1>2, <2>2
  <2> QED BY <1>1, <2>1, <2>3
<1>4. ASSUME NEW c \in 0..(n - 1), c \in S PROVE c + 1 \in S
  <2>1. c + 1 \in 1..n /\ c + 1 \in 0..n /\ c \in 0..n /\ (c + 1) - 1 = c
    BY <1>1
  <2>2. D[i + 1][c + 1] \in {D[i + 1][c] + 1, D[i][c + 1] + 1, D[i][c] + Cost(x, y, i + 1, c + 1)}
    <3>1. D[i + 1][c + 1] \in {D[i + 1][(c + 1) - 1] + 1, D[(i + 1) - 1][c + 1] + 1,
                               D[(i + 1) - 1][(c + 1) - 1] + Cost(x, y, i + 1, c + 1)}
      BY <1>1, <2>1 DEF IsTable
    <3> QED BY <1>1, <2>1, <3>1
  <2>3. Cost(x, y, i + 1, c + 1) \in {0, 1}
    BY DEF Cost
  <2>4. D[i + 1][c] > K /\ D[i][c + 1] > K /\ D[i][c] > K
    BY <1>2, <1>4, <2>1
  <2>5. D[i + 1][c] \in Nat /\ D[i][c + 1] \in Nat /\ D[i][c] \in Nat
    BY <1>2, <2>1
  <2>6. D[i + 1][c + 1] > K
    <3> DEFINE p == D[i + 1][c]
               q == D[i][c + 1]
               s == D[i][c]
               d == D[i + 1][c + 1]
               cost == Cost(x, y, i + 1, c + 1)
    <3>1. /\ d \in {p + 1, q + 1, s + cost} /\ cost \in {0, 1}
          /\ p \in Nat /\ q \in Nat /\ s \in Nat /\ p > K /\ q > K /\ s > K
      BY <2>2, <2>3, <2>4, <2>5
    <3> HIDE DEF p, q, s, d, cost
    <3>2. d > K
      BY <3>1
    <3> QED BY <3>2 DEF d
  <2> QED BY <2>1, <2>6
<1> HIDE DEF S
<1>5. GoesOn(S, 0, n)
  BY <1>4 DEF GoesOn
<1>6. 0..n \subseteq S
  BY <1>1, <1>3, <1>5, Induction
<1> QED BY <1>6 DEF S, RowPast

(* So the distance itself is past K: the walk may stop early.              *)
LEMMA LastRowIsPast ==
  ASSUME NEW x, NEW y, Len(x) \in Nat, Len(y) \in Nat, NEW D, IsTable(D, x, y), NEW K \in Nat,
         NEW r \in 0..Len(x), RowPast(D, r, Len(y), K)
  PROVE  D[Len(x)][Len(y)] > K
<1> DEFINE m == Len(x)
           S == {i \in r..m : RowPast(D, i, Len(y), K)}
<1>0. r \in Nat /\ m \in Nat /\ r <= m /\ Len(y) \in Nat
  OBVIOUS
<1>1. r \in S
  BY <1>0
<1>2. ASSUME NEW i \in r..(m - 1), i \in S PROVE i + 1 \in S
  <2>1. i \in 0..(m - 1) /\ i + 1 \in r..m
    BY <1>0
  <2>2. RowPast(D, i + 1, Len(y), K)
    BY <1>2, <2>1, NextRowIsPast
  <2> QED BY <2>1, <2>2
<1> HIDE DEF S
<1>3. GoesOn(S, r, m)
  BY <1>2 DEF GoesOn
<1>4. r..m \subseteq S
  BY <1>0, <1>1, <1>3, Induction
<1>5. RowPast(D, m, Len(y), K)
  BY <1>0, <1>4 DEF S
<1> QED BY <1>0, <1>5 DEF RowPast

(* A name is no distance from itself.                                      *)
LEMMA NoDistanceToItself ==
  ASSUME NEW x, Len(x) \in Nat
  PROVE  Distance!EditDistance(x, x) = 0
<1> DEFINE m == Len(x)
<1>1. PICK D : IsTable(D, x, x) /\ Distance!EditDistance(x, x) = D[m][m]
  BY DistanceIsOfTable
<1> DEFINE S == {i \in 0..m : D[i][i] = 0}
<1>2. 0 \in S
  BY <1>1 DEF IsTable
<1>3. ASSUME NEW i \in 0..(m - 1), i \in S PROVE i + 1 \in S
  <2>1. i + 1 \in 1..m /\ i + 1 \in 0..m /\ (i + 1) - 1 = i
    OBVIOUS
  <2>2. D[i + 1][i + 1] <= D[(i + 1) - 1][(i + 1) - 1] + Cost(x, x, i + 1, i + 1)
    BY <1>1, <2>1 DEF IsTable
  <2>3. Cost(x, x, i + 1, i + 1) = 0
    BY DEF Cost
  <2>4. D[i + 1][i + 1] \in Nat /\ D[i][i] = 0
    BY <1>1, <1>3, <2>1 DEF IsTable
  <2>5. D[i + 1][i + 1] = 0
    BY <2>1, <2>2, <2>3, <2>4
  <2> QED BY <2>1, <2>5
<1> HIDE DEF S
<1>4. GoesOn(S, 0, m)
  BY <1>3 DEF GoesOn
<1>5. 0..m \subseteq S
  BY <1>2, <1>4, Induction
<1>6. m \in S
  BY <1>5
<1> QED BY <1>1, <1>6 DEF S

(* While the walk goes on, the last row it made is the table's; when it    *)
(* stops it has answered.                                                  *)
Walks ==
  /\ Len(a) - Len(b) <= maxK /\ Len(b) - Len(a) <= maxK
  /\ row \in 0..Len(a)
  /\ previous \in [0..Len(b) -> Nat] /\ current \in [0..Len(b) -> Nat]
  /\ \A D : IsTable(D, a, b) => Kept(previous, D, maxK, row, Len(b))

DistanceInv ==
  /\ Len(a) \in Nat /\ Len(b) \in Nat /\ maxK \in {1, 2}
  /\ result = Distance!Running => Walks
  /\ Distance!BandedIsLevenshtein

(* What is answered before the walk starts is answered right.              *)
LEMMA DistanceInit == ASSUME MaxLength \in Nat, Distance!Init PROVE DistanceInv
<1>1. Len(a) \in Nat /\ Len(b) \in Nat /\ maxK \in {1, 2}
  <2>1. a \in Seq(Alphabet) /\ b \in Seq(Alphabet)
    BY DEF Distance!Init, Distance!BoundedSeq, Distance!SeqOf
  <2> QED BY <2>1 DEF Distance!Init
<1>2. CASE Len(a) - Len(b) > maxK \/ Len(b) - Len(a) > maxK
  <2>1. Len(a) - Len(b) \notin (-maxK)..maxK
    BY <1>1, <1>2
  <2>2. result = Distance!TooFar /\ Distance!Within(a, b, maxK) = Distance!TooFar
    BY <1>2, <2>1 DEF Distance!Init, Distance!Within
  <2> QED BY <1>1, <2>2 DEF DistanceInv, Distance!BandedIsLevenshtein, Distance!Running, Distance!TooFar
<1>3. CASE ~(Len(a) - Len(b) > maxK \/ Len(b) - Len(a) > maxK) /\ a = b
  <2>1. Len(a) - Len(b) \in (-maxK)..maxK
    BY <1>1, <1>3
  <2>2. result = 0
    BY <1>3 DEF Distance!Init
  <2>3. Distance!EditDistance(a, b) = 0
    BY <1>1, <1>3, NoDistanceToItself
  <2>4. Distance!Within(a, b, maxK) = 0
    BY <1>1, <2>1, <2>3 DEF Distance!Within
  <2> QED BY <1>1, <2>2, <2>4 DEF DistanceInv, Distance!BandedIsLevenshtein, Distance!Running
<1>4. CASE ~(Len(a) - Len(b) > maxK \/ Len(b) - Len(a) > maxK) /\ a # b
  <2>1. result = Distance!Running
    BY <1>4 DEF Distance!Init
  <2>2. /\ row = 0 /\ previous = [c \in 0..Len(b) |-> IF c <= maxK THEN c ELSE maxK + 1]
        /\ current = [c \in 0..Len(b) |-> maxK + 1]
    BY DEF Distance!Init, Distance!Beyond
  <2>3. previous \in [0..Len(b) -> Nat] /\ current \in [0..Len(b) -> Nat] /\ row \in 0..Len(a)
    BY <1>1, <2>2
  <2>4. ASSUME NEW D, IsTable(D, a, b) PROVE Kept(previous, D, maxK, row, Len(b))
    <3>1. \A c \in 0..Len(b) : D[0][c] = c
      BY <2>4 DEF IsTable
    <3>2. \A c \in 0..Len(b) : previous[c] = Cap(c, maxK)
      BY <1>1, <2>2 DEF Cap
    <3> QED BY <2>2, <3>1, <3>2 DEF Kept
  <2>5. Walks
    <3>1. Len(a) - Len(b) <= maxK /\ Len(b) - Len(a) <= maxK
      BY <1>1, <1>4
    <3> QED BY <2>3, <2>4, <3>1 DEF Walks
  <2> QED BY <1>1, <2>1, <2>5 DEF DistanceInv, Distance!BandedIsLevenshtein
<1> QED BY <1>2, <1>3, <1>4

(* A row of the walk keeps the table's, or shows that all is past the band. *)
LEMMA RowKeepsInv == ASSUME DistanceInv, Distance!Row PROVE DistanceInv'
<1> DEFINE r == row + 1
           cells == Distance!Cells(r)
           K == maxK
<1>0. /\ result = Distance!Running /\ row < Len(a) /\ row' = r
      /\ previous' = cells /\ current' = previous
      /\ result' = IF Distance!RowBest(r, cells) > K THEN Distance!TooFar ELSE Distance!Running
      /\ a' = a /\ b' = b /\ maxK' = maxK
  BY DEF Distance!Row
<1>1. Walks /\ Len(a) \in Nat /\ Len(b) \in Nat /\ K \in {1, 2}
  BY <1>0 DEF DistanceInv
<1>2. /\ r \in Nat /\ r \in 1..Len(a) /\ r \in 0..Len(a) /\ r - 1 = row /\ row \in 0..Len(a) /\ K \in Nat /\ K >= 1
      /\ Len(a) - Len(b) <= K /\ r - K <= Len(b)
  BY <1>0, <1>1 DEF Walks
<1>3. ASSUME NEW D, IsTable(D, a, b)
      PROVE  cells \in [0..Len(b) -> Nat] /\ Kept(cells, D, K, r, Len(b))
  <2>1. Kept(previous, D, maxK, r - 1, Len(b))
    BY <1>1, <1>2, <1>3 DEF Walks
  <2>2. previous \in [0..Len(b) -> Nat] /\ current \in [0..Len(b) -> Nat]
    BY <1>1 DEF Walks
  <2> QED BY <1>1, <1>2, <1>3, <2>1, <2>2, CellsAreKept
<1>4. PICK D : IsTable(D, a, b) /\ Distance!EditDistance(a, b) = D[Len(a)][Len(b)]
  BY <1>1, DistanceIsOfTable
<1>5. cells \in [0..Len(b) -> Nat] /\ Kept(cells, D, K, r, Len(b))
  BY <1>3, <1>4
<1> HIDE DEF cells, r
<1>6. CASE Distance!RowBest(r, cells) > K
  <2> DEFINE L == Distance!Low(r)
             H == Distance!High(r)
             side == IF r <= K THEN r ELSE K + 1
             seen == {cells[c] : c \in L..H} \cup {side}
  <2>1. /\ L = (IF r > K THEN r - K ELSE 1) /\ H = (IF r + K <= Len(b) THEN r + K ELSE Len(b))
        /\ L \in Nat /\ H \in Nat /\ L >= 1 /\ H <= Len(b)
    <3>1. r \in Nat /\ r >= 1 /\ maxK \in Nat /\ maxK >= 1 /\ Len(b) \in Nat /\ r - maxK <= Len(b)
      BY <1>1, <1>2
    <3> QED BY <3>1, BandOf
  <2>2. Distance!RowBest(r, cells) = Distance!Min(seen)
    BY DEF Distance!RowBest, Distance!Beyond
  <2> HIDE DEF L, H
  <2>3. seen \in SUBSET Nat /\ seen # {}
    <3>1. L..H \subseteq 0..Len(b)
      BY <1>1, <2>1
    <3> QED BY <1>2, <1>5, <3>1
  <2>4. PICK least \in seen : \A s \in seen : least <= s
    <3> HIDE DEF seen
    <3> QED BY <2>3, LeastOf
  <2>5. \A s \in seen : s > K
    <3> HIDE DEF seen
    <3>1. Distance!Min(seen) \in seen /\ \A s \in seen : Distance!Min(seen) <= s
      BY <2>4 DEF Distance!Min
    <3> SUFFICES ASSUME NEW s \in seen PROVE s > K
      OBVIOUS
    <3>2. Distance!Min(seen) \in Nat /\ s \in Nat /\ Distance!Min(seen) <= s
      BY <2>3, <3>1
    <3>3. Distance!Min(seen) > K
      BY <1>6, <2>2
    <3> QED BY <1>2, <3>2, <3>3
  <2>6. r > K
    <3>1. side \in seen
      OBVIOUS
    <3>2. side > K
      <4> HIDE DEF seen, side
      <4> QED BY <2>5, <3>1
    <3> QED BY <1>2, <3>2
  <2>7. ASSUME NEW c \in 0..Len(b) PROVE D[r][c] > K
    <3>1. D[r][c] \in Nat /\ r - c <= D[r][c] /\ c - r <= D[r][c]
      BY <1>1, <1>2, <1>4, DistanceBounds
    <3>2. CASE c \in L..H
      <4>1. cells[c] \in seen
        BY <3>2
      <4>2. cells[c] > K
        BY <2>5, <4>1
      <4>3. r - K - 1 <= c /\ c <= r + K + 1
        BY <1>2, <2>1, <3>2
      <4>4. cells[c] = Cap(D[r][c], K)
        BY <1>5, <4>3 DEF Kept
      <4> QED BY <1>2, <3>1, <4>2, <4>4 DEF Cap
    <3>3. CASE c \notin L..H
      <4>1. c < r - K \/ c > r + K
        BY <1>1, <1>2, <2>1, <2>6, <3>3
      <4> QED BY <1>2, <3>1, <4>1
    <3> QED BY <3>2, <3>3
  <2>8. D[Len(a)][Len(b)] > K
    <3>1. RowPast(D, r, Len(b), K)
      BY <2>7 DEF RowPast
    <3> QED BY <1>1, <1>2, <1>4, <3>1, LastRowIsPast
  <2>9. Distance!Within(a, b, maxK) = Distance!TooFar
    BY <1>4, <2>8 DEF Distance!Within
  <2>10. result' = Distance!TooFar /\ Distance!TooFar # Distance!Running
    BY <1>0, <1>6 DEF Distance!TooFar, Distance!Running
  <2>11. Distance!BandedIsLevenshtein'
    BY <1>0, <2>9, <2>10 DEF Distance!BandedIsLevenshtein, Distance!Within, Distance!EditDistance
  <2>12. (result = Distance!Running)' => Walks'
    BY <2>10 DEF Distance!Running
  <2> QED BY <1>0, <1>1, <2>11, <2>12 DEF DistanceInv
<1>7. CASE ~(Distance!RowBest(r, cells) > K)
  <2>1. result' = Distance!Running
    BY <1>0, <1>7
  <2>2. Distance!BandedIsLevenshtein'
    BY <2>1 DEF Distance!BandedIsLevenshtein, Distance!Running
  <2>3. Walks'
    <3>1. \A E : IsTable(E, a, b) => Kept(cells, E, K, r, Len(b))
      BY <1>3
    <3>2. row' \in 0..Len(a) /\ previous' \in [0..Len(b) -> Nat] /\ current' \in [0..Len(b) -> Nat]
      BY <1>0, <1>1, <1>2, <1>5 DEF Walks
    <3>3. Len(a) - Len(b) <= maxK /\ Len(b) - Len(a) <= maxK
      BY <1>1 DEF Walks
    <3>4. \A E : IsTable(E, a', b') => Kept(previous', E, maxK', row', Len(b'))
      BY <1>0, <3>1
    <3> QED BY <1>0, <3>2, <3>3, <3>4 DEF Walks
  <2> QED BY <1>0, <1>1, <2>2, <2>3 DEF DistanceInv
<1> QED BY <1>6, <1>7

(* The last cell of the last row is the answer.                            *)
LEMMA FinishKeepsInv == ASSUME DistanceInv, Distance!Finish PROVE DistanceInv'
<1>0. /\ result = Distance!Running /\ row = Len(a)
      /\ result' = IF previous[Len(b)] > maxK THEN Distance!TooFar ELSE previous[Len(b)]
      /\ a' = a /\ b' = b /\ maxK' = maxK
  BY DEF Distance!Finish
<1>1. Walks /\ Len(a) \in Nat /\ Len(b) \in Nat /\ maxK \in {1, 2}
  BY <1>0 DEF DistanceInv
<1>2. PICK D : IsTable(D, a, b) /\ Distance!EditDistance(a, b) = D[Len(a)][Len(b)]
  BY <1>1, DistanceIsOfTable
<1> DEFINE d == D[Len(a)][Len(b)]
<1>3. d \in Nat /\ maxK \in Nat
  BY <1>1, <1>2 DEF IsTable
<1>4. previous[Len(b)] = Cap(d, maxK)
  <2>1. Kept(previous, D, maxK, row, Len(b))
    BY <1>1, <1>2 DEF Walks
  <2>2. Len(b) \in 0..Len(b) /\ row - maxK - 1 <= Len(b) /\ Len(b) <= row + maxK + 1
    BY <1>0, <1>1 DEF Walks
  <2> QED BY <1>0, <2>1, <2>2 DEF Kept
<1>5. Len(a) - Len(b) \in (-maxK)..maxK
  BY <1>1 DEF Walks
<1>6. Distance!Within(a, b, maxK) = IF d > maxK THEN Distance!TooFar ELSE d
  BY <1>2, <1>5 DEF Distance!Within
<1> HIDE DEF d
<1>7. result' = IF d > maxK THEN Distance!TooFar ELSE d
  BY <1>0, <1>3, <1>4 DEF Cap
<1>8. result' = Distance!Within(a, b, maxK) /\ result' # Distance!Running
  BY <1>3, <1>6, <1>7 DEF Distance!TooFar, Distance!Running
<1>9. Distance!BandedIsLevenshtein'
  BY <1>0, <1>8 DEF Distance!BandedIsLevenshtein, Distance!Within, Distance!EditDistance
<1>10. (result = Distance!Running)' => Walks'
  BY <1>8 DEF Distance!Running
<1> QED BY <1>0, <1>1, <1>9, <1>10 DEF DistanceInv

(* No step loses what the walk has kept.                                   *)
LEMMA DistanceKeepsInv == ASSUME DistanceInv, [Distance!Next]_distanceVars PROVE DistanceInv'
<1>1. CASE UNCHANGED distanceVars
  BY <1>1 DEF distanceVars, DistanceInv, Walks, Distance!BandedIsLevenshtein, Distance!Within,
              Distance!EditDistance, Distance!Running
<1>2. CASE Distance!Row
  BY <1>2, RowKeepsInv
<1>3. CASE Distance!Finish
  BY <1>3, FinishKeepsInv
<1> QED BY <1>1, <1>2, <1>3 DEF Distance!Next, Distance!vars, distanceVars

(* BandedIsLevenshtein for names of any length over any alphabet.          *)
THEOREM BandLosesNothing == MCSpec => []BandedIsLevenshtein
<1> DEFINE Inv == subject = "distance" => DistanceInv
<1>1. MCInit => Inv
  BY DistanceInit, DistanceAssumption DEF MCInit
<1>2. Inv /\ [MCNext]_<<subject, installedVars, distanceVars, resemblanceVars, pythonVars>> => Inv'
  <2> SUFFICES ASSUME Inv, [MCNext]_<<subject, installedVars, distanceVars, resemblanceVars, pythonVars>>,
                      subject' = "distance"
               PROVE  DistanceInv'
    OBVIOUS
  <2>1. subject' = subject
    BY DEF MCNext, InstalledStep, DistanceStep, ResemblanceStep, PythonStep
  <2>2. [Distance!Next]_distanceVars
    BY DEF MCNext, InstalledStep, DistanceStep, ResemblanceStep, PythonStep
  <2> QED BY <2>1, <2>2, DistanceKeepsInv
<1>3. Inv => BandedIsLevenshtein
  BY DEF BandedIsLevenshtein, DistanceInv
<1> QED BY <1>1, <1>2, <1>3, PTL DEF MCSpec

------------------------------------------------------------------------------
(* What a name resembles, rule by rule.                                    *)

NpmName == Seq(DOMAIN Keyboard) \ {<<>>}

(* The place of a first one is one of the places.                          *)
LEMMA FirstIsOne ==
  ASSUME NEW S \in SUBSET Nat, S # {}
  PROVE  Resemblance!Min(S) \in S
BY LeastOf DEF Resemblance!Min

(* Names of one form with respect to the separators are equally long.      *)
LEMMA SameFormSameLength ==
  ASSUME NEW n \in NpmName, NEW t \in NpmName,
         Resemblance!NormalizeSeparators(n) = Resemblance!NormalizeSeparators(t)
  PROVE  Len(n) = Len(t)
<1>1. DOMAIN Resemblance!NormalizeSeparators(n) = DOMAIN n /\ DOMAIN Resemblance!NormalizeSeparators(t) = DOMAIN t
  BY DEF Resemblance!NormalizeSeparators
<1>2. DOMAIN n = DOMAIN t
  BY <1>1
<1> QED BY <1>2 DEF NpmName

(* Without its scope's marks a name is one character shorter.              *)
LEMMA FlattenedIsShorter ==
  ASSUME NEW t \in NpmName, Resemblance!Scoped(t)
  PROVE  Len(Resemblance!FlattenScope(t)) = Len(t) - 1
<1> DEFINE c == Resemblance!Cut(t)
<1>0. t \in Seq(DOMAIN Keyboard) /\ DOMAIN t = 1..Len(t) /\ Len(t) \in Nat
  BY DEF NpmName
<1>1. c \in Resemblance!Slashes(t)
  <2>1. Resemblance!Slashes(t) \in SUBSET Nat /\ Resemblance!Slashes(t) # {}
    BY <1>0 DEF Resemblance!Slashes, Resemblance!Scoped
  <2> QED BY <2>1, FirstIsOne DEF Resemblance!Cut
<1>2. c \in 1..Len(t) /\ c > 2 /\ c < Len(t)
  BY <1>0, <1>1 DEF Resemblance!Slashes, Resemblance!Scoped
<1> DEFINE C == DOMAIN Keyboard \cup {"-"}
           u == SubSeq(t, 2, c - 1)
           v == SubSeq(t, c + 1, Len(t))
<1> HIDE DEF c
<1>3. u \in Seq(C) /\ Len(u) = c - 2
  BY <1>0, <1>2
<1>4. v \in Seq(C) /\ Len(v) = Len(t) - c
  <2>1. t \in Seq(C) /\ c + 1 \in 1..(Len(t) + 1) /\ Len(t) \in 1..Len(t) /\ Len(t) - (c + 1) + 1 = Len(t) - c
    BY <1>0, <1>2
  <2>2. c + 1 <= Len(t) + 1 /\ c + 1 \in Nat
    BY <1>0, <1>2
  <2> HIDE DEF C
  <2>3. \A i \in (c + 1)..Len(t) : t[i] \in C
    BY <1>0, <1>2, <2>1
  <2>4. v \in Seq(C) /\ Len(v) = IF c + 1 <= Len(t) THEN Len(t) - (c + 1) + 1 ELSE 0
    BY <1>0, <1>2, <2>3, SubSeqProperties
  <2>5. c \in Nat /\ Len(t) \in Nat /\ c < Len(t)
    BY <1>0, <1>2
  <2>6. \A l, k \in Nat : k < l => k + 1 <= l /\ l - (k + 1) + 1 = l - k
    OBVIOUS
  <2>7. c + 1 <= Len(t) /\ Len(t) - (c + 1) + 1 = Len(t) - c
    BY <2>5, <2>6
  <2> QED BY <2>4, <2>7
<1>5. <<"-">> \in Seq(C) /\ Len(<<"-">>) = 1
  OBVIOUS
<1> HIDE DEF u, v, C
<1>6. Len((u \o <<"-">>) \o v) = Len(u) + 1 + Len(v)
  BY <1>3, <1>4, <1>5
<1>7. Resemblance!FlattenScope(t) = (u \o <<"-">>) \o v
  BY DEF Resemblance!FlattenScope, c, u, v
<1>8. \A l, k \in Nat : k < l => (k - 2) + 1 + (l - k) = l - 1
  OBVIOUS
<1>9. c \in Nat /\ Len(t) \in Nat /\ c < Len(t)
  BY <1>0, <1>2
<1>10. Len(u) + 1 + Len(v) = (c - 2) + 1 + (Len(t) - c)
  BY <1>3, <1>4
<1> QED BY <1>6, <1>7, <1>8, <1>9, <1>10

(* The positions where a name changes character are fewer than the name's. *)
LEMMA MovesAreFew ==
  ASSUME NEW n \in NpmName
  PROVE  /\ IsFiniteSet(Resemblance!Moves(n)) /\ Cardinality(Resemblance!Moves(n)) \in Nat
         /\ Resemblance!Moves(n) \subseteq 2..Len(n)
         /\ Cardinality(Resemblance!Moves(n)) = Len(n) - 1 => Resemblance!Moves(n) = 2..Len(n)
<1>1. Len(n) \in Nat /\ Len(n) >= 1
  BY DEF NpmName
<1>2. Resemblance!Moves(n) \in SUBSET (2..Len(n))
  BY DEF Resemblance!Moves
<1>3. IsFiniteSet(2..Len(n)) /\ Cardinality(2..Len(n)) = Len(n) - 1
  BY <1>1, FS_Interval
<1>4. /\ IsFiniteSet(Resemblance!Moves(n))
      /\ Cardinality(2..Len(n)) = Cardinality(Resemblance!Moves(n)) => 2..Len(n) = Resemblance!Moves(n)
  BY <1>2, <1>3, FS_Subset
<1> QED BY <1>2, <1>3, <1>4, FS_CardinalityType

(* Listed in order, the positions 2 to m are the numbers that follow.      *)
LEMMA InOrderOfAll ==
  ASSUME NEW m \in Nat, NEW k \in 1..(m - 1)
  PROVE  Resemblance!InOrder(2..m)[k] = k + 1
<1>1. Cardinality(2..m) = m - 1
  BY FS_Interval
<1>2. \A S : Resemblance!Cardinality(S) = Cardinality(S)
  BY DEF Resemblance!Cardinality, Cardinality, Resemblance!IsFiniteSet, IsFiniteSet
<1>3. ASSUME NEW i \in 2..m PROVE Cardinality({j \in 2..m : j <= i}) = i - 1
  <2>1. {j \in 2..m : j <= i} = 2..i
    OBVIOUS
  <2>2. Cardinality(2..i) = i - 1
    BY FS_Interval
  <2> QED BY <2>1, <2>2
<1>4. Resemblance!InOrder(2..m)[k] = CHOOSE i \in 2..m : Cardinality({j \in 2..m : j <= i}) = k
  BY <1>1, <1>2 DEF Resemblance!InOrder
<1>5. k + 1 \in 2..m /\ \A i \in 2..m : Cardinality({j \in 2..m : j <= i}) = k <=> i = k + 1
  BY <1>3
<1> QED BY <1>4, <1>5

(* A name whose repeated characters collapse to as many has none.          *)
LEMMA CollapseIsIdentity ==
  ASSUME NEW n \in NpmName, Len(Resemblance!CollapseRuns(n)) = Len(n)
  PROVE  Resemblance!CollapseRuns(n) = n /\ Resemblance!Moves(n) = 2..Len(n)
<1> DEFINE at == Resemblance!InOrder(Resemblance!Moves(n))
           m == Len(n)
           q == Cardinality(Resemblance!Moves(n))
           rest == [k \in DOMAIN at |-> n[at[k]]]
           C == Range(n) \cup {n[at[k]] : k \in DOMAIN at}
<1>0. n \in Seq(DOMAIN Keyboard) /\ DOMAIN n = 1..m /\ m \in Nat /\ m >= 1
  BY DEF NpmName
<1>1. DOMAIN at = 1..q /\ q \in Nat
  <2>1. Resemblance!Cardinality(Resemblance!Moves(n)) = q
    BY DEF Resemblance!Cardinality, Cardinality, Resemblance!IsFiniteSet, IsFiniteSet
  <2> QED BY <2>1, MovesAreFew DEF Resemblance!InOrder
<1>2. Resemblance!CollapseRuns(n) = <<n[1]>> \o rest
  BY DEF Resemblance!CollapseRuns
<1> DEFINE D == {n[1]} \cup {n[at[k]] : k \in DOMAIN at}
<1> HIDE DEF q, at
<1>3. rest \in Seq(D) /\ Len(rest) = q
  BY <1>1
<1>4. <<n[1]>> \in Seq(D) /\ Len(<<n[1]>>) = 1
  OBVIOUS
<1> HIDE DEF rest, D
<1>5. Len(<<n[1]>> \o rest) = 1 + q /\ <<n[1]>> \o rest \in Seq(D)
  BY <1>1, <1>3, <1>4
<1>6. q = m - 1
  BY <1>0, <1>1, <1>2, <1>5
<1>7. Resemblance!Moves(n) = 2..m
  BY <1>6, MovesAreFew DEF q
<1>8. ASSUME NEW k \in 1..q PROVE at[k] = k + 1
  BY <1>0, <1>6, <1>7, InOrderOfAll DEF at
<1>9. ASSUME NEW i \in 1..m PROVE (<<n[1]>> \o rest)[i] = n[i]
  <2>1. CASE i = 1
    BY <1>3, <1>4, <2>1
  <2>2. CASE i # 1
    <3>1. i - 1 \in 1..q
      BY <1>0, <1>6, <2>2
    <3>2. (<<n[1]>> \o rest)[i] = rest[i - 1]
      BY <1>0, <1>1, <1>3, <1>4, <1>6, <2>2
    <3>3. rest[i - 1] = n[at[i - 1]]
      BY <1>1, <3>1 DEF rest
    <3>4. at[i - 1] = (i - 1) + 1 /\ (i - 1) + 1 = i
      BY <1>0, <1>8, <3>1
    <3>5. n[at[i - 1]] = n[i]
      BY <3>4
    <3> QED BY <3>2, <3>3, <3>5
  <2> QED BY <2>1, <2>2
<1>10. Len(<<n[1]>> \o rest) = Len(n)
  BY <1>0, <1>1, <1>5, <1>6
<1> DEFINE s == <<n[1]>> \o rest
<1> HIDE DEF s
<1>11. s \in Seq(D \cup DOMAIN Keyboard) /\ n \in Seq(D \cup DOMAIN Keyboard) /\ Len(s) = Len(n)
         /\ \A i \in 1..Len(s) : s[i] = n[i]
  BY <1>0, <1>5, <1>9, <1>10 DEF s
<1>12. s = n
  BY <1>11, SeqEqual
<1> QED BY <1>2, <1>7, <1>12 DEF s

(* One candidate among the targets is enough for a hit.                    *)
LEMMA SomeHit ==
  ASSUME NEW s, NEW T, DOMAIN s \subseteq Nat, NEW k \in DOMAIN s, s[k] \in T
  PROVE  Resemblance!FirstHit(s, T) # {}
<1> DEFINE hits == {i \in DOMAIN s : s[i] \in T}
<1>1. hits \in SUBSET Nat /\ k \in hits
  OBVIOUS
<1>2. PICK i \in hits : \A j \in hits : i <= j
  <2> HIDE DEF hits
  <2> QED BY <1>1, LeastOf
<1>3. s[i] \in {s[j] : j \in {j \in hits : \A l \in hits : j <= l}}
  BY <1>2
<1>4. Resemblance!FirstHit(s, T) = {s[j] : j \in {j \in hits : \A l \in hits : j <= l}}
  BY DEF Resemblance!FirstHit
<1> QED BY <1>3, <1>4

(* A list of positions in order lists each of them, and nothing else.      *)
LEMMA InOrderLists ==
  ASSUME NEW m \in Nat, NEW S \in SUBSET (1..m)
  PROVE  \E q \in Nat : /\ DOMAIN Resemblance!InOrder(S) = 1..q
                        /\ \A k \in 1..q : Resemblance!InOrder(S)[k] \in S
                        /\ \A i \in S : \E k \in 1..q : Resemblance!InOrder(S)[k] = i
<1> DEFINE Below(i) == {j \in S : j <= i}
           q == Cardinality(S)
           count == [i \in S |-> Cardinality(Below(i))]
<1>0. IsFiniteSet(S) /\ q \in Nat
  <2>1. IsFiniteSet(1..m)
    BY FS_Interval
  <2>2. IsFiniteSet(S)
    BY <2>1, FS_Subset
  <2> QED BY <2>2, FS_CardinalityType
<1>1. ASSUME NEW i \in S PROVE IsFiniteSet(Below(i)) /\ Cardinality(Below(i)) \in 1..q
  <2>1. Below(i) \in SUBSET S /\ i \in Below(i)
    OBVIOUS
  <2> HIDE DEF Below, q
  <2>2. IsFiniteSet(Below(i)) /\ Cardinality(Below(i)) <= q
    BY <1>0, <2>1, FS_Subset DEF q
  <2>3. Cardinality(Below(i)) \in Nat /\ Cardinality(Below(i)) # 0
    BY <2>1, <2>2, FS_CardinalityType, FS_EmptySet
  <2> QED BY <1>0, <2>2, <2>3
<1>2. ASSUME NEW i \in S, NEW l \in S, i < l PROVE Cardinality(Below(i)) # Cardinality(Below(l))
  <2>1. Below(i) \in SUBSET Below(l) /\ l \in Below(l) /\ l \notin Below(i)
    <3>1. S \subseteq Nat /\ i \in Nat /\ l \in Nat /\ l <= l /\ ~(l <= i)
      BY <1>2
    <3>2. \A j \in Nat : j <= i => j <= l
      BY <1>2, <3>1
    <3> QED BY <3>1, <3>2
  <2> HIDE DEF Below
  <2> QED BY <1>1, <2>1, FS_Subset
<1> HIDE DEF Below, q
<1>3. count \in Injection(S, 1..q)
  <2>1. count \in [S -> 1..q]
    BY <1>1
  <2>2. ASSUME NEW i \in S, NEW l \in S, count[i] = count[l] PROVE i = l
    <3>1. i \in Nat /\ l \in Nat
      OBVIOUS
    <3>2. i < l \/ l < i \/ i = l
      BY <3>1
    <3> QED BY <1>2, <2>2, <3>2
  <2> HIDE DEF count
  <2> QED BY <2>1, <2>2 DEF Injection, IsInjective
<1>4. count \in Surjection(S, 1..q)
  <2>1. IsFiniteSet(1..q) /\ Cardinality(1..q) = q
    BY <1>0, FS_Interval
  <2> HIDE DEF count
  <2> QED BY <1>3, <2>1, FS_Injection DEF q
<1>5. Resemblance!InOrder(S) = [k \in 1..q |-> CHOOSE i \in S : Cardinality(Below(i)) = k]
  BY DEF Resemblance!InOrder, Resemblance!Cardinality, Cardinality, Resemblance!IsFiniteSet, IsFiniteSet, Below, q
<1>6. ASSUME NEW k \in 1..q
      PROVE  Resemblance!InOrder(S)[k] \in S /\ Cardinality(Below(Resemblance!InOrder(S)[k])) = k
  <2>1. PICK i \in S : count[i] = k
    BY <1>4 DEF Surjection
  <2>2. Cardinality(Below(i)) = k
    BY <2>1
  <2> QED BY <1>5, <2>2
<1>7. ASSUME NEW i \in S PROVE \E k \in 1..q : Resemblance!InOrder(S)[k] = i
  <2> DEFINE k == Cardinality(Below(i))
             l == Resemblance!InOrder(S)[k]
  <2>1. k \in 1..q
    BY <1>1
  <2>2. l \in S /\ Cardinality(Below(l)) = k
    BY <1>6, <2>1
  <2>3. l = i
    <3>1. l \in Nat /\ i \in Nat
      <4> HIDE DEF l
      <4> QED BY <2>2
    <3>2. l < i \/ i < l \/ l = i
      <4> HIDE DEF l
      <4> QED BY <3>1
    <3> HIDE DEF l
    <3>3. ASSUME l < i PROVE FALSE
      BY <1>2, <2>2, <3>3 DEF k
    <3>4. ASSUME i < l PROVE FALSE
      BY <1>2, <2>2, <3>4 DEF k
    <3> QED BY <3>2, <3>3, <3>4
  <2> QED BY <2>1, <2>3
<1>8. DOMAIN Resemblance!InOrder(S) = 1..q
  BY <1>5
<1> QED BY <1>0, <1>6, <1>7, <1>8

(* Without one of its characters a name is one shorter.                    *)
LEMMA OneRemoved ==
  ASSUME NEW n \in NpmName, NEW i \in 1..Len(n)
  PROVE  Len(Resemblance!RemoveAt(n, i)) = Len(n) - 1
<1> DEFINE u == SubSeq(n, 1, i - 1)
           v == SubSeq(n, i + 1, Len(n))
           C == DOMAIN Keyboard
           m == Len(n)
<1>0. n \in Seq(C) /\ m \in Nat /\ i \in Nat /\ i >= 1 /\ i <= m /\ \A j \in 1..m : n[j] \in C
  BY DEF NpmName
<1>1. u \in Seq(C) /\ Len(u) = i - 1
  <2>1. \A j \in 1..(i - 1) : n[j] \in C
    BY <1>0
  <2>2. 1 \in Int /\ i - 1 \in Int
    BY <1>0
  <2> HIDE DEF C, m
  <2>3. u \in Seq(C) /\ Len(u) = IF 1 <= i - 1 THEN (i - 1) - 1 + 1 ELSE 0
    BY <2>1, <2>2, SubSeqProperties
  <2> QED BY <1>0, <2>3
<1>2. v \in Seq(C) /\ Len(v) = m - i
  <2>1. \A j \in (i + 1)..m : n[j] \in C
    BY <1>0
  <2>2. i + 1 \in Int /\ m \in Int
    BY <1>0
  <2> HIDE DEF C
  <2>3. v \in Seq(C) /\ Len(v) = IF i + 1 <= m THEN m - (i + 1) + 1 ELSE 0
    BY <2>1, <2>2, SubSeqProperties
  <2> HIDE DEF m, v
  <2> QED BY <1>0, <2>3
<1>3. Resemblance!RemoveAt(n, i) = u \o v
  BY DEF Resemblance!RemoveAt
<1> HIDE DEF u, v, C, m
<1>4. Len(u \o v) = Len(u) + Len(v)
  BY <1>1, <1>2, ConcatProperties
<1>5. Len(u \o v) = m - 1
  BY <1>0, <1>1, <1>2, <1>4
<1> QED BY <1>3, <1>5 DEF m

(* A flattened list has the members of its parts.                          *)
LEMMA FlattenedMembers ==
  ASSUME NEW m \in Nat, m >= 1, NEW V, NEW parts \in [1..m -> Seq(V)]
  PROVE  /\ Resemblance!FlattenSeq(parts) \in Seq(V)
         /\ \A x : (\E i \in 1..m : x \in Range(parts[i])) <=> x \in Range(Resemblance!FlattenSeq(parts))
<1> DEFINE Body(t) == [i \in 1..m |-> IF i = 1 THEN parts[i] ELSE t[i - 1] \o parts[i]]
           flat == CHOOSE t : t = Body(t)
           step == [i \in 2..m |-> [v \in Seq(V) |-> v \o parts[i]]]
<1>0. parts \in Seq(Seq(V)) /\ Len(parts) = m
  OBVIOUS
<1>1. Resemblance!FlattenSeq(parts) = flat[m]
  <2>1. Resemblance!FlattenSeq(parts) =
          (CHOOSE t : t = [i \in 1..Len(parts) |-> IF i = 1 THEN parts[i] ELSE t[i - 1] \o parts[i]])[Len(parts)]
    BY <1>0 DEF Resemblance!FlattenSeq
  <2> QED BY <1>0, <2>1
<1>2. PICK f \in [1..m -> Seq(V)] : Follows(f, 1, m, parts[1], step)
  <2>1. parts[1] \in Seq(V)
    OBVIOUS
  <2>2. step \in [(1 + 1)..m -> [Seq(V) -> Seq(V)]]
    <3>1. \A i \in 2..m, v \in Seq(V) : v \o parts[i] \in Seq(V)
      <4> TAKE i \in 2..m, v \in Seq(V)
      <4>1. parts[i] \in Seq(V)
        OBVIOUS
      <4> QED BY <4>1, ConcatProperties
    <3> QED BY <3>1
  <2>3. 1 \in Int /\ m \in Int /\ 1 <= m
    OBVIOUS
  <2> HIDE DEF step
  <2> QED BY <2>1, <2>2, <2>3, Recursion
<1>3. f[1] = parts[1] /\ \A i \in 2..m : f[i] = f[i - 1] \o parts[i]
  <2>1. f[1] = parts[1] /\ \A i \in (1 + 1)..m : f[i] = step[i][f[i - 1]]
    <3> HIDE DEF step
    <3> QED BY <1>2 DEF Follows
  <2>2. ASSUME NEW i \in 2..m PROVE f[i] = f[i - 1] \o parts[i]
    <3>1. f[i - 1] \in Seq(V)
      <4>1. i - 1 \in 1..m
        OBVIOUS
      <4> QED BY <4>1
    <3>2. f[i] = step[i][f[i - 1]]
      <4> HIDE DEF step
      <4> QED BY <2>1
    <3> QED BY <3>1, <3>2
  <2> QED BY <2>1, <2>2
<1>4. f = Body(f)
  <2>1. \A i \in 1..m : i # 1 => i \in 2..m
    OBVIOUS
  <2> QED BY <1>3, <2>1
<1>5. flat = Body(flat)
  BY <1>4
<1> DEFINE e(i) == IF i = 1 THEN parts[i] ELSE flat[i - 1] \o parts[i]
<1>6. flat = [i \in 1..m |-> e(i)]
  BY <1>5
<1> HIDE DEF flat, Body, step
<1>7. flat[1] = parts[1] /\ \A i \in 1..(m - 1) : flat[i + 1] = flat[i] \o parts[i + 1]
  <2>1. \A i \in 1..m : flat[i] = e(i)
    <3> HIDE DEF e
    <3> QED BY <1>6
  <2>2. flat[1] = parts[1]
    <3>1. 1 \in 1..m
      OBVIOUS
    <3> QED BY <2>1, <3>1
  <2>3. ASSUME NEW i \in 1..(m - 1) PROVE flat[i + 1] = flat[i] \o parts[i + 1]
    <3>1. i + 1 \in 1..m /\ i + 1 # 1 /\ (i + 1) - 1 = i
      OBVIOUS
    <3>2. flat[i + 1] = e(i + 1)
      <4> HIDE DEF e
      <4> QED BY <2>1, <3>1
    <3> QED BY <3>1, <3>2
  <2> QED BY <2>2, <2>3
<1> DEFINE Good(i) == /\ flat[i] \in Seq(V)
                      /\ \A x : (\E l \in 1..i : x \in Range(parts[l])) <=> x \in Range(flat[i])
           S == {i \in 1..m : Good(i)}
<1>8. 1 \in S
  <2>1. flat[1] \in Seq(V)
    BY <1>7
  <2>2. \A l \in 1..1 : l = 1
    OBVIOUS
  <2> QED BY <1>7, <2>1, <2>2
<1>9. ASSUME NEW i \in 1..(m - 1), i \in S PROVE i + 1 \in S
  <2> DEFINE p == parts[i + 1]
             g == flat[i]
  <2>1. i + 1 \in 1..m /\ i \in Nat
    OBVIOUS
  <2>2. p \in Seq(V) /\ g \in Seq(V) /\ flat[i + 1] = g \o p
    BY <1>7, <1>9, <2>1
  <2>3. \A x : (\E l \in 1..i : x \in Range(parts[l])) <=> x \in Range(g)
    BY <1>9
  <2> HIDE DEF g, p
  <2>4. g \o p \in Seq(V)
    BY <2>2, ConcatProperties
  <2>5. ASSUME NEW x PROVE x \in Range(g \o p) <=> x \in Range(g) \/ x \in Range(p)
    <3>0. /\ Len(g) \in Nat /\ Len(p) \in Nat /\ DOMAIN g = 1..Len(g) /\ DOMAIN p = 1..Len(p)
          /\ DOMAIN (g \o p) = 1..(Len(g) + Len(p))
      BY <2>2, <2>4, ConcatProperties
    <3>1. \A k \in 1..(Len(g) + Len(p)) : (g \o p)[k] = IF k <= Len(g) THEN g[k] ELSE p[k - Len(g)]
      BY <2>2, ConcatProperties
    <3>2. ASSUME x \in Range(g \o p) PROVE x \in Range(g) \/ x \in Range(p)
      <4>1. PICK k \in 1..(Len(g) + Len(p)) : x = (g \o p)[k]
        BY <3>0, <3>2 DEF Range
      <4>2. CASE k <= Len(g)
        <5>1. k \in DOMAIN g /\ x = g[k]
          BY <3>0, <3>1, <4>1, <4>2
        <5> QED BY <5>1 DEF Range
      <4>3. CASE ~(k <= Len(g))
        <5>1. k - Len(g) \in DOMAIN p /\ x = p[k - Len(g)]
          BY <3>0, <3>1, <4>1, <4>3
        <5> QED BY <5>1 DEF Range
      <4> QED BY <4>2, <4>3
    <3>3. ASSUME x \in Range(g) PROVE x \in Range(g \o p)
      <4>1. PICK k \in DOMAIN g : x = g[k]
        BY <3>3 DEF Range
      <4>2. k \in 1..(Len(g) + Len(p)) /\ k <= Len(g)
        BY <3>0, <4>1
      <4>3. (g \o p)[k] = x
        BY <3>1, <4>1, <4>2
      <4> QED BY <3>0, <4>2, <4>3 DEF Range
    <3>4. ASSUME x \in Range(p) PROVE x \in Range(g \o p)
      <4>1. PICK k \in DOMAIN p : x = p[k]
        BY <3>4 DEF Range
      <4>2. k + Len(g) \in 1..(Len(g) + Len(p)) /\ ~(k + Len(g) <= Len(g)) /\ (k + Len(g)) - Len(g) = k
        BY <3>0, <4>1
      <4>3. (g \o p)[k + Len(g)] = x
        BY <3>1, <4>1, <4>2
      <4> QED BY <3>0, <4>2, <4>3 DEF Range
    <3> QED BY <3>2, <3>3, <3>4
  <2>6. ASSUME NEW x PROVE (\E l \in 1..(i + 1) : x \in Range(parts[l])) <=> x \in Range(g) \/ x \in Range(p)
    <3>1. \A l \in 1..(i + 1) : l \in 1..i \/ l = i + 1
      BY <2>1
    <3>2. \A l \in 1..i : l \in 1..(i + 1)
      BY <2>1
    <3>3. i + 1 \in 1..(i + 1)
      BY <2>1
    <3> QED BY <2>3, <3>1, <3>2, <3>3 DEF p
  <2>7. Good(i + 1)
    BY <2>2, <2>4, <2>5, <2>6
  <2> QED BY <2>1, <2>7
<1> HIDE DEF Good
<1>10. GoesOn(S, 1, m)
  BY <1>9 DEF GoesOn
<1> HIDE DEF S
<1>11. m \in S
  <2>1. 1..m \subseteq S
    BY <1>8, <1>10, Induction
  <2> QED BY <2>1
<1>12. Good(m)
  BY <1>11 DEF S
<1> QED BY <1>1, <1>12 DEF Good

(* The new name and the list it is judged against.                         *)
NpmSubject == name \in NpmName /\ top \in Seq(NpmName)

(* A target is another name of the list, of three characters at least.     *)
LEMMA TargetsAreListed ==
  ASSUME NpmSubject, NEW t \in Resemblance!Targets
  PROVE  /\ t \in NpmName /\ t # name /\ Len(t) >= 3 /\ Len(t) \in Nat /\ Len(t) \in Resemblance!Lengths
         /\ \E i \in DOMAIN top : top[i] = t
<1>1. t \in Resemblance!Ranked /\ t # name /\ Len(t) >= 3
  BY DEF Resemblance!Targets
<1>2. \E i \in DOMAIN top : top[i] = t
  BY <1>1 DEF Resemblance!Ranked, Resemblance!Range
<1>3. t \in NpmName
  BY <1>2 DEF NpmSubject
<1> QED BY <1>1, <1>2, <1>3 DEF Resemblance!Lengths, NpmName

(* What the list has at a place is a ranked name.                          *)
LEMMA ListedIsRanked ==
  ASSUME NpmSubject, NEW i \in DOMAIN top
  PROVE  top[i] \in NpmName /\ top[i] \in Resemblance!Ranked
BY DEF NpmSubject, Resemblance!Ranked, Resemblance!Range

(* The band of the part of the name that is compared.                      *)
BandFor(t) == Resemblance!Band(IF Resemblance!SameScope(name, t) THEN Resemblance!Tail2(name) ELSE name)

(* What each rule calls alike.                                             *)
LEMMA AlikeByRule ==
  ASSUME NEW t
  PROVE  /\ Resemblance!Alike("separator-swap", t)
              <=> Resemblance!NormalizeSeparators(t) = Resemblance!NormalizeSeparators(name)
         /\ Resemblance!Alike("scope-flattening", t)
              <=> (Resemblance!Scoped(name) /\ Resemblance!FlattenScope(name) = t)
                    \/ (Resemblance!Scoped(t) /\ Resemblance!FlattenScope(t) = name)
         /\ Resemblance!Alike("character-repetition", t)
              <=> Resemblance!CollapseRuns(name) = t
                    \/ \E i \in Resemblance!Repeats(name) : Resemblance!RemoveAt(name, i) = t
         /\ Resemblance!Alike("character-transposition", t)
              <=> \E i \in 2..Len(name) : [name EXCEPT ![i - 1] = name[i], ![i] = name[i - 1]] = t
         /\ Resemblance!Alike("keyboard-adjacency", t)
              <=> \E i \in DOMAIN name : \E ch \in Resemblance!Range(Keyboard[name[i]]) : [name EXCEPT ![i] = ch] = t
         /\ Resemblance!Alike("edit-distance", t) <=> Resemblance!Edits(t) \in 1..BandFor(t)
         /\ \A r : r \notin {"separator-swap", "scope-flattening", "character-repetition", "character-transposition",
                             "keyboard-adjacency", "edit-distance"} => ~Resemblance!Alike(r, t)
BY DEF Resemblance!Alike, BandFor

(* A rule that proposes names proposes targets it calls alike, the         *)
(* distance rule the closest, and one at least when there are any.         *)
Proposes(r, H) ==
  /\ \A s \in H : /\ s \in Resemblance!Targets /\ Resemblance!Alike(r, s)
                  /\ r = "edit-distance" =>
                       \A t \in Resemblance!Targets :
                         Resemblance!Alike(r, t) => Resemblance!Edits(s) <= Resemblance!Edits(t)
  /\ H = {} => \A t \in Resemblance!Targets : ~Resemblance!Alike(r, t)

(* The first listed name of a form stands for all names of the form.       *)
LEMMA SeparatorsTried ==
  ASSUME NpmSubject, name \notin Resemblance!Ranked
  PROVE  Proposes("separator-swap", Resemblance!SeparatorMatch)
<1> DEFINE at == {i \in DOMAIN top : Resemblance!NormalizeSeparators(top[i]) = Resemblance!NormalizeSeparators(name)}
           f == Resemblance!Min(at)
<1>1. Resemblance!SeparatorMatch =
        IF Len(name) \notin Resemblance!Lengths \/ at = {} THEN {} ELSE {top[f]} \cap Resemblance!Targets
  BY DEF Resemblance!SeparatorMatch, Resemblance!First
<1>2. ASSUME at # {} PROVE f \in DOMAIN top /\ Resemblance!NormalizeSeparators(top[f]) = Resemblance!NormalizeSeparators(name)
  <2>1. at \in SUBSET Nat
    BY DEF NpmSubject
  <2>2. f \in at
    <3> HIDE DEF at
    <3> QED BY <1>2, <2>1, FirstIsOne
  <2> HIDE DEF f
  <2> QED BY <2>2
<1>3. ASSUME NEW t \in Resemblance!Targets, Resemblance!Alike("separator-swap", t) PROVE Resemblance!SeparatorMatch # {}
  <2>1. t \in NpmName /\ Len(t) >= 3 /\ Len(t) \in Resemblance!Lengths /\ name \in NpmName
    BY TargetsAreListed DEF NpmSubject
  <2>2. Resemblance!NormalizeSeparators(t) = Resemblance!NormalizeSeparators(name)
    BY <1>3, AlikeByRule
  <2>3. Len(name) = Len(t)
    BY <2>1, <2>2, SameFormSameLength
  <2>4. at # {}
    BY <2>2, TargetsAreListed
  <2> HIDE DEF at, f
  <2>5. top[f] \in NpmName /\ top[f] \in Resemblance!Ranked
    BY <1>2, <2>4, ListedIsRanked
  <2>6. Len(top[f]) = Len(name)
    BY <1>2, <2>1, <2>4, <2>5, SameFormSameLength
  <2>7. top[f] \in Resemblance!Targets
    BY <2>1, <2>3, <2>5, <2>6 DEF Resemblance!Targets
  <2> QED BY <1>1, <2>1, <2>3, <2>4, <2>7
<1>4. ASSUME NEW s \in Resemblance!SeparatorMatch
      PROVE  s \in Resemblance!Targets /\ Resemblance!Alike("separator-swap", s)
  <2> HIDE DEF at, f
  <2>1. at # {} /\ s = top[f] /\ s \in Resemblance!Targets
    BY <1>1
  <2> QED BY <1>2, <2>1, AlikeByRule
<1> QED BY <1>3, <1>4 DEF Proposes

(* The first listed name that flattens to the new one stands for the rest. *)
LEMMA ScopesTried ==
  ASSUME NpmSubject, name \notin Resemblance!Ranked
  PROVE  Proposes("scope-flattening", Resemblance!ScopeMatch)
<1> DEFINE flat == IF Resemblance!Scoped(name) THEN {Resemblance!FlattenScope(name)} \cap Resemblance!Targets ELSE {}
           at == {i \in DOMAIN top : Resemblance!Scoped(top[i]) /\ Resemblance!FlattenScope(top[i]) = name}
           f == Resemblance!Min(at)
<1>1. Resemblance!ScopeMatch =
        IF flat # {} THEN flat ELSE IF at = {} THEN {} ELSE {top[f]} \cap Resemblance!Targets
  BY DEF Resemblance!ScopeMatch, Resemblance!First
<1>2. ASSUME at # {} PROVE f \in DOMAIN top /\ Resemblance!Scoped(top[f]) /\ Resemblance!FlattenScope(top[f]) = name
  <2>1. at \in SUBSET Nat
    BY DEF NpmSubject
  <2>2. f \in at
    <3> HIDE DEF at
    <3> QED BY <1>2, <2>1, FirstIsOne
  <2> HIDE DEF f
  <2> QED BY <2>2
<1>3. ASSUME NEW t \in Resemblance!Targets, Resemblance!Scoped(t), Resemblance!FlattenScope(t) = name
      PROVE  at # {} /\ top[f] \in Resemblance!Targets
  <2>1. t \in NpmName /\ Len(t) >= 3 /\ name \in NpmName
    BY TargetsAreListed DEF NpmSubject
  <2>2. at # {}
    BY <1>3, TargetsAreListed
  <2> HIDE DEF at, f
  <2>3. top[f] \in NpmName /\ top[f] \in Resemblance!Ranked
    BY <1>2, <2>2, ListedIsRanked
  <2>4. Len(name) = Len(t) - 1 /\ Len(name) = Len(top[f]) - 1
    BY <1>2, <1>3, <2>1, <2>2, <2>3, FlattenedIsShorter
  <2>5. Len(top[f]) = Len(t)
    BY <2>1, <2>3, <2>4 DEF NpmName
  <2>6. top[f] \in Resemblance!Targets
    BY <2>1, <2>3, <2>5 DEF Resemblance!Targets
  <2> QED BY <2>2, <2>6
<1>4. ASSUME NEW t \in Resemblance!Targets, Resemblance!Alike("scope-flattening", t) PROVE Resemblance!ScopeMatch # {}
  <2>1. CASE Resemblance!Scoped(name) /\ Resemblance!FlattenScope(name) = t
    BY <1>1, <2>1
  <2>2. CASE Resemblance!Scoped(t) /\ Resemblance!FlattenScope(t) = name
    <3>1. at # {} /\ top[f] \in Resemblance!Targets
      BY <1>3, <2>2
    <3> HIDE DEF at, f, flat
    <3> QED BY <1>1, <3>1
  <2> QED BY <1>4, <2>1, <2>2, AlikeByRule
<1>5. ASSUME NEW s \in Resemblance!ScopeMatch
      PROVE  s \in Resemblance!Targets /\ Resemblance!Alike("scope-flattening", s)
  <2>1. CASE flat # {}
    BY <1>1, <2>1, AlikeByRule
  <2>2. CASE flat = {}
    <3> HIDE DEF at, f, flat
    <3>1. at # {} /\ s = top[f] /\ s \in Resemblance!Targets
      BY <1>1, <2>2
    <3> QED BY <1>2, <3>1, AlikeByRule
  <2> QED BY <2>1, <2>2
<1> QED BY <1>4, <1>5 DEF Proposes

(* The first hit among candidates is one of them and a target.             *)
LEMMA HitIsCandidate ==
  ASSUME NEW s, NEW T, NEW t \in Resemblance!FirstHit(s, T)
  PROVE  t \in T /\ \E k \in DOMAIN s : s[k] = t
BY DEF Resemblance!FirstHit

(* The gates of the repetition rule let every shorter name by.             *)
LEMMA RepetitionTried ==
  ASSUME NpmSubject
  PROVE  Proposes("character-repetition", Resemblance!RepetitionMatch)
<1> DEFINE R == Resemblance!Repeats(name)
           at == Resemblance!InOrder(R)
           collapsed == Resemblance!CollapseRuns(name)
           dropped == Resemblance!RepeatsDropped(name)
           T == Resemblance!Targets
<1>0. name \in NpmName /\ Len(name) \in Nat
  BY DEF NpmSubject, NpmName
<1>1. R \in SUBSET (1..Len(name))
  BY <1>0 DEF Resemblance!Repeats
<1>2. PICK q \in Nat : /\ DOMAIN at = 1..q
                       /\ \A k \in 1..q : at[k] \in R
                       /\ \A i \in R : \E k \in 1..q : at[k] = i
  <2> HIDE DEF R
  <2> QED BY <1>0, <1>1, InOrderLists
<1>3. dropped = [k \in 1..q |-> Resemblance!RemoveAt(name, at[k])]
  BY <1>2 DEF Resemblance!RepeatsDropped
<1>4. Resemblance!RepetitionMatch =
        IF Len(collapsed) = Len(name) THEN {}
        ELSE IF Len(collapsed) \in Resemblance!Lengths /\ collapsed \in T THEN {collapsed}
        ELSE IF Len(name) - 1 \in Resemblance!Lengths THEN Resemblance!FirstHit(dropped, T)
        ELSE {}
  BY DEF Resemblance!RepetitionMatch
<1>5. ASSUME R # {} PROVE Len(collapsed) # Len(name)
  <2> SUFFICES ASSUME Len(collapsed) = Len(name) PROVE FALSE
    OBVIOUS
  <2>1. Resemblance!Moves(name) = 2..Len(name)
    BY <1>0, CollapseIsIdentity
  <2> QED BY <1>5, <2>1 DEF Resemblance!Moves, Resemblance!Repeats
<1> HIDE DEF R, at, collapsed, dropped
<1>6. ASSUME NEW t \in T, Resemblance!Alike("character-repetition", t) PROVE Resemblance!RepetitionMatch # {}
  <2>0. t # name /\ Len(t) \in Resemblance!Lengths
    BY TargetsAreListed
  <2>1. CASE collapsed = t
    <3>1. Len(collapsed) # Len(name)
      BY <1>0, <2>0, <2>1, CollapseIsIdentity DEF collapsed
    <3> QED BY <1>4, <2>0, <2>1, <3>1
  <2>2. CASE \E i \in R : Resemblance!RemoveAt(name, i) = t
    <3>1. PICK i \in R : Resemblance!RemoveAt(name, i) = t
      BY <2>2
    <3>2. PICK k \in 1..q : at[k] = i
      BY <1>2
    <3>3. k \in DOMAIN dropped /\ dropped[k] = t /\ DOMAIN dropped \subseteq Nat
      BY <1>3, <3>1, <3>2
    <3>4. Len(name) - 1 \in Resemblance!Lengths
      BY <1>0, <1>1, <2>0, <3>1, OneRemoved
    <3>5. Resemblance!FirstHit(dropped, T) # {}
      <4> HIDE DEF T
      <4> QED BY <3>3, SomeHit
    <3>6. Len(collapsed) # Len(name)
      BY <1>5
    <3> QED BY <1>4, <3>4, <3>5, <3>6
  <2> QED BY <1>6, <2>1, <2>2, AlikeByRule DEF R, collapsed
<1>7. ASSUME NEW s \in Resemblance!RepetitionMatch
      PROVE  s \in T /\ Resemblance!Alike("character-repetition", s)
  <2>1. CASE s = collapsed /\ collapsed \in T
    BY <2>1, AlikeByRule DEF collapsed
  <2>2. CASE s \in Resemblance!FirstHit(dropped, T)
    <3>1. s \in T /\ \E k \in DOMAIN dropped : dropped[k] = s
      <4> HIDE DEF T
      <4> QED BY <2>2, HitIsCandidate
    <3>2. PICK k \in 1..q : Resemblance!RemoveAt(name, at[k]) = s
      BY <1>3, <3>1
    <3>3. at[k] \in R
      BY <1>2
    <3> QED BY <3>1, <3>2, <3>3, AlikeByRule DEF R
  <2> QED BY <1>4, <2>1, <2>2
<1> QED BY <1>6, <1>7 DEF Proposes

(* A swap keeps the length, so the length index hides none.                *)
LEMMA SwapsTried ==
  ASSUME NpmSubject
  PROVE  Proposes("character-transposition", Resemblance!SameLength(Resemblance!Transposed(name)))
<1> DEFINE M == Resemblance!Moves(name)
           at == Resemblance!InOrder(M)
           swaps == Resemblance!Transposed(name)
           Swap(i) == [name EXCEPT ![i - 1] = name[i], ![i] = name[i - 1]]
           T == Resemblance!Targets
<1>0. name \in NpmName /\ Len(name) \in Nat /\ DOMAIN name = 1..Len(name)
  BY DEF NpmSubject, NpmName
<1>1. M \in SUBSET (1..Len(name))
  BY <1>0 DEF Resemblance!Moves
<1>2. PICK q \in Nat : /\ DOMAIN at = 1..q
                       /\ \A k \in 1..q : at[k] \in M
                       /\ \A i \in M : \E k \in 1..q : at[k] = i
  <2> HIDE DEF M
  <2> QED BY <1>0, <1>1, InOrderLists
<1>3. swaps = [k \in 1..q |-> Swap(at[k])]
  BY <1>2 DEF Resemblance!Transposed
<1>4. \A i \in M : i \in 2..Len(name)
  BY DEF Resemblance!Moves
<1>5. ASSUME NEW i \in 2..Len(name), i \notin M PROVE Swap(i) = name
  <2>1. name[i] = name[i - 1] /\ i \in DOMAIN name /\ i - 1 \in DOMAIN name
    BY <1>0, <1>5 DEF Resemblance!Moves
  <2>2. name = [j \in DOMAIN name |-> name[j]]
    BY <1>0 DEF NpmName
  <2> QED BY <2>1, <2>2
<1>6. ASSUME NEW i \in 2..Len(name) PROVE Swap(i) \in [DOMAIN name -> {name[j] : j \in DOMAIN name}]
  <2>1. i \in DOMAIN name /\ i - 1 \in DOMAIN name
    BY <1>0
  <2>2. name \in [DOMAIN name -> {name[j] : j \in DOMAIN name}]
    BY <1>0 DEF NpmName
  <2> QED BY <2>1, <2>2
<1> HIDE DEF M, at
<1>7. ASSUME NEW t \in T, Resemblance!Alike("character-transposition", t)
      PROVE  Resemblance!SameLength(swaps) # {}
  <2>1. PICK i \in 2..Len(name) : Swap(i) = t
    BY <1>7, AlikeByRule
  <2>2. t # name /\ t \in NpmName /\ Len(t) \in Resemblance!Lengths
    BY TargetsAreListed
  <2>3. i \in M
    BY <1>5, <2>1, <2>2
  <2>4. Len(t) = Len(name)
    <3>1. DOMAIN t = DOMAIN name
      BY <1>6, <2>1
    <3> QED BY <1>0, <2>2, <3>1 DEF NpmName
  <2>5. PICK k \in 1..q : at[k] = i
    BY <1>2, <2>3
  <2> HIDE DEF Swap
  <2>6. k \in DOMAIN swaps /\ swaps[k] = t /\ DOMAIN swaps \subseteq Nat
    BY <1>3, <2>1, <2>5
  <2> HIDE DEF swaps, T
  <2>7. Resemblance!FirstHit(swaps, T) # {}
    BY <2>6, SomeHit
  <2> QED BY <2>2, <2>4, <2>7 DEF Resemblance!SameLength, T
<1>8. ASSUME NEW s \in Resemblance!SameLength(swaps)
      PROVE  s \in T /\ Resemblance!Alike("character-transposition", s)
  <2>1. s \in Resemblance!FirstHit(swaps, T)
    BY DEF Resemblance!SameLength
  <2>2. s \in T /\ \E k \in DOMAIN swaps : swaps[k] = s
    <3> HIDE DEF T, swaps
    <3> QED BY <2>1, HitIsCandidate
  <2>3. PICK k \in 1..q : Swap(at[k]) = s
    <3> HIDE DEF Swap, T
    <3> QED BY <1>3, <2>2
  <2>4. at[k] \in 2..Len(name)
    BY <1>2, <1>4
  <2> QED BY <2>2, <2>3, <2>4, AlikeByRule
<1> HIDE DEF swaps
<1> QED BY <1>7, <1>8 DEF Proposes, swaps

(* Neither does a neighbouring key change the length.                      *)
LEMMA KeysTried ==
  ASSUME NpmSubject
  PROVE  Proposes("keyboard-adjacency", Resemblance!SameLength(Resemblance!KeyNeighbours(name, Keyboard)))
<1> DEFINE C == DOMAIN Keyboard
           m == Len(name)
           V == [1..m -> C]
           Typed(i, ch) == [name EXCEPT ![i] = ch]
           Part(i) == [k \in DOMAIN Keyboard[name[i]] |-> Typed(i, Keyboard[name[i]][k])]
           parts == [i \in 1..m |-> Part(i)]
           keys == Resemblance!KeyNeighbours(name, Keyboard)
           T == Resemblance!Targets
<1>0. name \in NpmName /\ m \in Nat /\ m >= 1 /\ DOMAIN name = 1..m /\ name \in V
  BY DEF NpmSubject, NpmName
<1>1. ASSUME NEW i \in 1..m PROVE Keyboard[name[i]] \in Seq(C)
  <2>1. name[i] \in C
    BY <1>0
  <2> QED BY <2>1, ResemblanceAssumption DEF Resemblance!ResemblanceConstants
<1>2. ASSUME NEW i \in 1..m, NEW ch \in C PROVE Typed(i, ch) \in V
  BY <1>0
<1>3. keys = Resemblance!FlattenSeq(parts)
  BY <1>0 DEF Resemblance!KeyNeighbours
<1>4. parts \in [1..m -> Seq(V)]
  <2> SUFFICES ASSUME NEW i \in 1..m PROVE Part(i) \in Seq(V)
    OBVIOUS
  <2> DEFINE near == Keyboard[name[i]]
  <2>1. near \in Seq(C) /\ DOMAIN near = 1..Len(near) /\ Len(near) \in Nat /\ \A k \in 1..Len(near) : near[k] \in C
    BY <1>1
  <2> HIDE DEF near, V, C, Typed, m
  <2>2. Part(i) = [k \in 1..Len(near) |-> Typed(i, near[k])]
    BY <2>1 DEF near
  <2>3. \A k \in 1..Len(near) : Typed(i, near[k]) \in V
    BY <1>2, <2>1
  <2>4. Part(i) \in [1..Len(near) -> V]
    BY <2>2, <2>3
  <2> QED BY <2>1, <2>4
<1>5. ASSUME NEW i \in 1..m, NEW x
      PROVE  x \in Range(parts[i]) <=> \E ch \in Resemblance!Range(Keyboard[name[i]]) : Typed(i, ch) = x
  <2>1. parts[i] = Part(i)
    OBVIOUS
  <2> HIDE DEF parts, Typed
  <2> QED BY <2>1 DEF Range, Resemblance!Range
<1> HIDE DEF keys, parts, V, m
<1>6. /\ keys \in Seq(V)
      /\ \A x : (\E i \in 1..m : x \in Range(parts[i])) <=> x \in Range(keys)
  BY <1>0, <1>3, <1>4, FlattenedMembers
<1>7. ASSUME NEW x PROVE Resemblance!Alike("keyboard-adjacency", x) <=> x \in Range(keys)
  <2>1. Resemblance!Alike("keyboard-adjacency", x)
          <=> \E i \in 1..m : \E ch \in Resemblance!Range(Keyboard[name[i]]) : Typed(i, ch) = x
    BY <1>0, AlikeByRule
  <2> HIDE DEF Typed
  <2> QED BY <1>5, <1>6, <2>1
<1>8. ASSUME NEW t \in T, Resemblance!Alike("keyboard-adjacency", t) PROVE Resemblance!SameLength(keys) # {}
  <2>1. PICK k \in DOMAIN keys : keys[k] = t
    BY <1>7, <1>8 DEF Range
  <2>2. DOMAIN keys = 1..Len(keys) /\ Len(keys) \in Nat /\ keys[k] \in V
    BY <1>6
  <2>3. t \in NpmName /\ Len(t) \in Resemblance!Lengths
    BY TargetsAreListed
  <2>4. Len(t) = m
    <3>1. DOMAIN t = 1..m
      BY <2>1, <2>2 DEF V
    <3> QED BY <1>0, <2>3, <3>1 DEF NpmName
  <2> HIDE DEF T
  <2>5. Resemblance!FirstHit(keys, T) # {}
    BY <2>1, <2>2, SomeHit
  <2> QED BY <2>3, <2>4, <2>5 DEF Resemblance!SameLength, T, m
<1>9. ASSUME NEW s \in Resemblance!SameLength(keys)
      PROVE  s \in T /\ Resemblance!Alike("keyboard-adjacency", s)
  <2>1. s \in Resemblance!FirstHit(keys, T)
    BY DEF Resemblance!SameLength
  <2>2. s \in T /\ \E k \in DOMAIN keys : keys[k] = s
    <3> HIDE DEF T
    <3> QED BY <2>1, HitIsCandidate
  <2> QED BY <1>7, <2>2 DEF Range
<1> QED BY <1>8, <1>9 DEF Proposes, keys

(* What follows the slash of a scoped name has a length.                   *)
LEMMA TailHasLength ==
  ASSUME NEW n \in NpmName, Resemblance!Scoped(n)
  PROVE  Len(Resemblance!Tail2(n)) \in Nat
<1> DEFINE c == Resemblance!Cut(n)
<1>1. c \in Resemblance!Slashes(n)
  <2>1. Resemblance!Slashes(n) \in SUBSET Nat /\ Resemblance!Slashes(n) # {}
    BY DEF Resemblance!Slashes, Resemblance!Scoped, NpmName
  <2> QED BY <2>1, FirstIsOne DEF Resemblance!Cut
<1>2. n \in Seq(DOMAIN Keyboard) /\ Len(n) \in Nat /\ c \in 1..Len(n)
  BY <1>1 DEF Resemblance!Slashes, NpmName
<1> HIDE DEF c
<1>3. \A l \in (c + 1)..Len(n) : n[l] \in DOMAIN Keyboard
  BY <1>2
<1>4. c + 1 \in Int /\ Len(n) \in Int
  BY <1>2
<1>5. SubSeq(n, c + 1, Len(n)) \in Seq(DOMAIN Keyboard)
  BY <1>3, <1>4, SubSeqProperties
<1> QED BY <1>5 DEF Resemblance!Tail2, c

(* The gate on the lengths hides no distance inside the band.              *)
LEMMA WithinIsCapped ==
  ASSUME NEW x, NEW y, Len(x) \in Nat, Len(y) \in Nat, NEW k \in {1, 2}
  PROVE  /\ Resemblance!EditDistance(x, y) \in Nat
         /\ Resemblance!Within(x, y, k) =
              IF Resemblance!EditDistance(x, y) > k THEN Resemblance!TooFar ELSE Resemblance!EditDistance(x, y)
<1> DEFINE d == Resemblance!EditDistance(x, y)
<1>1. Resemblance!EditDistance(x, y) = Distance!EditDistance(x, y)
  BY DEF Resemblance!EditDistance, Resemblance!NextRow, Resemblance!Min,
         Distance!EditDistance, Distance!NextRow, Distance!Min
<1>2. PICK D : IsTable(D, x, y) /\ Distance!EditDistance(x, y) = D[Len(x)][Len(y)]
  BY DistanceIsOfTable
<1>3. d \in Nat /\ Len(x) - Len(y) <= d /\ Len(y) - Len(x) <= d
  <2>1. Len(x) \in 0..Len(x) /\ Len(y) \in 0..Len(y)
    OBVIOUS
  <2> QED BY <1>1, <1>2, <2>1, DistanceBounds
<1>4. Resemblance!Within(x, y, k) =
        IF Len(x) - Len(y) \notin (-k)..k THEN Resemblance!TooFar ELSE IF d > k THEN Resemblance!TooFar ELSE d
  BY DEF Resemblance!Within
<1> HIDE DEF d
<1>5. Len(x) - Len(y) \notin (-k)..k => d > k
  BY <1>3
<1> QED BY <1>3, <1>4, <1>5 DEF d

(* The distance of a listed name is its edits, up to the band.             *)
LEMMA DistanceIsEdits ==
  ASSUME name \in NpmName, NEW t \in NpmName
  PROVE  /\ Resemblance!Edits(t) \in Nat /\ BandFor(t) \in {1, 2}
         /\ Resemblance!Distance(t) = IF Resemblance!Edits(t) > BandFor(t) THEN 99 ELSE Resemblance!Edits(t)
<1>0. ASSUME NEW n PROVE Resemblance!Band(n) \in {1, 2}
  BY DEF Resemblance!Band
<1>1. CASE Resemblance!SameScope(name, t)
  <2> DEFINE x == Resemblance!Tail2(name)
             y == Resemblance!Tail2(t)
  <2>1. Len(x) \in Nat /\ Len(y) \in Nat
    BY <1>1, TailHasLength DEF Resemblance!SameScope
  <2>2. /\ Resemblance!Edits(t) = Resemblance!EditDistance(x, y) /\ BandFor(t) = Resemblance!Band(x)
        /\ Resemblance!Distance(t) = Resemblance!Within(x, y, Resemblance!Band(x))
    BY <1>1 DEF Resemblance!Edits, BandFor, Resemblance!Distance
  <2> HIDE DEF x, y
  <2> QED BY <1>0, <2>1, <2>2, WithinIsCapped DEF Resemblance!TooFar
<1>2. CASE ~Resemblance!SameScope(name, t)
  <2>1. Len(name) \in Nat /\ Len(t) \in Nat
    BY DEF NpmName
  <2>2. /\ Resemblance!Edits(t) = Resemblance!EditDistance(name, t) /\ BandFor(t) = Resemblance!Band(name)
        /\ Resemblance!Distance(t) = Resemblance!Within(name, t, Resemblance!Band(name))
    BY <1>2 DEF Resemblance!Edits, BandFor, Resemblance!Distance
  <2> QED BY <1>0, <2>1, <2>2, WithinIsCapped DEF Resemblance!TooFar
<1> QED BY <1>1, <1>2

(* The walk over the list answers one of the closest of those in the band. *)
LEMMA EditsTried ==
  ASSUME NpmSubject, name \notin Resemblance!Ranked
  PROVE  Proposes("edit-distance", Resemblance!DistanceMatch)
<1> DEFINE close == {i \in DOMAIN top : Len(top[i]) >= 3 /\ Resemblance!Distance(top[i]) \notin {0, Resemblance!TooFar}}
           far == {Resemblance!Distance(top[i]) : i \in close}
           best == Resemblance!Min(far)
           nearest == {i \in close : Resemblance!Distance(top[i]) = best}
           f == Resemblance!Min(nearest)
           T == Resemblance!Targets
<1>1. Resemblance!DistanceMatch = IF close = {} THEN {} ELSE {top[f]}
  BY DEF Resemblance!DistanceMatch
<1>2. ASSUME NEW i \in DOMAIN top, Len(top[i]) >= 3
      PROVE  /\ top[i] \in T
             /\ i \in close <=> Resemblance!Alike("edit-distance", top[i])
             /\ i \in close => Resemblance!Distance(top[i]) = Resemblance!Edits(top[i]) /\ Resemblance!Edits(top[i]) \in Nat
  <2>1. top[i] \in NpmName /\ top[i] \in Resemblance!Ranked
    BY ListedIsRanked
  <2>2. top[i] # name /\ top[i] \in T
    BY <1>2, <2>1 DEF Resemblance!Targets
  <2>3. /\ Resemblance!Edits(top[i]) \in Nat /\ BandFor(top[i]) \in {1, 2}
        /\ Resemblance!Distance(top[i]) =
             IF Resemblance!Edits(top[i]) > BandFor(top[i]) THEN 99 ELSE Resemblance!Edits(top[i])
    BY <2>1, DistanceIsEdits DEF NpmSubject
  <2>4. Resemblance!Alike("edit-distance", top[i]) <=> Resemblance!Edits(top[i]) \in 1..BandFor(top[i])
    BY AlikeByRule
  <2>5. i \in close <=> Resemblance!Distance(top[i]) \notin {0, 99}
    BY <1>2 DEF Resemblance!TooFar
  <2> HIDE DEF close, T
  <2> QED BY <2>2, <2>3, <2>4, <2>5
<1>3. ASSUME NEW t \in T PROVE \E i \in DOMAIN top : top[i] = t /\ Len(top[i]) >= 3
  BY TargetsAreListed
<1>4. \A i \in close : i \in DOMAIN top /\ Len(top[i]) >= 3
  OBVIOUS
<1>5. close \subseteq Nat
  BY DEF NpmSubject
<1> HIDE DEF close, T
<1>6. ASSUME close # {} PROVE f \in close /\ \A i \in close : Resemblance!Edits(top[f]) <= Resemblance!Edits(top[i])
  <2>1. far \in SUBSET Nat /\ far # {}
    BY <1>2, <1>4, <1>6
  <2>2. best \in far /\ \A d \in far : best <= d
    <3> HIDE DEF far
    <3> QED BY <2>1, LeastOf DEF Resemblance!Min
  <2>3. nearest \in SUBSET Nat /\ nearest # {}
    <3> HIDE DEF best
    <3> QED BY <1>5, <2>2
  <2>4. f \in nearest
    <3> HIDE DEF nearest
    <3> QED BY <2>3, FirstIsOne
  <2> HIDE DEF f, best
  <2>5. f \in close /\ Resemblance!Distance(top[f]) = best
    BY <2>4
  <2>6. ASSUME NEW i \in close PROVE best <= Resemblance!Distance(top[i])
    BY <2>2
  <2> QED BY <1>2, <1>4, <2>5, <2>6
<1> HIDE DEF f
<1>7. ASSUME NEW t \in T, Resemblance!Alike("edit-distance", t) PROVE \E i \in close : top[i] = t
  BY <1>2, <1>3, <1>7
<1>8. ASSUME NEW s \in Resemblance!DistanceMatch
      PROVE  /\ s \in T /\ Resemblance!Alike("edit-distance", s)
             /\ \A t \in T : Resemblance!Alike("edit-distance", t) => Resemblance!Edits(s) <= Resemblance!Edits(t)
  <2>1. close # {} /\ s = top[f]
    BY <1>1
  <2>2. f \in close /\ \A i \in close : Resemblance!Edits(top[f]) <= Resemblance!Edits(top[i])
    BY <1>6, <2>1
  <2>3. s \in T /\ Resemblance!Alike("edit-distance", s)
    BY <1>2, <1>4, <2>1, <2>2
  <2> QED BY <1>7, <2>1, <2>2, <2>3
<1>9. Resemblance!DistanceMatch = {} => \A t \in T : ~Resemblance!Alike("edit-distance", t)
  BY <1>1, <1>7
<1> QED BY <1>8, <1>9 DEF Proposes, T

(* The rules by their place in the order.                                  *)
RuleAt(i) == Resemblance!Order[i]

(* Which rule is where.                                                    *)
LEMMA RuleNames ==
  /\ rule = 1 <=> rule \in 1..10 /\ Resemblance!Rule = "alias-list"
  /\ rule = 2 <=> rule \in 1..10 /\ Resemblance!Rule = "ranked"
  /\ rule \in 3..8 => Resemblance!Rule = RuleAt(rule)
  /\ Len(Resemblance!Order) = 9 /\ DOMAIN Resemblance!Order = 1..9
  /\ RuleAt(1) = "alias-list" /\ RuleAt(2) = "ranked" /\ RuleAt(9) = "report"
  /\ RuleAt(3) = "separator-swap" /\ RuleAt(4) = "scope-flattening" /\ RuleAt(5) = "character-repetition"
  /\ RuleAt(6) = "character-transposition" /\ RuleAt(7) = "keyboard-adjacency" /\ RuleAt(8) = "edit-distance"
<1> DEFINE O == Resemblance!Order
<1>1. /\ Len(O) = 9 /\ DOMAIN O = 1..9
      /\ O[1] = "alias-list" /\ O[2] = "ranked" /\ O[3] = "separator-swap" /\ O[4] = "scope-flattening"
      /\ O[5] = "character-repetition" /\ O[6] = "character-transposition" /\ O[7] = "keyboard-adjacency"
      /\ O[8] = "edit-distance" /\ O[9] = "report"
  BY DEF Resemblance!Order
<1>2. Resemblance!Rule = IF rule \in 1..9 THEN O[rule] ELSE "over"
  BY <1>1 DEF Resemblance!Rule
<1> HIDE DEF O
<1>3. \A i \in 1..9 : i = 1 \/ i = 2 \/ i = 3 \/ i = 4 \/ i = 5 \/ i = 6 \/ i = 7 \/ i = 8 \/ i = 9
  OBVIOUS
<1>4. (rule = 1 <=> rule \in 1..10 /\ Resemblance!Rule = "alias-list")
      /\ (rule = 2 <=> rule \in 1..10 /\ Resemblance!Rule = "ranked")
  BY <1>1, <1>2, <1>3
<1>5. rule \in 3..8 => Resemblance!Rule = O[rule]
  BY <1>2
<1> QED BY <1>1, <1>4, <1>5 DEF O, RuleAt

(* Each rule proposes what it calls alike, if anything is.                 *)
LEMMA RuleProposes ==
  ASSUME NpmSubject, name \notin Resemblance!Ranked, rule \in 3..8
  PROVE  Proposes(RuleAt(rule), Resemblance!Hit)
<1>1. Resemblance!Rule = RuleAt(rule)
  BY RuleNames
<1>2. rule = 3 \/ rule = 4 \/ rule = 5 \/ rule = 6 \/ rule = 7 \/ rule = 8
  OBVIOUS
<1>3. CASE rule = 3
  <2>1. Resemblance!Hit = Resemblance!SeparatorMatch
    BY <1>1, <1>3, RuleNames DEF Resemblance!Hit
  <2> QED BY <1>3, <2>1, RuleNames, SeparatorsTried
<1>4. CASE rule = 4
  <2>1. Resemblance!Hit = Resemblance!ScopeMatch
    BY <1>1, <1>4, RuleNames DEF Resemblance!Hit
  <2> QED BY <1>4, <2>1, RuleNames, ScopesTried
<1>5. CASE rule = 5
  <2>1. Resemblance!Hit = Resemblance!RepetitionMatch
    BY <1>1, <1>5, RuleNames DEF Resemblance!Hit
  <2> QED BY <1>5, <2>1, RuleNames, RepetitionTried
<1>6. CASE rule = 6
  <2>1. Resemblance!Hit = Resemblance!SameLength(Resemblance!Transposed(name))
    BY <1>1, <1>6, RuleNames DEF Resemblance!Hit
  <2> QED BY <1>6, <2>1, RuleNames, SwapsTried
<1>7. CASE rule = 7
  <2>1. Resemblance!Hit = Resemblance!SameLength(Resemblance!KeyNeighbours(name, Keyboard))
    BY <1>1, <1>7, RuleNames DEF Resemblance!Hit
  <2> QED BY <1>7, <2>1, RuleNames, KeysTried
<1>8. CASE rule = 8
  <2>1. Resemblance!Hit = Resemblance!DistanceMatch
    BY <1>1, <1>8, RuleNames DEF Resemblance!Hit
  <2> QED BY <1>8, <2>1, RuleNames, EditsTried
<1> QED BY <1>2, <1>3, <1>4, <1>5, <1>6, <1>7, <1>8

(* A rule is spent on a list when all it calls like the name stands behind *)
(* a sibling of it.                                                        *)
Spent(r) == \A t \in Resemblance!Targets : Resemblance!Alike(r, t) => Resemblance!BehindSibling(r, t)

(* What a match is, but one of the alias list.                             *)
IsLike(m) == /\ name \notin Resemblance!Ranked
             /\ m.target \in Resemblance!Targets /\ Resemblance!Alike(m.rule, m.target) /\ ~Resemblance!Sibling(m.target)

(* The rules that have been tried without a match are spent, and a match   *)
(* is a popular name like the new one.                                     *)
ResemblanceInv ==
  /\ NpmSubject /\ rule \in 1..10
  /\ \A m \in match : m.rule # "alias-list" => IsLike(m)
  /\ match # {} => rule \in {9, 10}
  /\ rule \in 3..8 => name \notin Resemblance!Ranked
  /\ match = {} /\ name \notin Resemblance!Ranked => \A i \in 3..8 : i < rule => Spent(RuleAt(i))
  /\ rule = 10 /\ match # {} => outcome \in {"low", "critical", "cleared"}

(* At the start no rule has been tried.                                    *)
LEMMA ResemblanceInit == ASSUME Resemblance!Init PROVE ResemblanceInv
<1>1. NpmSubject
  BY ResemblanceAssumption DEF Resemblance!Init, Resemblance!ResemblanceConstants, NpmSubject, NpmName
<1>2. rule = 1 /\ match = {}
  BY DEF Resemblance!Init
<1> QED BY <1>1, <1>2 DEF ResemblanceInv

(* What was found of a name and a list stays.                              *)
LEMMA FindingsStay ==
  ASSUME name' = name, top' = top, known' = known
  PROVE  /\ Resemblance!Ranked' = Resemblance!Ranked
         /\ \A r : Spent(r)' <=> Spent(r)
         /\ \A m : IsLike(m)' <=> IsLike(m)
<1>1. Resemblance!Ranked' = Resemblance!Ranked
  BY DEF Resemblance!Ranked, Resemblance!Range
<1>2. Resemblance!Targets' = Resemblance!Targets
  BY <1>1 DEF Resemblance!Targets
<1>3. \A t : Resemblance!Edits(t)' = Resemblance!Edits(t)
  BY DEF Resemblance!Edits
<1>4. \A r, t : Resemblance!Alike(r, t)' <=> Resemblance!Alike(r, t)
  BY <1>3, Zenon DEF Resemblance!Alike
<1>5. \A t : Resemblance!Sibling(t)' <=> Resemblance!Sibling(t)
  BY DEF Resemblance!Sibling
<1>6. \A r, t : Resemblance!BehindSibling(r, t)' <=> Resemblance!BehindSibling(r, t)
  BY <1>2, <1>3, <1>4, <1>5, Zenon DEF Resemblance!BehindSibling
<1>7. \A r : Spent(r)' <=> Spent(r)
  BY <1>2, <1>4, <1>6, Zenon DEF Spent
<1>8. \A m : IsLike(m)' <=> IsLike(m)
  BY <1>1, <1>2, <1>4, <1>5, Zenon DEF IsLike
<1> QED BY <1>1, <1>7, <1>8

(* A rule that proposes nothing but siblings is spent; what it proposes    *)
(* else is like the name.                                                  *)
LEMMA TryingSpends ==
  ASSUME NEW r, NEW H, Proposes(r, H)
  PROVE  /\ (\A t \in H : Resemblance!Sibling(t)) => Spent(r)
         /\ name \notin Resemblance!Ranked =>
              \A t \in H : ~Resemblance!Sibling(t) => IsLike([rule |-> r, target |-> t])
<1>1. ASSUME \A s \in H : Resemblance!Sibling(s) PROVE Spent(r)
  <2> SUFFICES ASSUME NEW t \in Resemblance!Targets, Resemblance!Alike(r, t) PROVE Resemblance!BehindSibling(r, t)
    BY DEF Spent
  <2>1. PICK s \in H : TRUE
    BY DEF Proposes
  <2>2. /\ s \in Resemblance!Targets /\ Resemblance!Alike(r, s) /\ Resemblance!Sibling(s)
        /\ r = "edit-distance" => Resemblance!Edits(s) <= Resemblance!Edits(t)
    BY <1>1, <2>1 DEF Proposes
  <2> QED BY <2>2, Zenon DEF Resemblance!BehindSibling
<1>2. ASSUME name \notin Resemblance!Ranked, NEW t \in H, ~Resemblance!Sibling(t)
      PROVE  IsLike([rule |-> r, target |-> t])
  BY <1>2 DEF Proposes, IsLike
<1> QED BY <1>1, <1>2

(* Each step leaves the rules tried so far spent.                          *)
LEMMA ResemblanceKeepsInv == ASSUME ResemblanceInv, [Resemblance!Next]_resemblanceVars PROVE ResemblanceInv'
<1>0. name' = name /\ top' = top /\ known' = known
  BY DEF Resemblance!Next, Resemblance!AliasList, Resemblance!Popular, Resemblance!TryRule, Resemblance!Report,
         Resemblance!vars, resemblanceVars
<1>1. NpmSubject' /\ NpmSubject /\ rule \in 1..10
  BY <1>0 DEF ResemblanceInv, NpmSubject
<1>2. Resemblance!Ranked' = Resemblance!Ranked /\ (\A r : Spent(r)' <=> Spent(r)) /\ (\A m : IsLike(m)' <=> IsLike(m))
  BY <1>0, FindingsStay
<1>3. /\ \A m \in match : m.rule # "alias-list" => IsLike(m)
      /\ match # {} => rule \in {9, 10}
      /\ rule \in 3..8 => name \notin Resemblance!Ranked
      /\ match = {} /\ name \notin Resemblance!Ranked => \A i \in 3..8 : i < rule => Spent(RuleAt(i))
      /\ rule = 10 /\ match # {} => outcome \in {"low", "critical", "cleared"}
  BY DEF ResemblanceInv
<1> DEFINE Later == /\ rule' \in 1..10
                    /\ \A m \in match' : m.rule # "alias-list" => IsLike(m)
                    /\ match' # {} => rule' \in {9, 10}
                    /\ rule' \in 3..8 => name \notin Resemblance!Ranked
                    /\ match' = {} /\ name \notin Resemblance!Ranked => \A i \in 3..8 : i < rule' => Spent(RuleAt(i))
                    /\ rule' = 10 /\ match' # {} => outcome' \in {"low", "critical", "cleared"}
<1> SUFFICES Later
  <2>1. \A i : RuleAt(i)' = RuleAt(i)
    BY DEF RuleAt, Resemblance!Order
  <2> QED BY <1>0, <1>1, <1>2, <2>1, Zenon DEF ResemblanceInv
<1>4. CASE UNCHANGED resemblanceVars \/ (Resemblance!Done /\ UNCHANGED Resemblance!vars)
  <2>1. match' = match /\ rule' = rule /\ outcome' = outcome
    BY <1>4 DEF resemblanceVars, Resemblance!vars
  <2> QED BY <1>1, <1>3, <2>1
<1>5. CASE Resemblance!AliasList
  <2>1. rule = 1 /\ match = {}
    BY <1>1, <1>3, <1>5, RuleNames DEF Resemblance!AliasList
  <2>2. CASE aliasOf # <<>>
    <3>1. Resemblance!Found(Head(aliasOf)) /\ Resemblance!Rule = "alias-list"
      BY <1>5, <2>2 DEF Resemblance!AliasList
    <3>2. rule' = 9 /\ match' = {[rule |-> "alias-list", target |-> Head(aliasOf)]}
      BY <3>1, RuleNames DEF Resemblance!Found
    <3>3. rule' = 9 /\ match' # {} /\ \A m \in match' : m.rule = "alias-list"
      BY <3>2
    <3>4. rule' \in 1..10 /\ rule' \notin 3..8 /\ rule' \in {9, 10} /\ rule' # 10
      BY <3>3
    <3> QED BY <3>3, <3>4, Zenon
  <2>3. CASE aliasOf = <<>>
    <3>1. rule' = 2 /\ match' = {}
      BY <1>5, <2>1, <2>3 DEF Resemblance!AliasList
    <3> QED BY <3>1
  <2> QED BY <2>2, <2>3
<1>6. CASE Resemblance!Popular
  <2>1. rule = 2 /\ match = {}
    BY <1>1, <1>3, <1>6, RuleNames DEF Resemblance!Popular
  <2>2. match' = {} /\ ((rule' = 3 /\ name \notin Resemblance!Ranked) \/ (rule' = 9 /\ name \in Resemblance!Ranked))
    BY <1>6, <2>1, RuleNames DEF Resemblance!Popular
  <2> QED BY <2>2
<1>7. CASE Resemblance!TryRule
  <2>1. rule \in 3..8
    BY <1>7, RuleNames DEF Resemblance!TryRule
  <2>2. name \notin Resemblance!Ranked /\ match = {}
    BY <1>3, <2>1
  <2>3. Proposes(RuleAt(rule), Resemblance!Hit) /\ Resemblance!Rule = RuleAt(rule)
    BY <1>1, <2>1, <2>2, RuleProposes, RuleNames
  <2> DEFINE hit == {t \in Resemblance!Hit : ~(known /\ Resemblance!SameScope(name, t))}
  <2>4. \A t : Resemblance!Sibling(t) <=> known /\ Resemblance!SameScope(name, t)
    BY DEF Resemblance!Sibling
  <2>5. CASE hit # {}
    <3>1. PICK t \in hit : Resemblance!Found(t)
      BY <1>7, <2>5 DEF Resemblance!TryRule
    <3>2. t \in Resemblance!Hit /\ ~Resemblance!Sibling(t)
      BY <2>4
    <3>3. IsLike([rule |-> RuleAt(rule), target |-> t])
      <4> HIDE DEF hit
      <4> QED BY <2>2, <2>3, <3>2, TryingSpends
    <3>4. rule' = 9 /\ match' = {[rule |-> RuleAt(rule), target |-> t]}
      BY <2>3, <3>1, RuleNames DEF Resemblance!Found
    <3> QED BY <3>3, <3>4
  <2>6. CASE hit = {}
    <3>1. rule' = rule + 1 /\ match' = {}
      BY <1>7, <2>2, <2>6 DEF Resemblance!TryRule
    <3>2. \A t \in Resemblance!Hit : Resemblance!Sibling(t)
      BY <2>4, <2>6
    <3>3. Spent(RuleAt(rule))
      <4> HIDE DEF hit
      <4> QED BY <2>3, <3>2, TryingSpends
    <3>4. ASSUME NEW i \in 3..8, i < rule' PROVE Spent(RuleAt(i))
      <4>1. i < rule \/ i = rule
        BY <2>1, <3>1, <3>4
      <4> QED BY <1>3, <2>2, <3>3, <4>1
    <3>5. rule' \in 1..9
      BY <2>1, <3>1
    <3> HIDE DEF hit
    <3> QED BY <2>2, <3>1, <3>4, <3>5
  <2> QED BY <2>5, <2>6
<1>8. CASE Resemblance!Report
  <2>1. rule = 9 /\ rule' = 10 /\ match' = match
    BY <1>8, RuleNames DEF Resemblance!Report
  <2>2. match # {} => outcome' \in {"low", "critical", "cleared"}
    BY <1>8 DEF Resemblance!Report
  <2>3. \A i \in 3..8 : i < 9
    OBVIOUS
  <2> QED BY <1>3, <2>1, <2>2, <2>3
<1> QED BY <1>4, <1>5, <1>6, <1>7, <1>8 DEF Resemblance!Next

(* With every rule tried in vain, what resembles the name is behind a      *)
(* sibling.                                                                *)
LEMMA NothingLeftUnseen == ASSUME ResemblanceInv PROVE Resemblance!ResemblanceIsSeen
<1>1. ASSUME Resemblance!Done, outcome = "none", name \notin Resemblance!Ranked,
             NEW i \in DOMAIN Resemblance!Order, NEW t \in Resemblance!Targets, Resemblance!Alike(Resemblance!Order[i], t)
      PROVE  Resemblance!BehindSibling(Resemblance!Order[i], t)
  <2>1. rule = 10 /\ match = {}
    BY <1>1, RuleNames DEF Resemblance!Done, ResemblanceInv
  <2>2. i \in 1..9 /\ Resemblance!Order[i] = RuleAt(i)
    BY RuleNames DEF RuleAt
  <2>3. i \in 3..8
    <3>1. i # 1 /\ i # 2 /\ i # 9
      BY <1>1, <2>2, RuleNames, AlikeByRule
    <3> QED BY <2>2, <3>1
  <2>4. Spent(RuleAt(i))
    BY <1>1, <2>1, <2>3 DEF ResemblanceInv
  <2> QED BY <1>1, <2>2, <2>4 DEF Spent
<1>2. ASSUME NEW m \in match, m.rule # "alias-list"
      PROVE  /\ name \notin Resemblance!Ranked /\ m.target \in Resemblance!Targets
             /\ Resemblance!Alike(m.rule, m.target) /\ ~Resemblance!Sibling(m.target)
  BY <1>2 DEF ResemblanceInv, IsLike
<1>3. ASSUME Resemblance!Done, outcome = "none", name \notin Resemblance!Ranked,
             NEW r \in Resemblance!Range(Resemblance!Order), NEW t \in Resemblance!Targets, Resemblance!Alike(r, t)
      PROVE  Resemblance!BehindSibling(r, t)
  <2>1. PICK i \in DOMAIN Resemblance!Order : Resemblance!Order[i] = r
    BY DEF Resemblance!Range
  <2> QED BY <1>1, <1>3, <2>1
<1> QED BY <1>2, <1>3, Zenon DEF Resemblance!ResemblanceIsSeen

(* ResemblanceIsSeen for any names, popularity lists and keyboard.         *)
THEOREM NoResemblanceIsMissed == MCSpec => []ResemblanceIsSeen
<1> DEFINE Inv == subject = "resemblance" => ResemblanceInv
<1>1. MCInit => Inv
  BY ResemblanceInit DEF MCInit
<1>2. Inv /\ [MCNext]_<<subject, installedVars, distanceVars, resemblanceVars, pythonVars>> => Inv'
  <2> SUFFICES ASSUME Inv, [MCNext]_<<subject, installedVars, distanceVars, resemblanceVars, pythonVars>>,
                      subject' = "resemblance"
               PROVE  ResemblanceInv'
    OBVIOUS
  <2>1. subject' = subject
    BY DEF MCNext, InstalledStep, DistanceStep, ResemblanceStep, PythonStep
  <2>2. [Resemblance!Next]_resemblanceVars
    BY DEF MCNext, InstalledStep, DistanceStep, ResemblanceStep, PythonStep
  <2> QED BY <2>1, <2>2, ResemblanceKeepsInv
<1>3. Inv => ResemblanceIsSeen
  BY NothingLeftUnseen DEF ResemblanceIsSeen
<1> QED BY <1>1, <1>2, <1>3, PTL DEF MCSpec
=============================================================================
