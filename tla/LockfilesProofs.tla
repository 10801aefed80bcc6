--------------------------- MODULE LockfilesProofs ---------------------------
(***************************************************************************)
(* What is proved of lockfiles, for any documents, entries, hosts, trees   *)
(* of directories and numbers of merges:                                   *)
(*   - nothing slips into a pnpm lockfile unjudged (DocumentInv);          *)
(*   - coverage a scan was owed was vouched for (HistoryInv), and the      *)
(*     remedy a refusal names works;                                       *)
(*   - the packages section of a pnpm lockfile is read back as it was      *)
(*     written (KeysInv);                                                  *)
(*   - what the order of the earlier entries can change of the findings    *)
(*     about one name, and that silence about a registry entry is          *)
(*     accounted for (TamperInv).                                          *)
(***************************************************************************)
EXTENDS MCLockfiles, FiniteSetTheorems, SequenceTheorems, WellFoundedInduction, TLAPS

(***************************************************************************)
(* The documents of a pnpm lockfile.                                       *)
(***************************************************************************)

(* The base was read; what passed was read too, its changes are those of   *)
(* the judgement, and the rule on unread text did not refuse it.           *)
DocumentInv ==
  /\ base \in DOMAIN Parsed
  /\ verdict = "passed" => /\ head \in DOMAIN Parsed
                           /\ changes = LockEntryChanges(head)
                           /\ ~ChangedSkippedDocuments(head)

(* The invariant holds at the start, ...                                   *)
LEMMA DocumentStart == Init => DocumentInv
BY DEF Init, DocumentInv

(* ... and every step keeps it.                                            *)
LEMMA DocumentStepInv == ASSUME DocumentInv, Next PROVE DocumentInv'
<1>1. CASE Merge
  BY <1>1 DEF Merge, DocumentInv
<1>2. ASSUME NEW stream \in Streams, Judge(stream) PROVE DocumentInv'
  <2> USE <1>2 DEF Judge
  <2>1. base' = base /\ nested' = nested /\ head' = stream
    OBVIOUS
  <2>2. CASE stream \notin DOMAIN Parsed \/ ChangedSkippedDocuments(stream)
    BY <2>2 DEF DocumentInv
  <2>3. CASE stream \in DOMAIN Parsed /\ ~ChangedSkippedDocuments(stream)
    <3>1. changes' = LockEntryChanges(stream)
      BY <2>3
    <3>2. LockEntryChanges(head)' = LockEntryChanges(stream)
      BY <2>1 DEF LockEntryChanges, CounterpartOf, ProjectEntries
    <3>3. ChangedSkippedDocuments(head)' = ChangedSkippedDocuments(stream)
      BY <2>1 DEF ChangedSkippedDocuments, ProjectEntries
    <3> QED BY <2>1, <2>3, <3>1, <3>2, <3>3 DEF DocumentInv
  <2> QED BY <2>2, <2>3
<1> QED BY <1>1, <1>2 DEF Next

(* A stream that is not refused has its project document, and reads only   *)
(* documents it has.                                                       *)
LEMMA ReadsWhatItHas ==
  ASSUME NEW stream \in DOMAIN Parsed
  PROVE  /\ stream \in Streams /\ stream \in Seq(Documents)
         /\ Project(stream) \in ReadIndexes(stream)
         /\ ReadIndexes(stream) \subseteq DOMAIN stream
<1>1. stream \in Streams /\ ~RefusedToParse(stream) /\ stream \in Seq(Documents)
  BY DocumentsAssumption DEF Parsed
<1>2. ProjectChoice(stream) # {}
  <2>1. Cardinality(ProjectChoice(stream)) = 1
    BY <1>1 DEF RefusedToParse
  <2> QED BY <2>1, FS_EmptySet
<1>3. ProjectChoice(stream) \subseteq DOMAIN stream
  <2>1. CASE Len(stream) = 1
    BY <1>1, <2>1 DEF ProjectChoice
  <2>2. CASE Len(stream) # 1
    BY <2>2 DEF ProjectChoice, Candidates, Largest
  <2> QED BY <2>1, <2>2
<1>4. Project(stream) \in ProjectChoice(stream)
  BY <1>2 DEF Project
<1> QED BY <1>1, <1>3, <1>4 DEF ReadIndexes

(* What the head's documents are compared with was on the base.            *)
LEMMA ComparedWithTheBase ==
  ASSUME base \in DOMAIN Parsed, NEW label
  PROVE  UNION CounterpartOf(label) \subseteq AllOf(base)
<1>1. ASSUME NEW file \in Parsed[base].files PROVE file[2] \subseteq AllOf(base)
  <2>1. PICK i \in ReadIndexes(base) : file = <<Label(base, i), Entries(base[i])>>
    BY DEF Parsed
  <2>2. i \in DOMAIN base
    BY ReadsWhatItHas
  <2> QED BY <2>1, <2>2 DEF AllOf
<1>2. ProjectEntries(base) \subseteq AllOf(base)
  <2>1. Parsed[base].project = Project(base)
    BY DEF Parsed
  <2>2. Project(base) \in DOMAIN base
    BY ReadsWhatItHas
  <2> QED BY <2>1, <2>2 DEF AllOf, ProjectEntries
<1> QED BY <1>1, <1>2 DEF CounterpartOf

(* A document that is not read and passed was there on the base.           *)
LEMMA UnreadIsOld ==
  ASSUME NEW one \in DOMAIN Parsed, NEW two \in DOMAIN Parsed,
         Parsed[one].unread = Parsed[two].unread,
         NEW i \in DOMAIN two, i \notin ReadIndexes(two)
  PROVE  i \in DOMAIN one /\ one[i] = two[i]
<1>1. UnreadText(one) = UnreadText(two)
  BY DEF Parsed
<1>2. UnreadText(two) = Text(two, ReadIndexes(two))
  BY DEF UnreadText
<1>3. two[i] \in Documents /\ two[i] # Gap
  BY ReadsWhatItHas, DocumentsAssumption
<1>4. DOMAIN Text(two, ReadIndexes(two)) = DOMAIN two /\ Text(two, ReadIndexes(two))[i] = two[i]
  BY DEF Text
<1>5. UnreadText(one) # <<>>
  BY <1>1, <1>2, <1>4
<1>6. UnreadText(one) = Text(one, ReadIndexes(one))
  BY <1>5 DEF UnreadText
<1>7. i \in DOMAIN one
  BY <1>1, <1>2, <1>4, <1>6 DEF Text
<1>8. Text(one, ReadIndexes(one))[i] = two[i]
  BY <1>1, <1>2, <1>4, <1>6
<1> QED BY <1>3, <1>7, <1>8 DEF Text

(* What the documents promise follows from it.                             *)
LEMMA DocumentsSafe == ASSUME DocumentInv PROVE NothingSlipsIn
<1> SUFFICES ASSUME verdict = "passed", ProjectEntries(base) # {},
                    NEW package \in AllOf(head) \ AllOf(base)
             PROVE  \E c \in changes : c.package = package
  BY DEF NothingSlipsIn
<1>0. base \in DOMAIN Parsed /\ head \in DOMAIN Parsed /\ changes = LockEntryChanges(head)
  BY DEF DocumentInv
<1>1. PICK i \in DOMAIN head : package \in Entries(head[i])
  BY DEF AllOf
<1>2. CASE i \in ReadIndexes(head)
  <2> DEFINE file == <<Label(head, i), Entries(head[i])>>
             before == UNION CounterpartOf(file[1])
  <2>1. file \in Parsed[head].files
    BY <1>0, <1>2 DEF Parsed
  <2>2. package \in file[2] \ before
    BY <1>0, <1>1, ComparedWithTheBase
  <2>3. Change(file[1], package, before) \in LockEntryChanges(head)
    <3>1. \A f \in Parsed[head].files :
            {Change(f[1], p, UNION CounterpartOf(f[1])) : p \in f[2] \ UNION CounterpartOf(f[1])}
              \subseteq LockEntryChanges(head)
      BY Zenon DEF LockEntryChanges
    <3> HIDE DEF file
    <3> QED BY <2>1, <2>2, <3>1
  <2>4. Change(file[1], package, before).package = package
    BY DEF Change
  <2> QED BY <1>0, <2>3, <2>4
<1>3. CASE i \notin ReadIndexes(head)
  <2>1. Parsed[base].unread = Parsed[head].unread
    BY DEF DocumentInv, ChangedSkippedDocuments
  <2>2. i \in DOMAIN base /\ base[i] = head[i]
    BY <1>0, <1>3, <2>1, UnreadIsOld
  <2> QED BY <1>1, <2>2 DEF AllOf
<1> QED BY <1>2, <1>3

(***************************************************************************)
(* The history of the lockfiles of a repository.                           *)
(***************************************************************************)

(* Every tree the history holds has contents its paths can have.           *)
HistoryTyped ==
  /\ branch = [tree |-> branch.tree, acks |-> branch.acks]
  /\ branch.tree \in History!Tree /\ older \in History!Tree
  /\ pr # None => /\ pr = [from |-> pr.from, head |-> pr.head]
                  /\ pr.from \in History!Tree /\ pr.head \in History!Tree

HistoryInv == HistoryTyped /\ History!CoverageIsVouched

(* A change of some paths of a tree gives a tree.                          *)
LEMMA ChangedIsTree ==
  ASSUME NEW t \in History!Tree, NEW S \in SUBSET Paths, NEW c,
         \A p \in S : c[p] \in History!Contents(p), NEW d \in [Dirs -> History!Manifests]
  PROVE  History!Changed(t, S, c, d) \in History!Tree
<1> DEFINE lock == [p \in Paths |-> IF p \in S THEN c[p] ELSE t.lock[p]]
           All == UNION {History!Contents(p) : p \in Paths}
<1>1. t \in [lock: [Paths -> All], manifest: [Dirs -> History!Manifests]] /\ \A p \in Paths : t.lock[p] \in History!Contents(p)
  BY DEF History!Tree
<1>2. History!Changed(t, S, c, d) = [t EXCEPT !.lock = lock, !.manifest = d]
  BY DEF History!Changed
<1>3. \A p \in Paths : lock[p] \in History!Contents(p)
  BY <1>1
<1>4. lock \in [Paths -> All]
  BY <1>3
<1>5. History!Changed(t, S, c, d) = [lock |-> lock, manifest |-> d]
  <2> HIDE DEF lock, All
  <2> QED BY <1>1, <1>2
<1> HIDE DEF lock
<1> QED BY <1>3, <1>4, <1>5 DEF History!Tree

(* The invariant of the history holds at the start, ...                    *)
LEMMA HistoryStart == History!Init => HistoryInv
<1> SUFFICES ASSUME History!Init PROVE HistoryInv
  OBVIOUS
<1>1. HistoryTyped
  BY HistoryAssumption DEF History!Init, HistoryTyped, History!DowngradeConstants
<1>2. History!CoverageIsVouched
  BY DEF History!Init, History!CoverageIsVouched, History!UnreadBytesAreVouched, History!OwedCoverageIsKept
<1> QED BY <1>1, <1>2 DEF HistoryInv

(* What a merge that is not refused leaves vouched for.                    *)
LEMMA MergeVouches ==
  ASSUME HistoryInv, History!Merge PROVE History!UnreadBytesAreVouched'
<1> DEFINE B == branch.tree
           H == pr.head
           covered == History!CoveringDirs(B)
<1>1. /\ B \in History!Tree /\ H \in History!Tree /\ branch'.tree = H
      /\ ~History!Refused(B, H, branch.acks)
      /\ vouched' = vouched
             \cup {<<p, H.lock[p]>> : p \in {q \in History!Unread(H) :
                     History!DirOf(q) \notin covered \/ History!Entry(H, q) \in branch.acks}}
  <2>1. branch'.tree = H
    BY DEF HistoryInv, HistoryTyped, History!Merge
  <2> QED BY <2>1 DEF HistoryInv, HistoryTyped, History!Merge, History!RefusedByAny, History!Sides
<1> HIDE DEF B, H, covered
<1>2. ASSUME NEW p \in History!Unread(H) PROVE <<p, H.lock[p]>> \in vouched'
  <2>1. CASE History!DirOf(p) \notin covered \/ History!Entry(H, p) \in branch.acks
    BY <1>1, <2>1
  <2>2. CASE History!DirOf(p) \in covered /\ History!Entry(H, p) \notin branch.acks
    <3>1. p \notin History!ChangedUnread(B, H, covered)
      BY <1>1, <2>2 DEF History!Refused, History!UnreadChanged, covered
    <3>2. /\ p \in History!Unread(B)
          /\ History!BlobId(H, p) # None /\ History!BlobId(B, p) = History!BlobId(H, p)
      BY <2>2, <3>1 DEF History!ChangedUnread
    <3>3. B.lock[p] = H.lock[p]
      <4>1. p \in Paths /\ B.lock[p] # Absent /\ H.lock[p] # Absent
        BY <3>2 DEF History!Unread, History!Present
      <4>2. B.lock[p] \in Options[p] /\ H.lock[p] \in Options[p]
        BY <1>1, <4>1 DEF History!Tree, History!Contents
      <4>3. B.lock[p].blob = H.lock[p].blob /\ B.lock[p].blob # None
        BY <3>2, <4>1 DEF History!BlobId, History!Present
      <4> QED BY <4>1, <4>2, <4>3, HistoryAssumption DEF History!DowngradeConstants
    <3>4. <<p, B.lock[p]>> \in vouched
      BY <2>2, <3>2 DEF HistoryInv, History!CoverageIsVouched, History!UnreadBytesAreVouched, B, covered
    <3> QED BY <1>1, <3>3, <3>4
  <2> QED BY <2>1, <2>2
<1> QED BY <1>1, <1>2 DEF History!UnreadBytesAreVouched

(* A directory a merge takes coverage from is excused by the rule.         *)
LEMMA MergeKeepsOwed ==
  ASSUME HistoryInv, History!Merge PROVE History!OwedCoverageIsKept'
<1> DEFINE B == branch.tree
           H == pr.head
           covered == History!CoveringDirs(B)
           lost == History!LostDirs(B, H)
<1>1. /\ branch'.tree = H
      /\ ~History!Refused(B, H, branch.acks)
      /\ owed' = (owed \cup History!CoveringDirs(H))
             \ {d \in covered \ History!CoveringDirs(H) :
                  d \notin lost \/ History!RequiredFor(B, H, d) \subseteq branch.acks}
      /\ owed \subseteq covered
  <2>1. branch'.tree = H
    BY DEF HistoryInv, HistoryTyped, History!Merge
  <2>2. owed \subseteq covered
    BY DEF HistoryInv, History!CoverageIsVouched, History!OwedCoverageIsKept
  <2> QED BY <2>1, <2>2 DEF HistoryInv, HistoryTyped, History!Merge, History!RefusedByAny, History!Sides
<1> HIDE DEF B, H, covered
<1>2. ASSUME NEW d \in owed', d \notin History!CoveringDirs(H) PROVE FALSE
  <2>1. d \in lost /\ ~(History!RequiredFor(B, H, d) \subseteq branch.acks)
    BY <1>1, <1>2
  <2>2. History!Required(B, H) \subseteq branch.acks
    BY <1>1, <2>1 DEF History!Refused
  <2> QED BY <2>1, <2>2 DEF History!Required
<1> QED BY <1>1, <1>2 DEF History!OwedCoverageIsKept

(* ... and every step keeps it.                                            *)
LEMMA HistoryStepInv ==
  ASSUME HistoryInv, History!Next PROVE HistoryInv'
<1>1. CASE History!Open
  <2> PICK from \in {branch.tree, older}, paths \in SUBSET Paths :
        \E contents \in [paths -> (UNION {Options[p] : p \in paths}) \cup {Absent}] :
        \E d \in Dirs : \E m \in ManifestKinds[d] \cup {from.manifest[d]} :
       /\ \A p \in paths : contents[p] \in Options[p] \cup {Absent}
       /\ pr' = [from |-> from,
                 head |-> History!Changed(from, paths, contents, [from.manifest EXCEPT ![d] = m])]
    BY <1>1 DEF History!Open
  <2> PICK contents \in [paths -> (UNION {Options[p] : p \in paths}) \cup {Absent}],
           d \in Dirs :
        \E m \in ManifestKinds[d] \cup {from.manifest[d]} :
       /\ \A p \in paths : contents[p] \in Options[p] \cup {Absent}
       /\ pr' = [from |-> from,
                 head |-> History!Changed(from, paths, contents, [from.manifest EXCEPT ![d] = m])]
    OBVIOUS
  <2> PICK m \in ManifestKinds[d] \cup {from.manifest[d]} :
       /\ \A p \in paths : contents[p] \in Options[p] \cup {Absent}
       /\ pr' = [from |-> from,
                 head |-> History!Changed(from, paths, contents, [from.manifest EXCEPT ![d] = m])]
    OBVIOUS
  <2>1. from \in History!Tree
    BY DEF HistoryInv, HistoryTyped
  <2>2. [from.manifest EXCEPT ![d] = m] \in [Dirs -> History!Manifests]
    <3>1. from.manifest \in [Dirs -> History!Manifests]
      BY <2>1 DEF History!Tree
    <3>2. m \in History!Manifests
      BY <3>1, HistoryAssumption DEF History!DowngradeConstants
    <3> QED BY <3>1, <3>2
  <2>3. History!Changed(from, paths, contents, [from.manifest EXCEPT ![d] = m]) \in History!Tree
    BY <2>1, <2>2, ChangedIsTree DEF History!Contents
  <2>4. UNCHANGED <<branch, older, vouched, owed>>
    BY <1>1 DEF History!Open
  <2>5. HistoryTyped'
    BY <2>1, <2>3, <2>4 DEF HistoryInv, HistoryTyped
  <2> QED BY <2>4, <2>5 DEF HistoryInv, History!CoverageIsVouched, History!UnreadBytesAreVouched, History!OwedCoverageIsKept
<1>2. CASE History!Acknowledge
  <2> PICK e : branch' = [branch EXCEPT !.acks = @ \cup {e}]
    BY <1>2 DEF History!Acknowledge
  <2>1. branch' = [tree |-> branch.tree, acks |-> branch.acks \cup {e}] /\ UNCHANGED <<older, pr, vouched, owed>>
    BY <1>2 DEF HistoryInv, HistoryTyped, History!Acknowledge
  <2>2. branch'.tree = branch.tree
    BY <2>1
  <2> QED BY <2>1, <2>2 DEF HistoryInv, HistoryTyped, History!CoverageIsVouched, History!UnreadBytesAreVouched, History!OwedCoverageIsKept
<1>3. CASE History!Close
  BY <1>3 DEF History!Close, HistoryInv, HistoryTyped, History!CoverageIsVouched, History!UnreadBytesAreVouched, History!OwedCoverageIsKept
<1>4. CASE History!Merge
  <2>1. branch' = [tree |-> pr.head, acks |-> branch.acks] /\ older' = branch.tree /\ pr' = None /\ pr # None
    BY <1>4 DEF HistoryInv, HistoryTyped, History!Merge
  <2>2. HistoryTyped'
    BY <2>1 DEF HistoryInv, HistoryTyped
  <2> QED BY <1>4, <2>2, MergeVouches, MergeKeepsOwed DEF HistoryInv, History!CoverageIsVouched
<1> QED BY <1>1, <1>2, <1>3, <1>4 DEF History!Next

(* An entry a refusal asks for is needed by one of the two sides, and one  *)
(* that is acknowledged is not asked for again.                            *)
LEMMA RemedyAlways == ASSUME pr # None PROVE History!RemedyWorks
<1> DEFINE needed == UNION {History!Needed(s, pr.head, branch.acks) : s \in History!Sides(pr)}
<1>1. ASSUME NEW s \in History!Sides(pr) PROVE ~History!Refused(s, pr.head, branch.acks \cup needed)
  <2>1. History!Needed(s, pr.head, branch.acks) \subseteq needed
    OBVIOUS
  <2> QED BY <2>1 DEF History!Refused, History!Needed
<1> QED BY <1>1 DEF History!RemedyWorks, History!RefusedByAny

(***************************************************************************)
(* The tamper check.                                                       *)
(***************************************************************************)

Levels == {"low", "medium", "high", "critical"}
IsFinding(f) == f.severity \in Levels /\ f.pinned \in BOOLEAN

(* Findings of one comparison or one walk: none of a name twice.           *)
OnePerName(fs) == \A f, g \in fs : f.signal[1] = g.signal[1] => f = g

IntegrityNames == {"integrity-removed", "tarball-repointed", "integrity-changed", "integrity-downgraded",
                   "tarball-repointed-unverified"}
ResolutionNames == {"resolution-unreadable", "host-changed", "scheme-downgrade", "local-source-changed"}
CompareNames == IntegrityNames \cup ResolutionNames

(* At most one finding, of a name in the set.                              *)
OneOf(fs, names) == /\ \A f \in fs : IsFinding(f) /\ f.signal[1] \in names
                    /\ \A f, g \in fs : f = g

(* What a finding carries.                                                 *)
LEMMA FoundIs ==
  ASSUME NEW x, NEW y, NEW s, NEW p
  PROVE  /\ Tamper!Found(<<x, y>>, s, p).signal = <<x, y>>
         /\ Tamper!Found(<<x, y>>, s, p).signal[1] = x
         /\ Tamper!Found(<<x, y>>, s, p).severity = s
         /\ Tamper!Found(<<x, y>>, s, p).pinned = p
BY DEF Tamper!Found

(* One finding is one finding; so is at most one of them.                  *)
LEMMA FoundOne ==
  ASSUME NEW names, NEW x \in names, NEW y, NEW s \in Levels, NEW p \in BOOLEAN
  PROVE  OneOf({Tamper!Found(<<x, y>>, s, p)}, names)
<1> DEFINE f == Tamper!Found(<<x, y>>, s, p)
<1>1. f.signal[1] = x /\ f.severity = s /\ f.pinned = p
  BY FoundIs
<1>2. IsFinding(f)
  <2> HIDE DEF f
  <2>1. f.severity \in Levels
    BY <1>1
  <2>2. f.pinned \in BOOLEAN
    BY <1>1, Zenon
  <2> QED BY <2>1, <2>2 DEF IsFinding
<1>3. OneOf({f}, names)
  <2> HIDE DEF f
  <2> QED BY <1>1, <1>2 DEF OneOf
<1> QED BY <1>3

(* Nothing is at most one thing.                                           *)
LEMMA NoneOne == ASSUME NEW names PROVE OneOf({}, names)
BY DEF OneOf

(* Nor is a finding that only sometimes is there more than one.            *)
LEMMA WhenOne ==
  ASSUME NEW names, NEW x \in names, NEW y, NEW s \in Levels, NEW p \in BOOLEAN, NEW c
  PROVE  OneOf(Tamper!When(c, Tamper!Found(<<x, y>>, s, p)), names)
BY FoundOne, NoneOne DEF Tamper!When

(* Each of the two comparisons says at most one thing.                     *)
LEMMA IntegrityIs ==
  ASSUME NEW b, NEW a
  PROVE  OneOf(Tamper!IntegritySignals(b, a), IntegrityNames)
<1> DEFINE F(x, s) == {Tamper!Found(<<x, None>>, s, FALSE)}
<1>1. /\ OneOf({Tamper!Found(<<"integrity-removed", None>>, "critical", FALSE)}, IntegrityNames)
      /\ OneOf({Tamper!Found(<<"integrity-changed", None>>, "critical", FALSE)}, IntegrityNames)
      /\ OneOf({Tamper!Found(<<"integrity-downgraded", None>>, "critical", FALSE)}, IntegrityNames)
      /\ OneOf({Tamper!Found(<<"tarball-repointed", Tamper!OriginOf(a.url)>>, "critical", FALSE)}, IntegrityNames)
      /\ OneOf({Tamper!Found(<<"tarball-repointed-unverified", Tamper!OriginOf(a.url)>>, "high", FALSE)}, IntegrityNames)
      /\ OneOf({}, IntegrityNames)
  BY FoundOne, NoneOne DEF IntegrityNames, Levels
<1> HIDE DEF IntegrityNames, Levels
<1> QED BY <1>1 DEF Tamper!IntegritySignals, Tamper!When

(* The same of the resolutions.                                            *)
LEMMA ResolutionIs ==
  ASSUME NEW b, NEW a
  PROVE  OneOf(Tamper!ResolutionSignals(b, a), ResolutionNames)
<1>1. /\ OneOf({Tamper!Found(<<"resolution-unreadable", None>>, "critical", FALSE)}, ResolutionNames)
      /\ OneOf({Tamper!Found(<<"resolution-unreadable", None>>, "high", FALSE)}, ResolutionNames)
      /\ OneOf({Tamper!Found(<<"host-changed", Tamper!OriginOf(a.url)>>, "critical", FALSE)}, ResolutionNames)
      /\ OneOf({Tamper!Found(<<"scheme-downgrade", Tamper!OriginOf(a.url)>>, "critical", FALSE)}, ResolutionNames)
      /\ OneOf({Tamper!Found(<<"local-source-changed", None>>, "critical", FALSE)}, ResolutionNames)
      /\ OneOf({}, ResolutionNames)
  BY FoundOne, NoneOne DEF ResolutionNames, Levels
<1> HIDE DEF ResolutionNames, Levels
<1> QED BY <1>1 DEF Tamper!ResolutionSignals, Tamper!When

(* A comparison reports no name twice.                                     *)
LEMMA CompareOne ==
  ASSUME NEW b, NEW a
  PROVE  /\ \A f \in Tamper!Compare(b, a) : IsFinding(f) /\ f.signal[1] \in CompareNames
         /\ OnePerName(Tamper!Compare(b, a))
<1>1. PICK c, d : Tamper!Compare(b, a) = Tamper!IntegritySignals(c, d) \cup Tamper!ResolutionSignals(c, d)
  BY DEF Tamper!Compare
<1>2. IntegrityNames \cap ResolutionNames = {}
  BY DEF IntegrityNames, ResolutionNames
<1> QED BY <1>1, <1>2, IntegrityIs, ResolutionIs DEF OneOf, OnePerName, CompareNames

TarballNames == {"unparseable-tarball", "tarball-name-mismatch", "tarball-version-mismatch"}
(* A tarball says at most one thing of itself.                             *)
LEMMA TarballIs ==
  ASSUME NEW e, NEW c, NEW d
  PROVE  OneOf(Tamper!TarballFindings(e, c, d), TarballNames)
<1>1. /\ OneOf({Tamper!Found(<<"unparseable-tarball", e.url.host>>, "medium", FALSE)}, TarballNames)
      /\ OneOf({Tamper!Found(<<"tarball-name-mismatch", e.url.path.pkg>>, "critical", FALSE)}, TarballNames)
      /\ OneOf({Tamper!Found(<<"tarball-version-mismatch", None>>, "high", FALSE)}, TarballNames)
      /\ OneOf({}, TarballNames)
  BY FoundOne, NoneOne DEF TarballNames, Levels
<1> HIDE DEF TarballNames, Levels
<1> QED BY <1>1 DEF Tamper!TarballFindings, Tamper!When

(* A name field says at most one thing.                                    *)
LEMMA UnvouchedIs ==
  ASSUME NEW e, NEW c
  PROVE  OneOf(Tamper!UnvouchedName(e, c), {"name-field-unvouched"})
BY WhenOne DEF Tamper!UnvouchedName, Levels

SourceNames == {"git-source", "url-source"}

(* A source swap is one finding.                                           *)
LEMMA SwapIs ==
  ASSUME NEW p, NEW h, NEW c
  PROVE  OneOf({Tamper!SourceSwap(p, h, c)}, SourceNames)
<1> DEFINE x == IF p = "git" THEN "git-source" ELSE "url-source"
           s == IF c /\ ~input.compared THEN "low" ELSE "critical"
           q == p = "git" /\ c
<1>1. x \in SourceNames /\ s \in Levels /\ q \in BOOLEAN
  BY DEF SourceNames, Levels
<1>2. Tamper!SourceSwap(p, h, c) = Tamper!Found(<<x, h>>, s, q)
  BY DEF Tamper!SourceSwap
<1> HIDE DEF x, s, q
<1> QED BY <1>1, <1>2, FoundOne

(* Nor do the certain findings report a name twice.                        *)
LEMMA CertainOne ==
  ASSUME NEW c, NEW e, NEW b
  PROVE  /\ \A f \in Tamper!CertainFindings(c, e, b) :
              IsFinding(f) /\ f.signal[1] \in CompareNames \cup {"ambiguous-critical"}
         /\ OnePerName(Tamper!CertainFindings(c, e, b))
<1>1. Tamper!Agreed(c, e, b) \subseteq Tamper!Compare(b[Tamper!First(c)], e)
  BY DEF Tamper!Agreed
<1>2. IsFinding(Tamper!AmbiguousCritical) /\ Tamper!AmbiguousCritical.signal[1] = "ambiguous-critical"
  <2>1. OneOf({Tamper!AmbiguousCritical}, {"ambiguous-critical"})
    BY FoundOne DEF Tamper!AmbiguousCritical, Levels
  <2> QED BY <2>1 DEF OneOf
<1>3. "ambiguous-critical" \notin CompareNames
  BY DEF CompareNames, IntegrityNames, ResolutionNames
<1>4. Tamper!CertainFindings(c, e, b) \subseteq Tamper!Compare(b[Tamper!First(c)], e) \cup {Tamper!AmbiguousCritical}
  BY <1>1 DEF Tamper!CertainFindings, Tamper!When
<1> QED BY <1>2, <1>3, <1>4, CompareOne DEF OnePerName

(* What one step of either walk reports.                                   *)
LEMMA DeclarationOne ==
  ASSUME NEW d
  PROVE  /\ \A f \in Tamper!DeclarationFindings(d) : IsFinding(f)
         /\ OnePerName(Tamper!DeclarationFindings(d))
<1> DEFINE swap == Tamper!SourceSwap(d.protocol, d.source.host, d.source.pinned)
           pair == Tamper!Compare(Tamper!Before(d), Tamper!After(d))
<1>1. Tamper!DeclarationFindings(d) \subseteq {swap} \cup pair
  BY DEF Tamper!DeclarationFindings
<1>2. IsFinding(swap) /\ swap.signal[1] \in SourceNames
  BY SwapIs DEF OneOf
<1>3. SourceNames \cap CompareNames = {}
  BY DEF SourceNames, CompareNames, IntegrityNames, ResolutionNames
<1>4. (\A f \in pair : IsFinding(f) /\ f.signal[1] \in CompareNames) /\ OnePerName(pair)
  BY CompareOne
<1> HIDE DEF swap, pair
<1> QED BY <1>1, <1>2, <1>3, <1>4 DEF OnePerName

(* The source of an added entry is at most one finding.                    *)
LEMMA AddedIs ==
  ASSUME NEW e
  PROVE  OneOf(Tamper!AddedSource(e), SourceNames)
<1> DEFINE s == Tamper!LockEntrySource(e)
<1>1. /\ OneOf({Tamper!SourceSwap("git", s.host, s.pinned)}, SourceNames)
      /\ OneOf({Tamper!Found(<<"url-source", s.host>>, "high", FALSE)}, SourceNames)
      /\ OneOf({Tamper!Found(<<"url-source", s.host>>, "critical", FALSE)}, SourceNames)
      /\ OneOf({}, SourceNames)
  BY SwapIs, FoundOne, NoneOne DEF SourceNames, Levels
<1> HIDE DEF SourceNames, Levels
<1> QED BY <1>1 DEF Tamper!AddedSource

(* An entry reports no name twice.                                         *)
LEMMA EntryOne ==
  ASSUME NEW e, NEW b
  PROVE  /\ \A f \in Tamper!EntryFindings(e, b) : IsFinding(f)
         /\ OnePerName(Tamper!EntryFindings(e, b))
<1>1. PICK x, c, d :
        Tamper!EntryFindings(e, b) \subseteq
          Tamper!TarballFindings(e, x, d) \cup Tamper!UnvouchedName(e, x)
          \cup (IF b = <<>> THEN Tamper!AddedSource(e) ELSE Tamper!CertainFindings(c, e, b))
  BY DEF Tamper!EntryFindings
<1> DEFINE rest == IF b = <<>> THEN Tamper!AddedSource(e) ELSE Tamper!CertainFindings(c, e, b)
           more == SourceNames \cup CompareNames \cup {"ambiguous-critical"}
<1>2. (\A f \in rest : IsFinding(f) /\ f.signal[1] \in more) /\ OnePerName(rest)
  <2>1. CASE b = <<>>
    BY <2>1, AddedIs DEF OneOf, OnePerName
  <2>2. CASE b # <<>>
    BY <2>2, CertainOne
  <2> QED BY <2>1, <2>2
<1>3. /\ TarballNames \cap {"name-field-unvouched"} = {} /\ TarballNames \cap more = {}
      /\ "name-field-unvouched" \notin more
  BY DEF TarballNames, SourceNames, CompareNames, IntegrityNames, ResolutionNames
<1> HIDE DEF rest, more
<1>4. Tamper!EntryFindings(e, b) \subseteq Tamper!TarballFindings(e, x, d) \cup Tamper!UnvouchedName(e, x) \cup rest
  BY <1>1 DEF rest
<1> QED BY <1>2, <1>3, <1>4, TarballIs, UnvouchedIs DEF OneOf, OnePerName

(***************************************************************************)
(* The finding that is kept for a signal.                                  *)
(***************************************************************************)
LEMMA RankIs == ASSUME NEW s \in Levels
  PROVE Tamper!SeverityRank(s) = IF s = "low" THEN 1 ELSE IF s = "medium" THEN 2 ELSE IF s = "high" THEN 3 ELSE 4
BY DEF Tamper!SeverityRank, Tamper!Severities, Levels

(* Worse is an order that ties do not break.                               *)
LEMMA WorseOrder ==
  ASSUME NEW f, NEW g, NEW h, IsFinding(f), IsFinding(g), IsFinding(h)
  PROVE  /\ ~Tamper!WorseThan(f, f)
         /\ ~Tamper!WorseThan(f, h) /\ Tamper!WorseThan(g, h) => ~Tamper!WorseThan(f, g)
         /\ ~Tamper!WorseThan(f, h) => Tamper!SeverityRank(f.severity) <= Tamper!SeverityRank(h.severity)
<1>1. /\ f.severity \in Levels /\ g.severity \in Levels /\ h.severity \in Levels
      /\ f.pinned \in BOOLEAN /\ g.pinned \in BOOLEAN /\ h.pinned \in BOOLEAN
  BY DEF IsFinding
<1>2. /\ Tamper!SeverityRank(f.severity) \in 1..4 /\ Tamper!SeverityRank(g.severity) \in 1..4 /\ Tamper!SeverityRank(h.severity) \in 1..4
      /\ Tamper!SeverityRank(f.severity) = Tamper!SeverityRank(g.severity) <=> f.severity = g.severity
      /\ Tamper!SeverityRank(f.severity) = Tamper!SeverityRank(h.severity) <=> f.severity = h.severity
      /\ Tamper!SeverityRank(h.severity) = Tamper!SeverityRank(g.severity) <=> h.severity = g.severity
  BY <1>1, RankIs DEF Levels
<1> DEFINE fp == f.pinned = TRUE  gp == g.pinned = TRUE  hp == h.pinned = TRUE
<1>3. /\ Tamper!WorseThan(f, f) <=> Tamper!SeverityRank(f.severity) > Tamper!SeverityRank(f.severity)
      /\ Tamper!WorseThan(f, h) <=> Tamper!SeverityRank(f.severity) > Tamper!SeverityRank(h.severity) \/ (f.severity = h.severity /\ hp /\ ~fp)
      /\ Tamper!WorseThan(g, h) <=> Tamper!SeverityRank(g.severity) > Tamper!SeverityRank(h.severity) \/ (g.severity = h.severity /\ hp /\ ~gp)
      /\ Tamper!WorseThan(f, g) <=> Tamper!SeverityRank(f.severity) > Tamper!SeverityRank(g.severity) \/ (f.severity = g.severity /\ gp /\ ~fp)
  BY <1>1, Zenon DEF Tamper!WorseThan
<1> HIDE DEF fp, gp, hp
<1> QED BY <1>2, <1>3

(* Reporting more keeps, for every signal, a finding no other is worse than. *)
LEMMA ReportKeepsWorst ==
  ASSUME NEW h, NEW fs, NEW R,
         \A f \in fs : IsFinding(f), OnePerName(fs),
         \A f \in R : IsFinding(f) /\ f.signal \in DOMAIN h /\ ~Tamper!WorseThan(f, h[f.signal]),
         \A s \in DOMAIN h : IsFinding(h[s])
  PROVE  /\ \A f \in R \cup fs : /\ f.signal \in DOMAIN Tamper!Report(h, fs)
                                 /\ ~Tamper!WorseThan(f, Tamper!Report(h, fs)[f.signal])
         /\ \A s \in DOMAIN Tamper!Report(h, fs) : IsFinding(Tamper!Report(h, fs)[s])
<1> DEFINE new(s) == CHOOSE f \in fs : f.signal = s
           k == Tamper!Report(h, fs)
<1>1. \A f \in fs : new(f.signal) = f
  <2> SUFFICES ASSUME NEW f \in fs PROVE new(f.signal) = f
    OBVIOUS
  <2>1. new(f.signal) \in fs /\ new(f.signal).signal = f.signal
    OBVIOUS
  <2> HIDE DEF new
  <2> QED BY <2>1 DEF OnePerName
<1>2. /\ DOMAIN k = DOMAIN h \cup Tamper!Signals(fs)
      /\ \A s \in DOMAIN k :
           k[s] = IF s \in DOMAIN h /\ (s \in Tamper!Signals(fs) => ~Tamper!WorseThan(new(s), h[s]))
                  THEN h[s] ELSE new(s)
  BY DEF Tamper!Report
<1>3. \A s \in Tamper!Signals(fs) : \E f \in fs : f.signal = s
  BY DEF Tamper!Signals
<1>4. \A f \in fs : f.signal \in Tamper!Signals(fs)
  BY DEF Tamper!Signals
<1> HIDE DEF new, k
<1>5. ASSUME NEW s \in DOMAIN k PROVE IsFinding(k[s])
  BY <1>1, <1>2, <1>3
<1>6. ASSUME NEW f \in R PROVE f.signal \in DOMAIN k /\ ~Tamper!WorseThan(f, k[f.signal])
  <2>1. f.signal \in DOMAIN k /\ IsFinding(f) /\ IsFinding(h[f.signal]) /\ ~Tamper!WorseThan(f, h[f.signal])
    BY <1>2
  <2>2. CASE k[f.signal] = h[f.signal]
    BY <2>1, <2>2
  <2>3. CASE k[f.signal] # h[f.signal]
    <3>1. k[f.signal] = new(f.signal) /\ Tamper!WorseThan(new(f.signal), h[f.signal]) /\ f.signal \in Tamper!Signals(fs)
      BY <1>2, <2>1, <2>3
    <3>2. IsFinding(new(f.signal))
      BY <1>1, <1>3, <3>1
    <3> QED BY <2>1, <3>1, <3>2, WorseOrder
  <2> QED BY <2>2, <2>3
<1>7. ASSUME NEW f \in fs PROVE f.signal \in DOMAIN k /\ ~Tamper!WorseThan(f, k[f.signal])
  <2>1. f.signal \in DOMAIN k /\ IsFinding(f) /\ new(f.signal) = f
    BY <1>1, <1>2, <1>4
  <2>2. ~Tamper!WorseThan(f, f)
    BY <2>1, WorseOrder
  <2> QED BY <1>2, <1>4, <2>1, <2>2
<1> QED BY <1>5, <1>6, <1>7 DEF k

(* What is said of two entries depends on the input alone.                 *)
LEMMA SamePair ==
  ASSUME input' = input, NEW b, NEW a
  PROVE  Tamper!Compare(b, a)' = Tamper!Compare(b, a)
BY DEF Tamper!Compare, Tamper!ImpliedRegistryEntry, Tamper!IntegritySignals, Tamper!ResolutionSignals,
   Tamper!IntegrityVerdict, Tamper!SameOriginPair, Tamper!SameOriginRegistryPathMove, Tamper!BytesVouchedFor, Tamper!BenignUpgrade

(* So do the candidates that raise a signal, ...                           *)
LEMMA SameRaising ==
  ASSUME input' = input, NEW s, NEW c, NEW e, NEW b
  PROVE  Tamper!Raising(s, c, e, b)' = Tamper!Raising(s, c, e, b)
BY SamePair DEF Tamper!Raising

(* ... what is certain of them, ...                                        *)
LEMMA SameCertain ==
  ASSUME input' = input, NEW c, NEW e, NEW b
  PROVE  Tamper!CertainFindings(c, e, b)' = Tamper!CertainFindings(c, e, b)
<1>1. Tamper!Agreed(c, e, b)' = Tamper!Agreed(c, e, b)
  BY SamePair, SameRaising DEF Tamper!Agreed
<1>2. Tamper!Dropped(c, e, b)' = Tamper!Dropped(c, e, b)
  BY SamePair, SameRaising DEF Tamper!Dropped
<1> QED BY <1>1, <1>2 DEF Tamper!CertainFindings

(* ... what a tarball and a name field say, ...                            *)
LEMMA SameTarball ==
  ASSUME input' = input, NEW c, NEW e
  PROVE  /\ Tamper!UnvouchedName(e, c)' = Tamper!UnvouchedName(e, c)
         /\ Tamper!TarballFindings(e, c, input.deps # <<>>)' = Tamper!TarballFindings(e, c, input.deps # <<>>)
BY DEF Tamper!UnvouchedName, Tamper!TarballFindings

(* ... what is said of an added source, ...                                *)
LEMMA SameSource ==
  ASSUME input' = input, NEW e
  PROVE  Tamper!AddedSource(e)' = Tamper!AddedSource(e)
<1>1. Tamper!SourceReported' = Tamper!SourceReported
  <2>1. ASSUME NEW d PROVE Tamper!Moved(d)' = Tamper!Moved(d)
    BY <2>1 DEF Tamper!Moved, Tamper!Before, Tamper!After, Tamper!LockEntriesDiffer
  <2> QED BY <2>1 DEF Tamper!SourceReported
<1>2. ASSUME NEW p, NEW h, NEW q PROVE Tamper!SourceSwap(p, h, q)' = Tamper!SourceSwap(p, h, q)
  BY DEF Tamper!SourceSwap
<1> QED BY <1>1, <1>2 DEF Tamper!AddedSource

(* ... and so all that is said of an entry.                                *)
LEMMA SameFindings ==
  ASSUME input' = input, NEW e, NEW b
  PROVE  Tamper!EntryFindings(e, b)' = Tamper!EntryFindings(e, b)
BY SameCertain, SameTarball, SameSource DEF Tamper!EntryFindings

(* Every finding has been kept or gave way to one no better, and all that  *)
(* is said of the entries taken so far was reported.                       *)
TamperInv ==
  /\ input \in Inputs /\ at \in Nat
  /\ \A f \in raised : IsFinding(f)
  /\ \A s \in DOMAIN held : IsFinding(held[s])
  /\ Tamper!WorstIsKept
  /\ \A k \in 1..Len(input.after) : \A e \in {input.after[k]}, b \in {input.before} :
       Len(input.deps) + k <= at => Tamper!EntryFindings(e, b) \subseteq raised

(* The invariant of the tamper check holds at the start, ...               *)
LEMMA TamperStart == Tamper!Init => TamperInv
<1> SUFFICES ASSUME Tamper!Init PROVE TamperInv
  OBVIOUS
<1> USE DEF Tamper!Init
<1>1. Tamper!InputOK(input)
  BY TamperAssumption DEF Tamper!TamperConstants
<1>2. Len(input.deps) \in Nat
  BY <1>1 DEF Tamper!InputOK
<1> QED BY <1>2 DEF TamperInv, Tamper!WorstIsKept

(* ... and every step keeps it.                                            *)
LEMMA TamperStepInv == ASSUME TamperInv, Tamper!Next \/ UNCHANGED Tamper!vars PROVE TamperInv'
<1>1. Tamper!InputOK(input) /\ Len(input.deps) \in Nat /\ Len(input.after) \in Nat
  BY TamperAssumption DEF TamperInv, Tamper!TamperConstants, Tamper!InputOK
<1>2. ASSUME NEW fs, Tamper!Take(fs), \A f \in fs : IsFinding(f), OnePerName(fs)
      PROVE  /\ input' = input /\ input' \in Inputs /\ at' = at + 1 /\ at' \in Nat /\ raised' = raised \cup fs
             /\ \A f \in raised' : IsFinding(f)
             /\ \A s \in DOMAIN held' : IsFinding(held'[s])
             /\ Tamper!WorstIsKept'
  <2>1. /\ input' = input /\ at' = at + 1 /\ at' \in Nat /\ raised' = raised \cup fs
        /\ held' = Tamper!Report(held, fs)
    BY <1>2 DEF Tamper!Take, TamperInv
  <2>2. \A f \in raised : IsFinding(f) /\ f.signal \in DOMAIN held /\ ~Tamper!WorseThan(f, held[f.signal])
    BY DEF TamperInv, Tamper!WorstIsKept
  <2>3. \A s \in DOMAIN held : IsFinding(held[s])
    BY DEF TamperInv
  <2>4. /\ \A f \in raised \cup fs : /\ f.signal \in DOMAIN held'
                                     /\ ~Tamper!WorseThan(f, held'[f.signal])
        /\ \A s \in DOMAIN held' : IsFinding(held'[s])
    BY <1>2, <2>1, <2>2, <2>3, ReportKeepsWorst
  <2> QED BY <1>2, <2>1, <2>2, <2>4 DEF TamperInv, Tamper!WorstIsKept
<1>3. CASE Tamper!JudgeDeclaration
  <2> DEFINE fs == Tamper!DeclarationFindings(input.deps[at + 1])
  <2>1. Tamper!Take(fs) /\ at < Len(input.deps)
    BY <1>3 DEF Tamper!JudgeDeclaration
  <2>2. (\A f \in fs : IsFinding(f)) /\ OnePerName(fs)
    BY DeclarationOne
  <2> HIDE DEF fs
  <2>3. \A k \in 1..Len(input.after) : ~(Len(input.deps) + k <= at + 1)
    BY <1>1, <2>1 DEF TamperInv
  <2> QED BY <1>2, <2>1, <2>2, <2>3 DEF TamperInv
<1>4. CASE Tamper!JudgeEntry
  <2> DEFINE j == at + 1 - Len(input.deps)
             fs == Tamper!EntryFindings(input.after[j], input.before)
  <2>1. Tamper!Take(fs) /\ j \in 1..Len(input.after) /\ at + 1 = Len(input.deps) + j
    <3>1. at \in Nat /\ at >= Len(input.deps) /\ at < Len(input.deps) + Len(input.after) /\ Tamper!Take(fs)
      BY <1>4 DEF Tamper!JudgeEntry, TamperInv
    <3>2. j \in 1..Len(input.after) /\ at + 1 = Len(input.deps) + j
      <4>1. at \in Nat /\ at >= Len(input.deps) /\ at < Len(input.deps) + Len(input.after)
        BY <3>1
      <4>2. \A m, n \in Nat : at >= m /\ at < m + n => at + 1 - m \in 1..n /\ at + 1 = m + (at + 1 - m)
        BY <4>1
      <4> QED BY <1>1, <4>1, <4>2, Zenon
    <3> HIDE DEF fs, j
    <3> QED BY <3>1, <3>2
  <2>2. (\A f \in fs : IsFinding(f)) /\ OnePerName(fs)
    BY EntryOne
  <2>3. ASSUME NEW k \in 1..Len(input.after), NEW e \in {input.after[k]}, NEW b \in {input.before},
               Len(input.deps) + k <= at + 1
        PROVE  Tamper!EntryFindings(e, b) \subseteq raised \cup fs
    <3>1. CASE k = j
      BY <3>1
    <3>2. CASE k # j
      <4> HIDE DEF fs
      <4>1. Len(input.deps) + k <= at
        BY <1>1, <2>1, <2>3, <3>2 DEF TamperInv
      <4> QED BY <4>1 DEF TamperInv
    <3> QED BY <3>1, <3>2
  <2> HIDE DEF fs, j
  <2>4. /\ input' = input /\ input' \in Inputs /\ at' = at + 1 /\ at' \in Nat /\ raised' = raised \cup fs
        /\ \A f \in raised' : IsFinding(f)
        /\ \A s \in DOMAIN held' : IsFinding(held'[s])
        /\ Tamper!WorstIsKept'
    BY <1>2, <2>1, <2>2
  <2>5. ASSUME NEW k \in 1..Len(input.after), NEW e \in {input.after[k]}, NEW b \in {input.before},
               Len(input.deps) + k <= at + 1
        PROVE  Tamper!EntryFindings(e, b)' \subseteq raised'
    BY <2>3, <2>4, <2>5, SameFindings
  <2> QED BY <2>4, <2>5 DEF TamperInv
<1>5. ASSUME UNCHANGED Tamper!vars PROVE TamperInv'
  <2>1. input' = input /\ at' = at /\ raised' = raised /\ held' = held
    BY <1>5 DEF Tamper!vars
  <2>2. Tamper!WorstIsKept'
    BY <2>1 DEF TamperInv, Tamper!WorstIsKept
  <2>3. ASSUME NEW k \in 1..Len(input.after), NEW e \in {input.after[k]}, NEW b \in {input.before},
               Len(input.deps) + k <= at
        PROVE  Tamper!EntryFindings(e, b)' \subseteq raised'
    BY <2>1, <2>3, SameFindings DEF TamperInv
  <2> QED BY <2>1, <2>2, <2>3 DEF TamperInv
<1> QED BY <1>3, <1>4, <1>5 DEF Tamper!Next

(* The first of some places.                                               *)
LEMMA FirstIs ==
  ASSUME NEW S \in SUBSET Nat, S # {}
  PROVE  Tamper!First(S) \in S /\ \A j \in S : Tamper!First(S) <= j
<1> DEFINE R == OpToRel(<, Nat)
<1>1. IsWellFoundedOn(R, Nat)
  BY NatLessThanWellFounded
<1>2. \A x, y \in Nat : x < y => <<x, y>> \in R
  BY DEF OpToRel
<1> HIDE DEF R
<1>3. PICK d \in S : \A j \in S : ~(<<j, d>> \in R)
  BY <1>1, WFMin
<1>4. \A j \in S : d \in Nat /\ j \in Nat /\ ~(j < d)
  BY <1>2, <1>3
<1>5. \A j \in S : d <= j
  BY <1>4
<1> QED BY <1>5 DEF Tamper!First

(* A rung never leaves nothing, so there is a candidate.                   *)
LEMMA NarrowSome ==
  ASSUME NEW P, P # {}, NEW K
  PROVE  Tamper!Narrow(P, K) # {} /\ Tamper!Narrow(P, K) \subseteq P
BY DEF Tamper!Narrow

(* There is a candidate whenever there is an earlier entry.                *)
LEMMA CandidatesSome ==
  ASSUME NEW e, NEW b, DOMAIN b # {}
  PROVE  Tamper!Candidates(e, b) # {} /\ Tamper!Candidates(e, b) \subseteq DOMAIN b
<1>1. PICK S, T, U, V :
        Tamper!Candidates(e, b) = Tamper!Narrow(Tamper!Narrow(Tamper!Narrow(Tamper!Narrow(DOMAIN b, S), T), U), V)
  BY DEF Tamper!Candidates
<1>2. Tamper!Narrow(DOMAIN b, S) # {} /\ Tamper!Narrow(DOMAIN b, S) \subseteq DOMAIN b
  BY NarrowSome
<1> DEFINE N == Tamper!Narrow(DOMAIN b, S)
<1>3. Tamper!Narrow(N, T) # {} /\ Tamper!Narrow(N, T) \subseteq DOMAIN b
  BY <1>2, NarrowSome
<1> DEFINE M == Tamper!Narrow(N, T)
<1>4. Tamper!Narrow(M, U) # {} /\ Tamper!Narrow(M, U) \subseteq DOMAIN b
  BY <1>3, NarrowSome
<1> DEFINE L == Tamper!Narrow(M, U)
<1>5. Tamper!Narrow(L, V) # {} /\ Tamper!Narrow(L, V) \subseteq DOMAIN b
  BY <1>4, NarrowSome
<1> QED BY <1>1, <1>5

(* The implied URL is all that is read into an entry.                      *)
LEMMA ImpliedIs ==
  ASSUME NEW e, Tamper!EntryOK(e)
  PROVE  /\ Tamper!ImpliedRegistryEntry(e).version = e.version
         /\ Tamper!ImpliedRegistryEntry(e).hash = e.hash
         /\ Tamper!ImpliedRegistryEntry(e).url =
              IF input.format = "pnpm" /\ e.url = None /\ e.hash # None /\ e.version # None
              THEN Implied[e.version] ELSE e.url
BY DEF Tamper!EntryOK, Tamper!ImpliedRegistryEntry

(* Against an entry of its own resolution there is nothing to say.         *)
LEMMA UnchangedIsSilent ==
  ASSUME NEW b, NEW e, Tamper!EntryOK(b), Tamper!EntryOK(e),
         Tamper!ResolutionIdentity(b) = Tamper!ResolutionIdentity(e)
  PROVE  Tamper!Compare(b, e) = {}
<1> DEFINE c == Tamper!ImpliedRegistryEntry(b)
           d == Tamper!ImpliedRegistryEntry(e)
<1>1. b.version = e.version /\ b.url = e.url /\ b.hash = e.hash
  BY DEF Tamper!ResolutionIdentity
<1>2. c.version = d.version /\ c.url = d.url /\ c.hash = d.hash
  BY <1>1, ImpliedIs
<1>3. Tamper!Compare(b, e) = Tamper!IntegritySignals(c, d) \cup Tamper!ResolutionSignals(c, d)
  BY DEF Tamper!Compare
<1> HIDE DEF c, d
<1>4. Tamper!IntegritySignals(c, d) = {}
  BY <1>2 DEF Tamper!IntegritySignals, Tamper!SameOriginRegistryPathMove
<1>5. Tamper!ResolutionSignals(c, d) = {}
  <2>1. Tamper!OriginOf(c.url) # None => Tamper!OriginOf(c.url) = Tamper!Origin(c.url)
    BY DEF Tamper!OriginOf
  <2> QED BY <1>2, <2>1 DEF Tamper!ResolutionSignals, Tamper!When
<1> QED BY <1>3, <1>4, <1>5

(* What is dropped, by the first candidate that raises it.                 *)
LEMMA DroppedIs ==
  ASSUME NEW c, NEW e, NEW b, NEW f
  PROVE  f \in Tamper!Dropped(c, e, b) <=>
           \E i \in c : /\ f \in Tamper!Compare(b[i], e)
                       /\ Tamper!Raising(f.signal, c, e, b) # c
                       /\ Tamper!First(Tamper!Raising(f.signal, c, e, b)) = i
BY DEF Tamper!Dropped

(* Critical against every earlier entry is high or worse: the first        *)
(* candidate's finding is agreed, or it is the first that is dropped.      *)
LEMMA CriticalAgainstAll ==
  ASSUME NEW e, NEW b, DOMAIN b # {}, DOMAIN b \subseteq Nat, ~Tamper!Unchanged(e, b),
         \A i \in DOMAIN b : \E f \in Tamper!Compare(b[i], e) : f.severity = "critical"
  PROVE  \E f \in Tamper!EntryFindings(e, b) : f.severity \in {"high", "critical"}
<1> DEFINE c == Tamper!Candidates(e, b)
           i0 == Tamper!First(c)
<1>1. c # {} /\ c \subseteq DOMAIN b /\ c \subseteq Nat
  BY CandidatesSome
<1>2. Tamper!CertainFindings(c, e, b) \subseteq Tamper!EntryFindings(e, b)
  BY DEF Tamper!EntryFindings
<1> HIDE DEF c
<1>3. i0 \in c /\ \A j \in c : i0 <= j
  BY <1>1, FirstIs
<1>4. PICK f \in Tamper!Compare(b[i0], e) : f.severity = "critical"
  BY <1>1, <1>3
<1> DEFINE r == Tamper!Raising(f.signal, c, e, b)
<1>5. CASE r = c
  <2>1. f \in Tamper!CertainFindings(c, e, b)
    BY <1>4, <1>5 DEF Tamper!Agreed, Tamper!CertainFindings
  <2> QED BY <1>2, <1>4, <2>1
<1>6. CASE r # c
  <2>1. r \subseteq c /\ i0 \in r
    BY <1>3, <1>4 DEF Tamper!Raising, Tamper!Signals
  <2>2. Tamper!First(r) = i0
    <3>1. Tamper!First(r) \in r /\ Tamper!First(r) <= i0
      BY <1>1, <2>1, FirstIs
    <3>2. i0 <= Tamper!First(r) /\ i0 \in Nat /\ Tamper!First(r) \in Nat
      BY <1>1, <1>3, <2>1, <3>1
    <3> QED BY <3>1, <3>2
  <2>3. f \in Tamper!Dropped(c, e, b)
    BY <1>3, <1>4, <1>6, <2>2, DroppedIs
  <2>4. Tamper!AmbiguousCritical \in Tamper!CertainFindings(c, e, b)
    BY <1>4, <2>3 DEF Tamper!CertainFindings, Tamper!When
  <2>5. Tamper!AmbiguousCritical.severity = "high"
    BY DEF Tamper!AmbiguousCritical, Tamper!Found
  <2> QED BY <1>2, <2>4, <2>5
<1> QED BY <1>5, <1>6

(* Once all is judged, what is critical against every entry is held.       *)
LEMMA CriticalSeen == TamperInv => Tamper!CriticalIsSeen
<1> SUFFICES ASSUME TamperInv, Tamper!Done,
                    NEW k \in DOMAIN input.after, input.before # <<>>,
                    \A i \in DOMAIN input.before :
                      \E f \in Tamper!Compare(input.before[i], input.after[k]) : f.severity = "critical"
             PROVE  \E s \in Tamper!Signals(Tamper!EntryFindings(input.after[k], input.before)) :
                      s \in DOMAIN held /\ Tamper!SeverityRank(held[s].severity) >= Tamper!SeverityRank("high")
  BY DEF Tamper!CriticalIsSeen, Tamper!Range
<1> DEFINE e == input.after[k]
           b == input.before
<1>1. Tamper!InputOK(input) /\ k \in 1..Len(input.after)
  BY TamperAssumption DEF TamperInv, Tamper!TamperConstants, Tamper!InputOK
<1>2. DOMAIN b # {} /\ DOMAIN b \subseteq Nat
  BY <1>1 DEF Tamper!InputOK
<1>3. Tamper!EntryOK(e) /\ \A i \in DOMAIN b : Tamper!EntryOK(b[i])
  BY <1>1 DEF Tamper!InputOK, Tamper!Range
<1>4. ~Tamper!Unchanged(e, b)
  BY <1>3, UnchangedIsSilent DEF Tamper!Unchanged, Tamper!Range
<1>5. PICK f \in Tamper!EntryFindings(e, b) : f.severity \in {"high", "critical"}
  BY <1>2, <1>4, CriticalAgainstAll
<1>6. Len(input.deps) + k <= at
  <2>1. Len(input.deps) \in Nat /\ Len(input.after) \in Nat /\ at = Len(input.deps) + Len(input.after)
    BY <1>1 DEF Tamper!Done, Tamper!InputOK
  <2>2. \A m, n \in Nat : k \in 1..n => m + k <= m + n
    OBVIOUS
  <2> QED BY <1>1, <2>1, <2>2, Zenon
<1>7. f \in raised
  BY <1>1, <1>5, <1>6 DEF TamperInv
<1>8. f.signal \in DOMAIN held /\ ~Tamper!WorseThan(f, held[f.signal]) /\ IsFinding(f) /\ IsFinding(held[f.signal])
  BY <1>7 DEF TamperInv, Tamper!WorstIsKept
<1>9. Tamper!SeverityRank(f.severity) <= Tamper!SeverityRank(held[f.signal].severity)
  BY <1>8, WorseOrder
<1>10. /\ Tamper!SeverityRank(f.severity) \in {3, 4} /\ Tamper!SeverityRank("high") = 3
       /\ Tamper!SeverityRank(held[f.signal].severity) \in Nat
  BY <1>5, <1>8, RankIs DEF IsFinding, Levels
<1>11. f.signal \in Tamper!Signals(Tamper!EntryFindings(e, b))
  BY <1>5 DEF Tamper!Signals
<1> QED BY <1>8, <1>9, <1>10, <1>11

(***************************************************************************)
(* The order the earlier entries are listed in.                            *)
(***************************************************************************)

(* Two sets of places, one counted from the other end.                     *)
Mirrored(P, Q, n) ==
  /\ P \subseteq 1..n /\ Q \subseteq 1..n
  /\ \A i \in 1..n : i \in P <=> (n + 1) - i \in Q

(* Counting from the other end twice is counting from this one.            *)
LEMMA MirroredBack ==
  ASSUME NEW n \in Nat, NEW P, NEW Q, Mirrored(P, Q, n)
  PROVE  Mirrored(Q, P, n)
<1>1. \A i \in 1..n : (n + 1) - i \in 1..n /\ (n + 1) - ((n + 1) - i) = i
  OBVIOUS
<1> QED BY <1>1 DEF Mirrored

(* A rung of mirrored places leaves mirrored places.                       *)
LEMMA NarrowMirrored ==
  ASSUME NEW n \in Nat, NEW P, NEW Q, NEW K, NEW L, Mirrored(P, Q, n), Mirrored(K, L, n)
  PROVE  Mirrored(Tamper!Narrow(P, K), Tamper!Narrow(Q, L), n)
<1>1. Mirrored(P \cap K, Q \cap L, n)
  BY DEF Mirrored
<1>2. P \cap K = {} <=> Q \cap L = {}
  <2>1. \A S, T : Mirrored(S, T, n) /\ T = {} => S = {}
    BY DEF Mirrored
  <2> QED BY <1>1, <2>1, MirroredBack
<1> QED BY <1>1, <1>2 DEF Tamper!Narrow

(* What the library calls the reverse of a sequence.                       *)
LEMMA ReverseIs ==
  ASSUME NEW S, NEW b \in Seq(S)
  PROVE  LET r == Tamper!Reverse(b)
         IN /\ DOMAIN b = 1..Len(b) /\ DOMAIN r = 1..Len(b) /\ Len(b) \in Nat
            /\ \A i \in 1..Len(b) : (Len(b) + 1) - i \in 1..Len(b) /\ r[i] = b[(Len(b) + 1) - i]
<1>1. DOMAIN b = 1..Len(b) /\ Len(b) \in Nat
  OBVIOUS
<1>2. \A i \in 1..Len(b) : (Len(b) - i) + 1 = (Len(b) + 1) - i /\ (Len(b) + 1) - i \in 1..Len(b)
  BY <1>1
<1> QED BY <1>1, <1>2 DEF Tamper!Reverse

(* Reversed, the candidates are the same entries.                          *)
LEMMA CandidatesReversed ==
  ASSUME NEW S, NEW b \in Seq(S), NEW e
  PROVE  LET r == Tamper!Reverse(b)
         IN {r[i] : i \in Tamper!Candidates(e, r)} = {b[i] : i \in Tamper!Candidates(e, b)}
<1> DEFINE n == Len(b)
           r == Tamper!Reverse(b)
<1>1. /\ n \in Nat /\ DOMAIN b = 1..n /\ DOMAIN r = 1..n
      /\ \A i \in 1..n : (n + 1) - i \in 1..n /\ r[i] = b[(n + 1) - i]
  BY ReverseIs
<1> DEFINE A(s) == DOMAIN s
           V(s) == IF e.version = None THEN A(s) ELSE {i \in A(s) : s[i].version = e.version}
           U(s) == {i \in A(s) : s[i].url # None /\ s[i].url = e.url}
           O(s) == {i \in A(s) : /\ Tamper!OriginOf(e.url) # None
                                 /\ Tamper!OriginOf(s[i].url) = Tamper!OriginOf(e.url)}
           X(s) == {i \in A(s) : s[i].script = e.script}
<1>2. \A s : Tamper!Candidates(e, s) =
               Tamper!Narrow(Tamper!Narrow(Tamper!Narrow(Tamper!Narrow(A(s), V(s)), U(s)), O(s)), X(s))
  BY DEF Tamper!Candidates
<1> HIDE DEF n, r
<1>3. Mirrored(A(r), A(b), n)
  BY <1>1 DEF Mirrored
<1>4. Mirrored(V(r), V(b), n) /\ Mirrored(U(r), U(b), n) /\ Mirrored(O(r), O(b), n) /\ Mirrored(X(r), X(b), n)
  BY <1>1 DEF Mirrored
<1> HIDE DEF A, V, U, O, X
<1>5. Mirrored(Tamper!Candidates(e, r), Tamper!Candidates(e, b), n)
  <2>1. Mirrored(Tamper!Narrow(A(r), V(r)), Tamper!Narrow(A(b), V(b)), n)
    BY <1>1, <1>3, <1>4, NarrowMirrored
  <2>2. Mirrored(Tamper!Narrow(Tamper!Narrow(A(r), V(r)), U(r)), Tamper!Narrow(Tamper!Narrow(A(b), V(b)), U(b)), n)
    BY <1>1, <2>1, <1>4, NarrowMirrored
  <2>3. Mirrored(Tamper!Narrow(Tamper!Narrow(Tamper!Narrow(A(r), V(r)), U(r)), O(r)),
                 Tamper!Narrow(Tamper!Narrow(Tamper!Narrow(A(b), V(b)), U(b)), O(b)), n)
    BY <1>1, <2>2, <1>4, NarrowMirrored
  <2> QED BY <1>1, <1>2, <2>3, <1>4, NarrowMirrored
<1> DEFINE c == Tamper!Candidates(e, b)
           d == Tamper!Candidates(e, r)
<1> HIDE DEF c, d
<1>6. Mirrored(d, c, n) /\ Mirrored(c, d, n)
  BY <1>1, <1>5, MirroredBack DEF c, d
<1>7. \A i \in d : (n + 1) - i \in c /\ r[i] = b[(n + 1) - i]
  BY <1>1, <1>6 DEF Mirrored
<1>8. \A i \in c : (n + 1) - i \in d /\ r[(n + 1) - i] = b[i]
  <2>1. \A i \in 1..n : (n + 1) - ((n + 1) - i) = i
    BY <1>1
  <2> QED BY <1>1, <1>6, <2>1 DEF Mirrored
<1>9. {r[i] : i \in d} = {b[i] : i \in c}
  BY <1>7, <1>8
<1> QED BY <1>9 DEF c, d, r

(* What the comparison with the candidates says, read off the entries that *)
(* are candidates: a signal of all of them; and the ambiguous one, which   *)
(* is there when one of them is critical about what not all of them say,   *)
(* provided a signal is equally severe wherever it is raised.              *)
Shared(s, earlier, e) == \A d \in earlier : s \in Tamper!Signals(Tamper!Compare(d, e))

(* What all candidates say.                                                *)
LEMMA AgreedIs ==
  ASSUME NEW e, NEW b, NEW c, c # {}, c \subseteq Nat, NEW s
  PROVE  s \in Tamper!Signals(Tamper!Agreed(c, e, b)) <=> Shared(s, {b[i] : i \in c}, e)
<1>1. Tamper!First(c) \in c
  BY FirstIs
<1>2. Shared(s, {b[i] : i \in c}, e) <=> Tamper!Raising(s, c, e, b) = c
  BY DEF Shared, Tamper!Raising
<1>3. ASSUME Tamper!Raising(s, c, e, b) = c PROVE s \in Tamper!Signals(Tamper!Agreed(c, e, b))
  <2>1. PICK f \in Tamper!Compare(b[Tamper!First(c)], e) : f.signal = s
    BY <1>1, <1>3 DEF Tamper!Raising, Tamper!Signals
  <2>2. f \in Tamper!Agreed(c, e, b)
    BY <1>3, <2>1 DEF Tamper!Agreed
  <2> QED BY <2>1, <2>2 DEF Tamper!Signals
<1>4. ASSUME s \in Tamper!Signals(Tamper!Agreed(c, e, b)) PROVE Tamper!Raising(s, c, e, b) = c
  BY <1>4 DEF Tamper!Signals, Tamper!Agreed
<1> QED BY <1>2, <1>3, <1>4

(* A signal that no two of these entries raise differently, ...            *)
OneWay(s, earlier, e) ==
  \A x, y \in earlier : \A g \in Tamper!Compare(x, e), h \in Tamper!Compare(y, e) :
    g.signal = s /\ h.signal = s => g = h

(* ... whose agreed finding is then one they all raise.                    *)
LEMMA AgreedFindingIs ==
  ASSUME NEW e, NEW b, NEW c, c # {}, c \subseteq Nat, NEW f, OneWay(f.signal, {b[i] : i \in c}, e)
  PROVE  f \in Tamper!Agreed(c, e, b) <=>
           /\ \E x \in {b[i] : i \in c} : f \in Tamper!Compare(x, e)
           /\ Shared(f.signal, {b[i] : i \in c}, e)
<1>1. Tamper!First(c) \in c
  BY FirstIs
<1>2. Shared(f.signal, {b[i] : i \in c}, e) <=> Tamper!Raising(f.signal, c, e, b) = c
  BY DEF Shared, Tamper!Raising
<1>3. ASSUME Tamper!Raising(f.signal, c, e, b) = c, NEW k \in c, f \in Tamper!Compare(b[k], e)
      PROVE  f \in Tamper!Agreed(c, e, b)
  <2>1. PICK g \in Tamper!Compare(b[Tamper!First(c)], e) : g.signal = f.signal
    BY <1>1, <1>3 DEF Tamper!Raising, Tamper!Signals
  <2>2. g = f
    BY <1>1, <1>3, <2>1 DEF OneWay
  <2> QED BY <1>3, <2>1, <2>2 DEF Tamper!Agreed
<1>4. ASSUME f \in Tamper!Agreed(c, e, b)
      PROVE  f \in Tamper!Compare(b[Tamper!First(c)], e) /\ Tamper!Raising(f.signal, c, e, b) = c
  BY <1>4 DEF Tamper!Agreed
<1> QED BY <1>1, <1>2, <1>3, <1>4

(* When a critical finding is dropped.                                     *)
LEMMA DropsIs ==
  ASSUME NEW e, NEW b, NEW c, c # {}, c \subseteq Nat,
         \A x, y \in {b[i] : i \in c} : \A f \in Tamper!Compare(x, e), g \in Tamper!Compare(y, e) :
            f.signal = g.signal => f.severity = g.severity
  PROVE  (\E f \in Tamper!Dropped(c, e, b) : f.severity = "critical") <=>
         \E x \in {b[i] : i \in c} : \E f \in Tamper!Compare(x, e) :
            f.severity = "critical" /\ ~Shared(f.signal, {b[i] : i \in c}, e)
<1>1. \A s : Shared(s, {b[i] : i \in c}, e) <=> Tamper!Raising(s, c, e, b) = c
  BY DEF Shared, Tamper!Raising
<1>2. ASSUME NEW i \in c, NEW f \in Tamper!Compare(b[i], e), f.severity = "critical",
             Tamper!Raising(f.signal, c, e, b) # c
      PROVE  \E g \in Tamper!Dropped(c, e, b) : g.severity = "critical"
  <2> DEFINE r == Tamper!Raising(f.signal, c, e, b)
  <2>1. i \in r /\ r \subseteq c
    BY DEF Tamper!Raising, Tamper!Signals
  <2>2. Tamper!First(r) \in r
    BY <2>1, FirstIs
  <2>3. PICK g \in Tamper!Compare(b[Tamper!First(r)], e) : g.signal = f.signal
    BY <2>2 DEF Tamper!Raising, Tamper!Signals
  <2>4. g.severity = "critical"
    <3>1. b[i] \in {b[k] : k \in c} /\ b[Tamper!First(r)] \in {b[k] : k \in c}
      BY <2>1, <2>2
    <3> HIDE DEF r
    <3> QED BY <1>2, <2>3, <3>1
  <2>5. g \in Tamper!Dropped(c, e, b)
    BY <1>2, <2>1, <2>2, <2>3, DroppedIs
  <2> QED BY <2>4, <2>5
<1>3. ASSUME NEW f \in Tamper!Dropped(c, e, b), f.severity = "critical"
      PROVE  \E i \in c : f \in Tamper!Compare(b[i], e) /\ Tamper!Raising(f.signal, c, e, b) # c
  BY <1>3, DroppedIs
<1>4. ASSUME NEW x \in {b[k] : k \in c} PROVE \E i \in c : x = b[i]
  OBVIOUS
<1>5. ASSUME NEW i \in c PROVE b[i] \in {b[k] : k \in c}
  OBVIOUS
<1> DEFINE all == {b[k] : k \in c}
<1> HIDE DEF all
<1>6. (\E f \in Tamper!Dropped(c, e, b) : f.severity = "critical") <=>
        \E x \in all : \E f \in Tamper!Compare(x, e) : f.severity = "critical" /\ ~Shared(f.signal, all, e)
  <2>1. \A s : Shared(s, all, e) <=> Tamper!Raising(s, c, e, b) = c
    BY <1>1 DEF all
  <2>2. /\ \A x \in all : \E i \in c : x = b[i]
        /\ \A i \in c : b[i] \in all
    BY <1>4, <1>5 DEF all
  <2> QED BY <1>2, <1>3, <2>1, <2>2
<1> QED BY <1>6 DEF all

(* All that is said of an entry that is not unchanged.                     *)
LEMMA SaidIs ==
  ASSUME NEW e, NEW b, b # <<>>, DOMAIN b # {}, DOMAIN b \subseteq Nat, ~Tamper!Unchanged(e, b), NEW s
  PROVE  LET c == Tamper!Candidates(e, b)
             earlier == {b[i] : i \in c}
         IN s \in Tamper!Signals(Tamper!EntryFindings(e, b)) <=>
              \/ s \in Tamper!Signals(Tamper!TarballFindings(e, earlier, input.deps # <<>>))
              \/ s \in Tamper!Signals(Tamper!UnvouchedName(e, earlier))
              \/ Shared(s, earlier, e)
              \/ /\ s = Tamper!AmbiguousCritical.signal
                 /\ \E f \in Tamper!Dropped(c, e, b) : f.severity = "critical"
<1> DEFINE c == Tamper!Candidates(e, b)
           earlier == {b[i] : i \in c}
           t == Tamper!TarballFindings(e, earlier, input.deps # <<>>)
           u == Tamper!UnvouchedName(e, earlier)
<1>1. c # {} /\ c \subseteq Nat
  BY CandidatesSome
<1>2. Tamper!EntryFindings(e, b) = t \cup u \cup Tamper!CertainFindings(c, e, b)
  BY DEF Tamper!EntryFindings
<1>3. Tamper!CertainFindings(c, e, b) =
        Tamper!Agreed(c, e, b) \cup
          (IF \E f \in Tamper!Dropped(c, e, b) : f.severity = "critical" THEN {Tamper!AmbiguousCritical} ELSE {})
  BY DEF Tamper!CertainFindings, Tamper!When
<1>4. s \in Tamper!Signals(Tamper!Agreed(c, e, b)) <=> Shared(s, earlier, e)
  BY <1>1, AgreedIs
<1> HIDE DEF c, earlier, t, u
<1>5. s \in Tamper!Signals(Tamper!EntryFindings(e, b)) <=>
        \/ s \in Tamper!Signals(t) \/ s \in Tamper!Signals(u) \/ s \in Tamper!Signals(Tamper!Agreed(c, e, b))
        \/ s = Tamper!AmbiguousCritical.signal /\ \E f \in Tamper!Dropped(c, e, b) : f.severity = "critical"
  BY <1>2, <1>3 DEF Tamper!Signals
<1> QED BY <1>4, <1>5 DEF c, earlier, t, u

(* Finding by finding.                                                     *)
SaidIn(f, e, b, c, earlier) ==
  \/ f \in Tamper!TarballFindings(e, earlier, input.deps # <<>>)
  \/ f \in Tamper!UnvouchedName(e, earlier)
  \/ f \in Tamper!Agreed(c, e, b)
  \/ /\ f = Tamper!AmbiguousCritical
     /\ \E g \in Tamper!Dropped(c, e, b) : g.severity = "critical"

LEMMA SaidFinding ==
  ASSUME NEW e, NEW b, b # <<>>, ~Tamper!Unchanged(e, b), NEW f, NEW c, NEW earlier,
         c = Tamper!Candidates(e, b), earlier = {b[i] : i \in c}
  PROVE  f \in Tamper!EntryFindings(e, b) <=> SaidIn(f, e, b, c, earlier)
<1> DEFINE drops == \E g \in Tamper!Dropped(c, e, b) : g.severity = "critical"
<1>1. Tamper!EntryFindings(e, b) =
        Tamper!TarballFindings(e, earlier, input.deps # <<>>) \cup Tamper!UnvouchedName(e, earlier)
        \cup Tamper!CertainFindings(c, e, b)
  BY DEF Tamper!EntryFindings
<1>2. /\ drops => Tamper!CertainFindings(c, e, b) = Tamper!Agreed(c, e, b) \cup {Tamper!AmbiguousCritical}
      /\ ~drops => Tamper!CertainFindings(c, e, b) = Tamper!Agreed(c, e, b)
  BY DEF Tamper!CertainFindings, Tamper!When
<1>3. CASE drops
  BY <1>1, <1>2, <1>3 DEF SaidIn
<1>4. CASE ~drops
  BY <1>1, <1>2, <1>4 DEF SaidIn
<1> QED BY <1>3, <1>4

LEMMA DecidedIsOneWay ==
  ASSUME NEW e, NEW earlier, earlier \subseteq Tamper!Range(input.before), NEW s, s \notin Tamper!Undecided(e)
  PROVE  OneWay(s, earlier, e)
<1> SUFFICES ASSUME NEW x \in earlier, NEW y \in earlier,
                    NEW g \in Tamper!Compare(x, e), NEW h \in Tamper!Compare(y, e),
                    g.signal = s, h.signal = s, g # h
             PROVE  FALSE
  BY DEF OneWay
<1>1. g \in Tamper!Raised(e) /\ h \in Tamper!Raised(e)
  BY DEF Tamper!Raised
<1> QED BY <1>1 DEF Tamper!Undecided

(* Listed the other way round, the entries say the same, but for what is   *)
(* undecided.                                                              *)
SameSaid(e, here, there) ==
  /\ Tamper!Undecided(e) = {} => here = there
  /\ LET out == Tamper!Undecided(e) \cup {Tamper!AmbiguousCritical.signal}
     IN {f \in here : f.signal \notin out} = {f \in there : f.signal \notin out}
  /\ Tamper!Signals(here) \ {Tamper!AmbiguousCritical.signal}
       = Tamper!Signals(there) \ {Tamper!AmbiguousCritical.signal}

LEMMA OrderIrrelevant == TamperInv => Tamper!BeforeOrderIrrelevant
<1> SUFFICES ASSUME TamperInv, NEW e
             PROVE  SameSaid(e, Tamper!EntryFindings(e, input.before),
                                Tamper!EntryFindings(e, Tamper!Reverse(input.before)))
  BY DEF Tamper!BeforeOrderIrrelevant, SameSaid
<1> DEFINE b == input.before
           r == Tamper!Reverse(b)
<1>1. b \in Seq(Tamper!Range(b))
  BY TamperAssumption DEF TamperInv, Tamper!TamperConstants, Tamper!InputOK
<1>2. /\ Len(b) \in Nat /\ DOMAIN b = 1..Len(b) /\ DOMAIN r = 1..Len(b)
      /\ \A i \in 1..Len(b) : (Len(b) + 1) - i \in 1..Len(b) /\ r[i] = b[(Len(b) + 1) - i]
      /\ \A i \in 1..Len(b) : b[i] = r[(Len(b) + 1) - i]
  <2>1. \A m \in Nat : \A i \in 1..m : (m + 1) - ((m + 1) - i) = i
    OBVIOUS
  <2> QED BY <1>1, <2>1, ReverseIs
<1>3. CASE b = <<>>
  <2>1. r = <<>>
    BY <1>3 DEF Tamper!Reverse
  <2> QED BY <1>3, <2>1 DEF SameSaid
<1>4. CASE b # <<>>
  <2>1. DOMAIN b # {} /\ DOMAIN b \subseteq Nat /\ DOMAIN r # {} /\ DOMAIN r \subseteq Nat /\ r # <<>>
    <3>1. Len(b) # 0
      BY <1>1, <1>4
    <3>2. 1 \in 1..Len(b)
      BY <1>2, <3>1
    <3> QED BY <1>2, <3>2
  <2>2. Tamper!Unchanged(e, r) <=> Tamper!Unchanged(e, b)
    BY <1>2 DEF Tamper!Unchanged, Tamper!Range
  <2> DEFINE c == Tamper!Candidates(e, b)
             d == Tamper!Candidates(e, r)
             earlier == {b[i] : i \in c}
  <2>3. {r[i] : i \in d} = earlier
    BY <1>1, CandidatesReversed
  <2>4. c # {} /\ c \subseteq DOMAIN b /\ c \subseteq Nat /\ d # {} /\ d \subseteq Nat
    BY <2>1, CandidatesSome
  <2>5. CASE Tamper!Unchanged(e, b)
    BY <2>2, <2>5 DEF Tamper!EntryFindings, SameSaid
  <2>6. CASE ~Tamper!Unchanged(e, b)
    <3> DEFINE db == \E f \in Tamper!Dropped(c, e, b) : f.severity = "critical"
               dr == \E f \in Tamper!Dropped(d, e, r) : f.severity = "critical"
               amb == Tamper!AmbiguousCritical.signal
               said(s) == \/ s \in Tamper!Signals(Tamper!TarballFindings(e, earlier, input.deps # <<>>))
                          \/ s \in Tamper!Signals(Tamper!UnvouchedName(e, earlier))
                          \/ Shared(s, earlier, e)
    <3>1. \A s : s \in Tamper!Signals(Tamper!EntryFindings(e, b)) <=> said(s) \/ (s = amb /\ db)
      BY <1>4, <2>1, <2>6, SaidIs
    <3>2. \A s : s \in Tamper!Signals(Tamper!EntryFindings(e, r)) <=> said(s) \/ (s = amb /\ dr)
      <4> HIDE DEF r, c, d
      <4>1. ~Tamper!Unchanged(e, r)
        BY <2>2, <2>6
      <4> QED BY <2>1, <2>3, <4>1, SaidIs DEF d
    <3>3. earlier \subseteq Tamper!Range(b)
      BY <2>4 DEF Tamper!Range
    <3>4. ASSUME Tamper!Undecided(e) = {} PROVE db <=> dr
      <4>2. \A x, y \in earlier : \A f \in Tamper!Compare(x, e), g \in Tamper!Compare(y, e) :
              f.signal = g.signal => f.severity = g.severity
        <5> HIDE DEF earlier
        <5>1. \A s : OneWay(s, earlier, e)
          BY <3>3, <3>4, DecidedIsOneWay
        <5> QED BY <5>1 DEF OneWay
      <4> DEFINE some == \E x \in earlier : \E f \in Tamper!Compare(x, e) :
                           f.severity = "critical" /\ ~Shared(f.signal, earlier, e)
      <4>3. db <=> some
        <5> HIDE DEF c, b
        <5> QED BY <2>4, <4>2, DropsIs
      <4>4. dr <=> some
        <5> DEFINE later == {r[i] : i \in d}
        <5>1. later = earlier
          BY <2>3
        <5> HIDE DEF earlier, later
        <5>2. \A x, y \in later : \A f \in Tamper!Compare(x, e), g \in Tamper!Compare(y, e) :
                f.signal = g.signal => f.severity = g.severity
          BY <4>2, <5>1
        <5>3. dr <=> \E x \in later : \E f \in Tamper!Compare(x, e) :
                       f.severity = "critical" /\ ~Shared(f.signal, later, e)
          <6> HIDE DEF d, r, b, c
          <6> QED BY <2>4, <5>2, DropsIs DEF later
        <5> HIDE DEF dr
        <5> QED BY <5>1, <5>3
      <4> QED BY <4>3, <4>4
    <3>5. \A f : f \in Tamper!EntryFindings(e, b) <=> SaidIn(f, e, b, c, earlier)
      <4> HIDE DEF b
      <4> QED BY <1>4, <2>6, SaidFinding DEF c
    <3>6. \A f : f \in Tamper!EntryFindings(e, r) <=> SaidIn(f, e, r, d, earlier)
      <4>1. ~Tamper!Unchanged(e, r)
        BY <2>2, <2>6
      <4> HIDE DEF r, c, b
      <4> QED BY <2>1, <2>3, <4>1, SaidFinding DEF d
    <3>7. \A f : f.signal \notin Tamper!Undecided(e) => (f \in Tamper!Agreed(c, e, b) <=> f \in Tamper!Agreed(d, e, r))
      <4> SUFFICES ASSUME NEW f, f.signal \notin Tamper!Undecided(e)
                   PROVE  f \in Tamper!Agreed(c, e, b) <=> f \in Tamper!Agreed(d, e, r)
        OBVIOUS
      <4> DEFINE later == {r[i] : i \in d}
      <4>1. later = earlier
        BY <2>3
      <4>2. OneWay(f.signal, earlier, e)
        <5> HIDE DEF earlier
        <5> QED BY <3>3, DecidedIsOneWay
      <4> DEFINE some(es) == (\E x \in es : f \in Tamper!Compare(x, e)) /\ Shared(f.signal, es, e)
      <4>3. f \in Tamper!Agreed(c, e, b) <=> some(earlier)
        <5> HIDE DEF c, b
        <5> QED BY <2>4, <4>2, AgreedFindingIs
      <4>4. f \in Tamper!Agreed(d, e, r) <=> some(later)
        <5>1. OneWay(f.signal, later, e)
          BY <4>1, <4>2
        <5> HIDE DEF d, r, b, c
        <5> QED BY <2>4, <5>1, AgreedFindingIs
      <4> HIDE DEF later, earlier, some
      <4> QED BY <4>1, <4>3, <4>4
    <3> HIDE DEF said, db, dr, amb, b, r, c, d, earlier
    <3>8. Tamper!Undecided(e) = {} => Tamper!EntryFindings(e, b) = Tamper!EntryFindings(e, r)
      BY <3>4, <3>5, <3>6, <3>7 DEF SaidIn, db, dr
    <3>9. \A f : f.signal \notin Tamper!Undecided(e) \cup {amb} =>
                   (f \in Tamper!EntryFindings(e, b) <=> f \in Tamper!EntryFindings(e, r))
      <4>1. Tamper!AmbiguousCritical.signal = amb
        BY DEF amb
      <4> QED BY <3>5, <3>6, <3>7, <4>1 DEF SaidIn
    <3>10. Tamper!Signals(Tamper!EntryFindings(e, b)) \ {amb} = Tamper!Signals(Tamper!EntryFindings(e, r)) \ {amb}
      BY <3>1, <3>2
    <3> QED BY <3>8, <3>9, <3>10 DEF amb, b, r, SameSaid
  <2> QED BY <2>5, <2>6
<1> QED BY <1>3, <1>4

(***************************************************************************)
(* What silence means.                                                     *)
(***************************************************************************)

(* Two entries at one registry version, told apart by the comparison.      *)
OnePair(b, e) ==
  /\ Tamper!EntryOK(b) /\ Tamper!EntryOK(e)
  /\ Tamper!OnOneRegistryVersion(b, e) /\ ~Tamper!BenignUpgrade(b, e)

(* What the model reads of such a pair.                                    *)
LEMMA PairIs ==
  ASSUME NEW b, NEW e, OnePair(b, e)
  PROVE  /\ b.url # None /\ e.url # None /\ b.version = e.version
         /\ Tamper!ResolutionKind(b.url) = "registry" /\ Tamper!ResolutionKind(e.url) = "registry"
         /\ Tamper!OriginOf(b.url) = <<b.url.proto, b.url.host>> /\ Tamper!OriginOf(b.url) # None
         /\ Tamper!OriginOf(e.url) = <<e.url.proto, e.url.host>> /\ Tamper!OriginOf(e.url) # None
         /\ Tamper!Compare(b, e) = Tamper!IntegritySignals(b, e) \cup Tamper!ResolutionSignals(b, e)
<1>1. /\ b.url # None /\ e.url # None /\ b.version = e.version /\ b.url.readable /\ e.url.readable
      /\ Tamper!ResolutionKind(b.url) = "registry" /\ Tamper!ResolutionKind(e.url) = "registry"
  BY DEF OnePair, Tamper!OnOneRegistryVersion
<1>2. b.url.proto \in {"http", "https"} /\ e.url.proto \in {"http", "https"}
  BY <1>1 DEF Tamper!ResolutionKind
<1>3. b.url.host # None /\ e.url.host # None
  BY <1>1, <1>2 DEF OnePair, Tamper!EntryOK
<1>4. Tamper!Origin(b.url) # None /\ Tamper!Origin(e.url) # None
  BY <1>1 DEF OnePair, Tamper!EntryOK
<1>5. Tamper!OriginOf(b.url) = Tamper!Origin(b.url) /\ Tamper!OriginOf(e.url) = Tamper!Origin(e.url)
  BY <1>1 DEF Tamper!OriginOf
<1>6. Tamper!Origin(b.url) = <<b.url.proto, b.url.host>> /\ Tamper!Origin(e.url) = <<e.url.proto, e.url.host>>
  BY <1>3 DEF Tamper!Origin
<1>7. Tamper!ImpliedRegistryEntry(b) = b /\ Tamper!ImpliedRegistryEntry(e) = e
  BY <1>1 DEF Tamper!ImpliedRegistryEntry
<1>8. Tamper!Compare(b, e) = Tamper!IntegritySignals(b, e) \cup Tamper!ResolutionSignals(b, e)
  BY <1>7 DEF Tamper!Compare
<1> QED BY <1>1, <1>4, <1>5, <1>6, <1>8

(* Nothing said of a pair, the pair is accounted for.                      *)
LEMMA SilentPair ==
  ASSUME NEW b, NEW e, OnePair(b, e), Tamper!Compare(b, e) = {}
  PROVE  Tamper!Accounted(b, e)
<1>1. Tamper!IntegritySignals(b, e) = {} /\ Tamper!ResolutionSignals(b, e) = {}
  BY PairIs
<1>2. b.url.host = e.url.host
  <2> SUFFICES ASSUME b.url.host # e.url.host PROVE FALSE
    OBVIOUS
  <2>1. Tamper!ResolutionSignals(b, e) = {Tamper!Found(<<"host-changed", Tamper!OriginOf(e.url)>>, "critical", FALSE)}
    BY PairIs DEF Tamper!ResolutionSignals
  <2> QED BY <1>1, <2>1
<1>3. b.url.proto = e.url.proto
  <2> SUFFICES ASSUME b.url.proto # e.url.proto PROVE FALSE
    OBVIOUS
  <2>1. Tamper!ResolutionSignals(b, e) = {Tamper!Found(<<"scheme-downgrade", Tamper!OriginOf(e.url)>>, "critical", FALSE)}
    BY PairIs, <1>2 DEF Tamper!ResolutionSignals, Tamper!When, OnePair
  <2> QED BY <1>1, <2>1
<1>4. Tamper!OriginOf(b.url) # None /\ Tamper!OriginOf(b.url) = Tamper!OriginOf(e.url)
  BY <1>2, <1>3, PairIs
<1>5. Tamper!SameOriginPair(b, e)
  BY <1>4 DEF Tamper!SameOriginPair
<1>6. CASE b.hash = None
  <2> SUFFICES ASSUME b.url.path # e.url.path PROVE FALSE
    BY <1>5, <1>6 DEF Tamper!Accounted
  <2>1. Tamper!SameOriginRegistryPathMove(b, e)
    BY <1>4, PairIs DEF Tamper!SameOriginRegistryPathMove
  <2>2. Tamper!IntegritySignals(b, e) =
          {Tamper!Found(<<"tarball-repointed-unverified", Tamper!OriginOf(e.url)>>, "high", FALSE)}
    BY <1>6, <2>1, PairIs DEF Tamper!IntegritySignals
  <2> QED BY <1>1, <2>2
<1>7. CASE b.hash # None
  <2>1. e.hash # None
    <3> SUFFICES ASSUME e.hash = None PROVE FALSE
      OBVIOUS
    <3>1. Tamper!IntegritySignals(b, e) = {Tamper!Found(<<"integrity-removed", None>>, "critical", FALSE)}
      BY <1>7 DEF Tamper!IntegritySignals
    <3> QED BY <1>1, <3>1
  <2>2. CASE b.hash = e.hash
    BY <1>5, <1>7, <2>2 DEF Tamper!Accounted, Tamper!BytesVouchedFor
  <2>3. CASE b.hash # e.hash
    <3>1. b.url = e.url
      <4> SUFFICES ASSUME b.url # e.url PROVE FALSE
        OBVIOUS
      <4>1. Tamper!IntegritySignals(b, e) =
              {Tamper!Found(<<"tarball-repointed", Tamper!OriginOf(e.url)>>, "critical", FALSE)}
        BY <1>5, <1>7, <2>1, <2>3, PairIs DEF Tamper!IntegritySignals
      <4> QED BY <1>1, <4>1
    <3> DEFINE ladder == Tamper!IntegrityVerdict(b.hash, e.hash)
               v == IF ladder = "fine" /\ input.npmrcChanged THEN "forged" ELSE ladder
    <3>2. Tamper!IntegritySignals(b, e) =
            Tamper!When(v = "forged", Tamper!Found(<<"integrity-changed", None>>, "critical", FALSE))
            \cup Tamper!When(v = "downgraded", Tamper!Found(<<"integrity-downgraded", None>>, "critical", FALSE))
      BY <1>7, <2>1, <2>3, <3>1, PairIs DEF Tamper!IntegritySignals
    <3>3. v # "forged" /\ v # "downgraded"
      <4> HIDE DEF v
      <4> QED BY <1>1, <3>2 DEF Tamper!When
    <3>4. ladder = "fine"
      BY <3>3 DEF Tamper!IntegrityVerdict
    <3>5. b.hash.alg # 0 /\ e.hash.alg > b.hash.alg
      BY <3>4 DEF Tamper!IntegrityVerdict
    <3>6. b.hash.alg \in Nat /\ e.hash.alg \in Nat
      BY <1>7, <2>1 DEF OnePair, Tamper!EntryOK
    <3>7. b.hash.alg > 0
      BY <3>5, <3>6
    <3> QED BY <1>5, <2>1, <3>1, <3>5, <3>7 DEF Tamper!Accounted
  <2> QED BY <2>2, <2>3
<1> QED BY <1>6, <1>7

(* All that is said of such a pair is critical, but for a tarball that     *)
(* moved within its origin with no hash to go by.                          *)
UnverifiedMove(e) == <<"tarball-repointed-unverified", Tamper!OriginOf(e.url)>>

(* Apart from that move, a finding about such a pair is critical.           *)
LEMMA PairIsCritical ==
  ASSUME NEW b, NEW e, OnePair(b, e), NEW f \in Tamper!Compare(b, e), f.signal # UnverifiedMove(e)
  PROVE  f.severity = "critical"
<1> DEFINE F(x, s) == Tamper!Found(x, s, FALSE)
           R == {F(<<"host-changed", Tamper!OriginOf(e.url)>>, "critical"),
                 F(<<"scheme-downgrade", Tamper!OriginOf(e.url)>>, "critical"),
                 F(<<"local-source-changed", None>>, "critical")}
           I == {F(<<"integrity-removed", None>>, "critical"),
                 F(<<"tarball-repointed", Tamper!OriginOf(e.url)>>, "critical"),
                 F(<<"integrity-changed", None>>, "critical"),
                 F(<<"integrity-downgraded", None>>, "critical"),
                 F(UnverifiedMove(e), "high")}
<1>1. Tamper!ResolutionSignals(b, e) \subseteq R
  BY PairIs DEF Tamper!ResolutionSignals, Tamper!When
<1>2. Tamper!IntegritySignals(b, e) \subseteq I
  BY DEF Tamper!IntegritySignals, Tamper!When, UnverifiedMove
<1>3. f \in R \cup I
  BY <1>1, <1>2, PairIs
<1>4. F(UnverifiedMove(e), "high").signal = UnverifiedMove(e)
  BY DEF Tamper!Found
<1>5. f \in (R \cup I) \ {F(UnverifiedMove(e), "high")}
  BY <1>3, <1>4
<1> QED BY <1>5 DEF Tamper!Found

(* Silence about an entry that is not unchanged has a candidate to account for it. *)
LEMMA SilenceOfAll ==
  ASSUME NEW e, NEW b, b # <<>>, DOMAIN b # {}, DOMAIN b \subseteq Nat,
         \A i \in DOMAIN b : OnePair(b[i], e),
         Tamper!EntryFindings(e, b) = {}, ~Tamper!Unchanged(e, b)
  PROVE  \E i \in DOMAIN b : Tamper!Accounted(b[i], e)
<1> SUFFICES ASSUME \A i \in DOMAIN b : ~Tamper!Accounted(b[i], e) PROVE FALSE
  OBVIOUS
<1> DEFINE c == Tamper!Candidates(e, b)
<1>1. c # {} /\ c \subseteq DOMAIN b /\ c \subseteq Nat
  BY CandidatesSome
<1>2. Tamper!CertainFindings(c, e, b) = {}
  BY DEF Tamper!EntryFindings
<1> HIDE DEF c
<1>3. Tamper!Agreed(c, e, b) = {} /\ \A f \in Tamper!Dropped(c, e, b) : f.severity # "critical"
  BY <1>2 DEF Tamper!CertainFindings, Tamper!When
<1>4. ASSUME NEW s PROVE Tamper!Raising(s, c, e, b) # c
  <2> SUFFICES ASSUME Tamper!Raising(s, c, e, b) = c PROVE FALSE
    OBVIOUS
  <2>1. Tamper!First(c) \in c
    BY <1>1, FirstIs
  <2>2. PICK f \in Tamper!Compare(b[Tamper!First(c)], e) : f.signal = s
    BY <2>1 DEF Tamper!Raising, Tamper!Signals
  <2>3. f \in Tamper!Agreed(c, e, b)
    BY <2>2 DEF Tamper!Agreed
  <2> QED BY <1>3, <2>3
<1>5. ASSUME NEW i \in c, NEW f \in Tamper!Compare(b[i], e) PROVE f.signal = UnverifiedMove(e)
  <2> SUFFICES ASSUME f.signal # UnverifiedMove(e) PROVE FALSE
    OBVIOUS
  <2> DEFINE r == Tamper!Raising(f.signal, c, e, b)
  <2>1. i \in r /\ r \subseteq c /\ r # c
    BY <1>4 DEF Tamper!Raising, Tamper!Signals
  <2>2. Tamper!First(r) \in r
    BY <1>1, <2>1, FirstIs
  <2>3. PICK g \in Tamper!Compare(b[Tamper!First(r)], e) : g.signal = f.signal
    BY <2>2 DEF Tamper!Raising, Tamper!Signals
  <2>4. g.severity = "critical"
    <3>1. OnePair(b[Tamper!First(r)], e)
      BY <1>1, <2>1, <2>2
    <3> HIDE DEF r
    <3> QED BY <2>3, <3>1, PairIsCritical
  <2>5. g \in Tamper!Dropped(c, e, b)
    BY <2>1, <2>2, <2>3, DroppedIs
  <2> QED BY <1>3, <2>4, <2>5
<1>6. ASSUME NEW i \in c PROVE UnverifiedMove(e) \in Tamper!Signals(Tamper!Compare(b[i], e))
  <2>1. PICK f : f \in Tamper!Compare(b[i], e)
    <3>1. Tamper!Compare(b[i], e) # {}
      BY <1>1, SilentPair
    <3> QED BY <3>1
  <2> QED BY <1>5, <2>1 DEF Tamper!Signals
<1>7. Tamper!Raising(UnverifiedMove(e), c, e, b) = c
  BY <1>6 DEF Tamper!Raising
<1> QED BY <1>4, <1>7

(* So silence about any entry does.                                        *)
LEMMA SilenceAccounted == TamperInv => Tamper!SilenceIsAccountedFor
<1> SUFFICES ASSUME TamperInv, NEW k \in DOMAIN input.after, input.before # <<>>,
                    Tamper!EntryFindings(input.after[k], input.before) = {},
                    \A d \in Tamper!Range(input.before) :
                      Tamper!OnOneRegistryVersion(d, input.after[k]) /\ ~Tamper!BenignUpgrade(d, input.after[k])
             PROVE  \E d \in Tamper!Range(input.before) : Tamper!Accounted(d, input.after[k])
  BY DEF Tamper!SilenceIsAccountedFor, Tamper!Range
<1> DEFINE e == input.after[k]
           b == input.before
<1>1. Tamper!InputOK(input)
  BY TamperAssumption DEF TamperInv, Tamper!TamperConstants
<1>2. DOMAIN b # {} /\ DOMAIN b \subseteq Nat
  <2>1. b \in Seq(Tamper!Range(b)) /\ b # <<>>
    BY <1>1 DEF Tamper!InputOK
  <2> HIDE DEF b
  <2>2. DOMAIN b = 1..Len(b) /\ Len(b) \in Nat /\ Len(b) # 0
    BY <2>1
  <2>3. 1 \in 1..Len(b)
    BY <2>2
  <2> QED BY <2>2, <2>3
<1>3. \A i \in DOMAIN b : b[i] \in Tamper!Range(b)
  BY DEF Tamper!Range
<1>4. Tamper!EntryOK(e) /\ \A i \in DOMAIN b : Tamper!EntryOK(b[i])
  BY <1>1, <1>3 DEF Tamper!InputOK, Tamper!Range
<1>5. \A i \in DOMAIN b : OnePair(b[i], e)
  BY <1>3, <1>4 DEF OnePair
<1> HIDE DEF e, b
<1>6. CASE Tamper!Unchanged(e, b)
  <2>1. PICK d \in Tamper!Range(b) : Tamper!ResolutionIdentity(d) = Tamper!ResolutionIdentity(e)
    BY <1>6 DEF Tamper!Unchanged
  <2>2. d.url = e.url /\ d.hash = e.hash
    BY <2>1 DEF Tamper!ResolutionIdentity
  <2>3. Tamper!Accounted(d, e)
    BY <2>2 DEF Tamper!Accounted, Tamper!SameOriginPair, Tamper!BytesVouchedFor
  <2> QED BY <2>3 DEF e, b
<1>7. CASE ~Tamper!Unchanged(e, b)
  <2>1. b # <<>> /\ Tamper!EntryFindings(e, b) = {}
    BY DEF e, b
  <2>2. \E i \in DOMAIN b : Tamper!Accounted(b[i], e)
    BY <1>2, <1>5, <1>7, <2>1, SilenceOfAll
  <2> QED BY <1>3, <2>2 DEF e, b
<1> QED BY <1>6, <1>7

(***************************************************************************)
(* The keys of a pnpm lockfile.                                            *)
(***************************************************************************)
Lines == Seq(Tokens)

(* The separators are different tokens, ...                                *)
LEMMA Apart ==
  /\ "/" \in Tokens /\ "@" \in Tokens /\ "_" \in Tokens /\ "(" \in Tokens /\ ")" \in Tokens /\ "+" \in Tokens
  /\ "/" # "@" /\ "/" # "_" /\ "/" # "(" /\ "@" # "(" /\ "@" # "_" /\ "_" # "(" /\ "+" # "/"
BY KeysAssumption DEF KeysConstants, Separators

(* ... no other token is one of them, and no version is a scheme.          *)
LEMMA KeyTokens ==
  /\ \A a \in PlainNames \union Scopes \union KeyHosts \union KeyDigits \union KeyProtocols :
       a \in Tokens /\ a # "/" /\ a # "@" /\ a # "_" /\ a # "("
  /\ \A d \in Versions : d \in KeyDigits /\ d \notin KeyProtocols
BY KeysAssumption DEF KeysConstants, Separators

(* Short sequences, place by place.                                        *)
LEMMA One ==
  ASSUME NEW S, NEW a \in S
  PROVE  <<a>> \in Seq(S) /\ Len(<<a>>) = 1 /\ <<a>>[1] = a
OBVIOUS

(* The same of a scoped name.                                              *)
LEMMA Four ==
  ASSUME NEW S, NEW a \in S, NEW b \in S, NEW c \in S, NEW d \in S
  PROVE  /\ <<a, b, c, d>> \in Seq(S) /\ Len(<<a, b, c, d>>) = 4
         /\ <<a, b, c, d>>[1] = a /\ <<a, b, c, d>>[2] = b /\ <<a, b, c, d>>[3] = c /\ <<a, b, c, d>>[4] = d
OBVIOUS

(* What a name looks like.                                                 *)
LEMMA NameIs ==
  ASSUME NEW n \in KeyNames
  PROVE  /\ n \in Lines /\ Len(n) \in {1, 4} /\ n[1] # "/"
         /\ \A i \in 1..Len(n) : n[i] # "(" /\ (i > 1 => n[i] # "@")
         /\ Len(n) = 1 => n[1] # "@"
         /\ Len(n) = 4 => n[1] = "@" /\ n[3] = "/" /\ n[2] # "/" /\ n[4] # "/"
<1>1. ASSUME NEW a \in PlainNames, n = <<a>>
      PROVE  n \in Lines /\ Len(n) = 1 /\ n[1] # "/" /\ n[1] # "@" /\ \A i \in 1..Len(n) : i = 1 /\ n[i] # "("
  <2>1. a \in Tokens /\ a # "/" /\ a # "@" /\ a # "("
    BY KeyTokens
  <2>2. n \in Seq(Tokens) /\ Len(n) = 1 /\ n[1] = a
    BY <1>1, <2>1, One
  <2>3. \A i \in 1..Len(n) : i = 1
    BY <2>2
  <2> QED BY <2>1, <2>2, <2>3 DEF Lines
<1>2. ASSUME NEW s \in Scopes, NEW a \in PlainNames, n = <<"@", s, "/", a>>
      PROVE  /\ n \in Lines /\ Len(n) = 4 /\ n[1] # "/"
             /\ \A i \in 1..Len(n) : n[i] # "(" /\ (i > 1 => n[i] # "@")
             /\ n[1] = "@" /\ n[3] = "/" /\ n[2] # "/" /\ n[4] # "/"
  <2>1. s \in Tokens /\ a \in Tokens /\ s # "/" /\ s # "@" /\ s # "(" /\ a # "/" /\ a # "@" /\ a # "("
    BY KeyTokens
  <2>2. n \in Seq(Tokens) /\ Len(n) = 4 /\ n[1] = "@" /\ n[2] = s /\ n[3] = "/" /\ n[4] = a
    BY <1>2, <2>1, Apart, Four
  <2>3. \A i \in 1..Len(n) : i = 1 \/ i = 2 \/ i = 3 \/ i = 4
    BY <2>2
  <2>4. \A i \in 1..Len(n) : n[i] # "(" /\ (i > 1 => n[i] # "@")
    <3>1. n[1] # "(" /\ n[2] # "(" /\ n[3] # "(" /\ n[4] # "("
      BY <2>1, <2>2, Apart
    <3>2. n[2] # "@" /\ n[3] # "@" /\ n[4] # "@"
      BY <2>1, <2>2, Apart
    <3> QED BY <2>3, <3>1, <3>2
  <2>5. n[1] # "/"
    BY <2>2, Apart
  <2> QED BY <2>1, <2>2, <2>4, <2>5 DEF Lines
<1>3. (\E a \in PlainNames : n = <<a>>) \/ \E s \in Scopes, a \in PlainNames : n = <<"@", s, "/", a>>
  BY DEF KeyNames
<1> QED BY <1>1, <1>2, <1>3

(* Every name a package has passes the name grammar.                       *)
LEMMA NamesAreGrammatical ==
  ASSUME NEW n \in KeyNames
  PROVE  PnpmKey!NameGrammar(n)
BY NameIs DEF PnpmKey!NameGrammar

(* What a version looks like.                                              *)
LEMMA VersionIs ==
  ASSUME NEW v \in KeyVersions
  PROVE  /\ v \in Lines /\ Len(v) \in Nat \ {0}
         /\ \A i \in 1..Len(v) : v[i] # "("
         /\ v \in KeyUrls => Len(v) > 1 /\ v[1] \in KeyProtocols
         /\ v \notin KeyUrls => /\ Len(v) = 1 /\ v[1] \in KeyDigits /\ v[1] \notin KeyProtocols
                                /\ v[1] # "/" /\ v[1] # "@" /\ v[1] # "_"
<1>1. CASE v \in KeyUrls
  <2>1. v \in Seq(Tokens) /\ Len(v) > 1 /\ v[1] \in KeyProtocols /\ "(" \notin TokensOf(v)
    BY <1>1, KeysAssumption DEF KeysConstants
  <2>2. DOMAIN v = 1..Len(v) /\ Len(v) \in Nat
    BY <2>1
  <2>3. \A i \in 1..Len(v) : v[i] # "("
    BY <2>1, <2>2 DEF TokensOf
  <2>4. v \in Lines /\ Len(v) \in Nat \ {0}
    BY <2>1, <2>2 DEF Lines
  <2> QED BY <1>1, <2>1, <2>3, <2>4
<1>2. CASE v \notin KeyUrls
  <2>1. PICK d \in Versions : v = <<d>>
    BY <1>2 DEF KeyVersions
  <2>2. d \in KeyDigits /\ d \notin KeyProtocols /\ d \in Tokens /\ d \notin {"/", "@", "_", "("}
    BY KeyTokens
  <2>3. v \in Seq(Tokens) /\ Len(v) = 1 /\ v[1] = d
    BY <2>1, <2>2, One
  <2>4. \A i \in 1..Len(v) : i = 1
    BY <2>3
  <2>5. v \in Lines /\ Len(v) \in Nat \ {0} /\ v[1] = d
    BY <2>3 DEF Lines
  <2>6. \A i \in 1..Len(v) : v[i] # "("
    BY <2>2, <2>4, <2>5
  <2> QED BY <1>2, <2>2, <2>3, <2>5, <2>6
<1> QED BY <1>1, <1>2

(* name@version, which is what is left of a key without prefix and peers.  *)
At(n, v) == n \o <<"@">> \o v

(* name@version, place by place.                                           *)
LEMMA AtIs ==
  ASSUME NEW n \in KeyNames, NEW v \in KeyVersions
  PROVE  /\ At(n, v) \in Lines /\ Len(At(n, v)) = Len(n) + 1 + Len(v)
         /\ \A i \in 1..Len(n) : At(n, v)[i] = n[i]
         /\ At(n, v)[Len(n) + 1] = "@"
         /\ \A i \in 1..Len(v) : At(n, v)[Len(n) + 1 + i] = v[i]
<1>1. n \in Seq(Tokens) /\ v \in Seq(Tokens) /\ <<"@">> \in Seq(Tokens) /\ Len(<<"@">>) = 1 /\ <<"@">>[1] = "@"
  BY NameIs, VersionIs, Apart, One DEF Lines
<1>2. Len(n) \in Nat /\ Len(v) \in Nat
  BY <1>1
<1> DEFINE m == n \o <<"@">>
<1>3. /\ m \in Seq(Tokens) /\ Len(m) = Len(n) + 1
      /\ \A i \in 1..Len(n) + 1 : m[i] = IF i <= Len(n) THEN n[i] ELSE <<"@">>[i - Len(n)]
  BY <1>1, ConcatProperties
<1>4. (\A i \in 1..Len(n) : m[i] = n[i]) /\ m[Len(n) + 1] = "@"
  BY <1>1, <1>2, <1>3
<1> HIDE DEF m
<1>5. /\ m \o v \in Seq(Tokens) /\ Len(m \o v) = Len(m) + Len(v)
      /\ \A i \in 1..Len(m) + Len(v) : (m \o v)[i] = IF i <= Len(m) THEN m[i] ELSE v[i - Len(m)]
  <2>1. m \in Seq(Tokens)
    BY <1>3
  <2> QED BY <1>1, <2>1, ConcatProperties
<1>6. \A i \in 1..Len(n) + 1 : (m \o v)[i] = m[i]
  BY <1>2, <1>3, <1>5
<1>7. \A i \in 1..Len(v) : (m \o v)[Len(n) + 1 + i] = v[i]
  BY <1>2, <1>3, <1>5
<1>8. At(n, v) = m \o v
  BY DEF At, m
<1> QED BY <1>2, <1>3, <1>4, <1>5, <1>6, <1>7, <1>8 DEF Lines

(* A token in a part of a text is one in the text, at that place.          *)
LEMMA PartOf ==
  ASSUME NEW s \in Lines, NEW m \in Nat \ {0}, NEW k \in Nat, k <= Len(s)
  PROVE  /\ SubSeq(s, m, k) \in Lines
         /\ Len(SubSeq(s, m, k)) = IF m <= k THEN k - m + 1 ELSE 0
         /\ \A i \in 1..k - m + 1 : SubSeq(s, m, k)[i] = s[m + i - 1]
<1>1. Len(s) \in Nat /\ \A i \in 1..Len(s) : s[i] \in Tokens
  BY DEF Lines
<1>2. \A i \in m..k : s[i] \in Tokens
  BY <1>1
<1>3. m \in Int /\ k \in Int
  OBVIOUS
<1> QED BY <1>2, <1>3, SubSeqProperties DEF Lines

(* What a part of a sequence contains.                                     *)
LEMMA InPart ==
  ASSUME NEW s \in Lines, NEW m \in Nat \ {0}, NEW k \in Nat, k <= Len(s), NEW c
  PROVE  PnpmKey!Contains(SubSeq(s, m, k), c) <=> \E j \in m..k : s[j] = c
<1> DEFINE p == SubSeq(s, m, k)
<1>1. /\ Len(p) = IF m <= k THEN k - m + 1 ELSE 0
      /\ \A i \in 1..k - m + 1 : p[i] = s[m + i - 1]
  BY PartOf
<1> HIDE DEF p
<1>2. ASSUME NEW i \in 1..Len(p), p[i] = c PROVE \E j \in m..k : s[j] = c
  <2>1. m <= k /\ i \in 1..k - m + 1
    BY <1>1
  <2>2. s[m + i - 1] = c /\ m + i - 1 \in m..k
    BY <1>1, <1>2, <2>1
  <2> QED BY <2>2
<1>3. ASSUME NEW j \in m..k, s[j] = c PROVE \E i \in 1..Len(p) : p[i] = c
  <2>1. j - m + 1 \in 1..k - m + 1 /\ m <= k /\ m + (j - m + 1) - 1 = j
    OBVIOUS
  <2>2. p[j - m + 1] = s[m + (j - m + 1) - 1]
    BY <1>1, <2>1
  <2>3. p[j - m + 1] = c /\ j - m + 1 \in 1..Len(p)
    BY <1>1, <1>3, <2>1, <2>2
  <2> QED BY <2>3
<1>4. PnpmKey!Contains(p, c) <=> \E i \in 1..Len(p) : p[i] = c
  BY DEF PnpmKey!Contains
<1>5. PnpmKey!Contains(p, c) <=> \E j \in m..k : s[j] = c
  BY <1>2, <1>3, <1>4
<1> QED BY <1>5 DEF p

(* Two sequences joined, place by place.                                   *)
LEMMA Joined ==
  ASSUME NEW s \in Lines, NEW t \in Lines
  PROVE  /\ s \o t \in Lines /\ Len(s) \in Nat /\ Len(t) \in Nat /\ Len(s \o t) = Len(s) + Len(t)
         /\ \A i \in 1..Len(s) : (s \o t)[i] = s[i]
         /\ \A i \in 1..Len(t) : (s \o t)[Len(s) + i] = t[i]
<1> DEFINE e == s \o t
<1>1. /\ e \in Seq(Tokens) /\ Len(e) = Len(s) + Len(t)
      /\ \A i \in 1..Len(s) + Len(t) : e[i] = IF i <= Len(s) THEN s[i] ELSE t[i - Len(s)]
  BY ConcatProperties DEF Lines
<1>2. Len(s) \in Nat /\ Len(t) \in Nat
  BY DEF Lines
<1> HIDE DEF e
<1>3. \A i \in 1..Len(s) : e[i] = s[i]
  BY <1>1, <1>2
<1>4. \A i \in 1..Len(t) : e[Len(s) + i] = t[i]
  <2> SUFFICES ASSUME NEW i \in 1..Len(t) PROVE e[Len(s) + i] = t[i]
    OBVIOUS
  <2>1. Len(s) + i \in 1..Len(s) + Len(t) /\ ~(Len(s) + i <= Len(s)) /\ Len(s) + i - Len(s) = i
    BY <1>2
  <2> QED BY <1>1, <2>1
<1> QED BY <1>1, <1>2, <1>3, <1>4 DEF e, Lines

(* What is cut off at a token starts with the first of them.               *)
LEMMA CutAt ==
  ASSUME NEW s \in Lines, NEW t \in Lines, NEW c, \A i \in 1..Len(s) : s[i] # c, t = <<>> \/ t[1] = c
  PROVE  PnpmKey!Before(s \o t, c) = s
<1> DEFINE e == s \o t
<1>1. /\ e \in Lines /\ Len(s) \in Nat /\ Len(t) \in Nat /\ Len(e) = Len(s) + Len(t)
      /\ \A i \in 1..Len(s) : e[i] = s[i]
      /\ \A i \in 1..Len(t) : e[Len(s) + i] = t[i]
  BY Joined
<1>2. DOMAIN e = 1..Len(e)
  BY <1>1 DEF Lines
<1>3. CASE t = <<>>
  <2>1. e = s
    BY <1>3, ConcatEmptySeq DEF Lines
  <2>2. ~PnpmKey!Contains(s, c)
    BY DEF PnpmKey!Contains
  <2> QED BY <2>1, <2>2 DEF PnpmKey!Before
<1>4. CASE t # <<>>
  <2>1. Len(t) >= 1 /\ t[1] = c
    <3>1. t # <<>> => Len(t) \in Nat \ {0}
      BY EmptySeq DEF Lines
    <3> QED BY <1>4, <3>1
  <2> HIDE DEF e
  <2>2. e[Len(s) + 1] = c /\ Len(s) + 1 \in 1..Len(e)
    BY <1>1, <2>1
  <2>3. PnpmKey!Contains(e, c)
    BY <2>2 DEF PnpmKey!Contains
  <2> DEFINE First(i) == e[i] = c /\ ~PnpmKey!Contains(PnpmKey!Upto(e, i - 1), c)
  <2>4. ASSUME NEW i \in DOMAIN e PROVE First(i) <=> i = Len(s) + 1
    <3>1. i \in 1..Len(e) /\ i - 1 \in Nat /\ i - 1 <= Len(e) /\ 1 \in Nat \ {0}
      BY <1>1, <1>2
    <3>2. PnpmKey!Contains(PnpmKey!Upto(e, i - 1), c) <=> \E j \in 1..i - 1 : e[j] = c
      BY <1>1, <3>1, InPart DEF PnpmKey!Upto
    <3>3. CASE i <= Len(s)
      <4>1. e[i] # c
        BY <1>1, <3>1, <3>3
      <4> QED BY <1>1, <3>3, <4>1
    <3>4. CASE i = Len(s) + 1
      <4>1. \A j \in 1..i - 1 : e[j] # c
        BY <1>1, <3>4
      <4> QED BY <2>2, <3>2, <3>4, <4>1
    <3>5. CASE i > Len(s) + 1
      <4>1. Len(s) + 1 \in 1..i - 1
        BY <1>1, <3>1, <3>5
      <4> QED BY <2>2, <3>2, <3>5, <4>1
    <3> QED BY <1>1, <3>1, <3>3, <3>4, <3>5
  <2>5. (CHOOSE i \in DOMAIN e : First(i)) = Len(s) + 1
    <3>1. Len(s) + 1 \in DOMAIN e
      BY <1>2, <2>2
    <3> HIDE DEF First
    <3> QED BY <2>4, <3>1
  <2>6. PnpmKey!Before(e, c) = PnpmKey!Upto(e, (CHOOSE i \in DOMAIN e : First(i)) - 1)
    BY <2>3 DEF PnpmKey!Before
  <2> HIDE DEF First
  <2>7. PnpmKey!Before(e, c) = SubSeq(e, 1, Len(s))
    <3>1. Len(s) + 1 - 1 = Len(s)
      BY <1>1
    <3> DEFINE last == CHOOSE i \in DOMAIN e : First(i)
    <3>2. last = Len(s) + 1
      BY <2>5
    <3>3. PnpmKey!Before(e, c) = PnpmKey!Upto(e, last - 1)
      BY <2>6
    <3> HIDE DEF last
    <3>4. last - 1 = Len(s)
      BY <3>1, <3>2
    <3> QED BY <3>3, <3>4 DEF PnpmKey!Upto
  <2>8. SubSeq(e, 1, Len(s)) = s
    <3>1. /\ SubSeq(e, 1, Len(s)) \in Lines
          /\ Len(SubSeq(e, 1, Len(s))) = IF 1 <= Len(s) THEN Len(s) - 1 + 1 ELSE 0
          /\ \A i \in 1..Len(s) - 1 + 1 : SubSeq(e, 1, Len(s))[i] = e[1 + i - 1]
      BY <1>1, PartOf
    <3>2. Len(SubSeq(e, 1, Len(s))) = Len(s) /\ \A i \in 1..Len(s) : SubSeq(e, 1, Len(s))[i] = s[i]
      BY <1>1, <3>1
    <3> QED BY <3>1, <3>2, SeqEqual DEF Lines
  <2> QED BY <2>7, <2>8 DEF e
<1> QED BY <1>3, <1>4

(* The two parts of a text.                                                *)
LEMMA FirstPart ==
  ASSUME NEW s \in Lines, NEW n \in Lines, Len(n) <= Len(s), \A i \in 1..Len(n) : s[i] = n[i]
  PROVE  SubSeq(s, 1, Len(n)) = n
<1>1. Len(n) \in Nat /\ 1 \in Nat \ {0}
  BY DEF Lines
<1> DEFINE p == SubSeq(s, 1, Len(n))
<1>2. /\ p \in Lines /\ Len(p) = IF 1 <= Len(n) THEN Len(n) - 1 + 1 ELSE 0
      /\ \A i \in 1..Len(n) - 1 + 1 : p[i] = s[1 + i - 1]
  BY <1>1, PartOf
<1> HIDE DEF p
<1>3. Len(p) = Len(n) /\ \A i \in 1..Len(p) : p[i] = n[i]
  BY <1>1, <1>2
<1>4. p = n
  BY <1>2, <1>3, SeqEqual DEF Lines
<1> QED BY <1>4 DEF p

(* A text found from a place on.                                           *)
LEMMA MiddlePart ==
  ASSUME NEW s \in Lines, NEW v \in Lines, NEW m \in Nat \ {0}, m - 1 + Len(v) <= Len(s),
         \A i \in 1..Len(v) : s[m - 1 + i] = v[i]
  PROVE  SubSeq(s, m, m - 1 + Len(v)) = v
<1>1. Len(v) \in Nat /\ m - 1 + Len(v) \in Nat
  BY DEF Lines
<1> DEFINE k == m - 1 + Len(v)
           p == SubSeq(s, m, k)
<1>2. /\ p \in Lines /\ Len(p) = IF m <= k THEN k - m + 1 ELSE 0
      /\ \A i \in 1..k - m + 1 : p[i] = s[m + i - 1]
  BY <1>1, PartOf
<1>3. k - m + 1 = Len(v) /\ (m <= k <=> Len(v) > 0)
  BY <1>1
<1> HIDE DEF p, k
<1>4. Len(p) = Len(v) /\ \A i \in 1..Len(p) : p[i] = v[i]
  <2>1. Len(p) = Len(v)
    BY <1>1, <1>2, <1>3
  <2> SUFFICES ASSUME NEW i \in 1..Len(v) PROVE p[i] = v[i]
    BY <2>1
  <2>2. p[i] = s[m + i - 1] /\ m + i - 1 = m - 1 + i
    BY <1>1, <1>2, <1>3
  <2> QED BY <2>2
<1>5. p = v
  BY <1>2, <1>4, SeqEqual DEF Lines
<1> QED BY <1>5 DEF p, k

(* The two halves of name@version are found again.                         *)
LEMMA SplitIs ==
  ASSUME NEW n \in KeyNames, NEW v \in KeyVersions
  PROVE  PnpmKey!SplitAt(At(n, v)) = [name |-> n, version |-> v]
<1> DEFINE r == At(n, v)
           p == Len(n) + 1
<1>1. /\ n \in Lines /\ v \in Lines /\ Len(n) \in Nat \ {0} /\ Len(v) \in Nat \ {0} /\ p \in Nat /\ p >= 2
      /\ \A i \in 1..Len(n) : i > 1 => n[i] # "@"
  <2>1. Len(n) \in {1, 4}
    BY NameIs
  <2>2. Len(n) \in Nat \ {0} /\ p \in Nat /\ p >= 2
    <3>1. CASE Len(n) = 1
      BY <3>1
    <3>2. CASE Len(n) = 4
      BY <3>2
    <3> QED BY <2>1, <3>1, <3>2
  <2>3. n \in Lines /\ \A i \in 1..Len(n) : i > 1 => n[i] # "@"
    BY NameIs
  <2>4. v \in Lines /\ Len(v) \in Nat \ {0}
    BY VersionIs
  <2> QED BY <2>2, <2>3, <2>4
<1>2. /\ r \in Lines /\ Len(r) = Len(n) + 1 + Len(v)
      /\ \A i \in 1..Len(n) : r[i] = n[i]
      /\ r[p] = "@"
      /\ \A i \in 1..Len(v) : r[p + i] = v[i]
  BY AtIs
<1> HIDE DEF r
<1>3. ASSUME NEW i \in 2..Len(r) - 1, r[i] = "@" PROVE i >= p
  <2> SUFFICES ASSUME i < p PROVE FALSE
    BY <1>1
  <2>1. i \in 1..Len(n) /\ i > 1
    BY <1>1
  <2> QED BY <1>1, <1>2, <1>3, <2>1
<1>4. ASSUME NEW i \in 2..Len(r) - 1
      PROVE  i \in PnpmKey!UrlAt(r) <=> i = p /\ v[1] \in KeyProtocols
  <2>1. i - 1 \in Nat /\ i - 1 <= Len(r) /\ 2 \in Nat \ {0}
    BY <1>1, <1>2
  <2>2. PnpmKey!Contains(SubSeq(r, 2, i - 1), "@") <=> \E j \in 2..i - 1 : r[j] = "@"
    <3> DEFINE k == i - 1
    <3>1. k \in Nat /\ k <= Len(r) /\ 2 \in Nat \ {0}
      BY <2>1
    <3> HIDE DEF k
    <3>2. PnpmKey!Contains(SubSeq(r, 2, k), "@") <=> \E j \in 2..k : r[j] = "@"
      BY <1>2, <3>1, InPart
    <3> QED BY <3>2 DEF k
  <2>3. i \in PnpmKey!UrlAt(r) <=> /\ r[i] = "@" /\ r[i + 1] \in KeyProtocols
                                   /\ ~\E j \in 2..i - 1 : r[j] = "@"
    BY <2>2 DEF PnpmKey!UrlAt
  <2>4. CASE i < p
    BY <1>3, <1>1, <2>3, <2>4
  <2>5. CASE i = p
    <3>1. \A j \in 2..i - 1 : r[j] # "@"
      BY <1>1, <1>2, <2>5
    <3>2. r[i + 1] = v[1]
      BY <1>1, <1>2, <2>5
    <3> QED BY <1>2, <2>3, <2>5, <3>1, <3>2
  <2>6. CASE i > p
    <3>1. p \in 2..i - 1
      BY <1>1, <2>6
    <3> QED BY <1>1, <1>2, <2>3, <2>6, <3>1
  <2> QED BY <1>1, <2>4, <2>5, <2>6
<1>5. p \in 2..Len(r) - 1
  BY <1>1, <1>2
<1>6. PnpmKey!UrlAt(r) \subseteq 2..Len(r) - 1 /\ PnpmKey!LastAt(r) \subseteq 2..Len(r) - 1
  BY DEF PnpmKey!UrlAt, PnpmKey!LastAt
<1> DEFINE ats == IF PnpmKey!UrlAt(r) # {} THEN PnpmKey!UrlAt(r) ELSE PnpmKey!LastAt(r)
<1>7. ats = {p}
  <2>1. CASE v \in KeyUrls
    <3>1. v[1] \in KeyProtocols
      BY <2>1, VersionIs
    <3>2. PnpmKey!UrlAt(r) = {p}
      BY <1>4, <1>5, <1>6, <3>1
    <3> QED BY <3>2
  <2>2. CASE v \notin KeyUrls
    <3>1. Len(v) = 1 /\ v[1] \notin KeyProtocols /\ v[1] # "@"
      BY <2>2, VersionIs
    <3>2. PnpmKey!UrlAt(r) = {}
      BY <1>4, <1>6, <3>1
    <3>3. Len(r) = p + 1
      BY <1>1, <1>2, <3>1
    <3>4. ASSUME NEW i \in PnpmKey!LastAt(r) PROVE i = p
      <4>1. i \in 2..Len(r) - 1 /\ r[i] = "@"
        BY DEF PnpmKey!LastAt
      <4> QED BY <1>1, <1>3, <3>3, <4>1
    <3>5. p \in PnpmKey!LastAt(r)
      <4>1. PnpmKey!Contains(SubSeq(r, p + 1, Len(r)), "@") <=> \E j \in p + 1 .. Len(r) : r[j] = "@"
        <5>1. p + 1 \in Nat \ {0} /\ Len(r) \in Nat /\ Len(r) <= Len(r)
          BY <1>1, <1>2
        <5> QED BY <1>2, <5>1, InPart
      <4>2. \A j \in p + 1 .. Len(r) : j = p + 1
        BY <1>1, <3>3
      <4>3. r[p + 1] = v[1]
        BY <1>2, <3>1
      <4>4. ~PnpmKey!Contains(SubSeq(r, p + 1, Len(r)), "@")
        BY <3>1, <4>1, <4>2, <4>3
      <4> QED BY <1>2, <1>5, <4>4 DEF PnpmKey!LastAt, PnpmKey!From
    <3>6. PnpmKey!LastAt(r) = {p}
      BY <3>4, <3>5
    <3> QED BY <3>2, <3>6
  <2> QED BY <2>1, <2>2
<1>8. PnpmKey!SplitAt(r) = [name |-> PnpmKey!Upto(r, p - 1), version |-> PnpmKey!From(r, p + 1)]
  <2>1. (CHOOSE j \in ats : TRUE) = p /\ ats # {}
    BY <1>7
  <2> HIDE DEF p
  <2> QED BY <2>1 DEF PnpmKey!SplitAt
<1>9. PnpmKey!Upto(r, p - 1) = n
  <2>1. p - 1 = Len(n) /\ Len(n) <= Len(r)
    BY <1>1, <1>2
  <2>2. SubSeq(r, 1, Len(n)) = n
    BY <1>1, <1>2, <2>1, FirstPart
  <2> QED BY <2>1, <2>2 DEF PnpmKey!Upto
<1>10. PnpmKey!From(r, p + 1) = v
  <2>1. /\ p + 1 \in Nat \ {0} /\ (p + 1) - 1 + Len(v) = Len(r) /\ (p + 1) - 1 + Len(v) <= Len(r)
        /\ \A i \in 1..Len(v) : r[(p + 1) - 1 + i] = v[i]
    BY <1>1, <1>2
  <2>2. SubSeq(r, p + 1, (p + 1) - 1 + Len(v)) = v
    BY <1>1, <1>2, <2>1, MiddlePart
  <2> QED BY <2>1, <2>2 DEF PnpmKey!From
<1> QED BY <1>8, <1>9, <1>10 DEF r

(* A key of the later versions: a prefix, name@version, and the peers.     *)
LEMMA AtKey ==
  ASSUME NEW n \in KeyNames, NEW v \in KeyVersions, NEW s \in Lines, s = <<>> \/ s[1] = "(",
         NEW prefix \in {<<>>, <<"/">>}, NEW key, key = prefix \o (At(n, v) \o s)
  PROVE  PnpmKey!Before(PnpmKey!Unslashed(key), "(") = At(n, v)
<1> DEFINE r == At(n, v) \o s
<1>1. /\ At(n, v) \in Lines /\ r \in Lines /\ Len(r) \in Nat \ {0} /\ r[1] = n[1]
      /\ Len(At(n, v)) \in Nat \ {0}
  <2>1. Len(n) \in Nat \ {0}
    <3>1. Len(n) \in {1, 4}
      BY NameIs
    <3>2. CASE Len(n) = 1
      BY <3>2
    <3>3. CASE Len(n) = 4
      BY <3>3
    <3> QED BY <3>1, <3>2, <3>3
  <2>2. Len(v) \in Nat \ {0}
    BY VersionIs
  <2>3. At(n, v) \in Lines /\ Len(At(n, v)) = Len(n) + 1 + Len(v) /\ At(n, v)[1] = n[1]
    BY <2>1, AtIs
  <2>4. Len(At(n, v)) \in Nat \ {0} /\ 1 \in 1..Len(At(n, v))
    BY <2>1, <2>2, <2>3
  <2> HIDE DEF r
  <2>5. r \in Lines /\ Len(r) = Len(At(n, v)) + Len(s) /\ Len(s) \in Nat /\ r[1] = At(n, v)[1]
    BY <2>3, <2>4, Joined DEF r
  <2> QED BY <2>3, <2>4, <2>5
<1>2. PnpmKey!Unslashed(key) = r
  <2> HIDE DEF r
  <2>1. CASE prefix = <<>>
    <3>1. key = r
      BY <1>1, <2>1, ConcatEmptySeq DEF r, Lines
    <3>2. r[1] # "/"
      BY <1>1, NameIs
    <3> QED BY <3>1, <3>2 DEF PnpmKey!Unslashed
  <2>2. CASE prefix = <<"/">>
    <3>1. prefix \in Lines /\ Len(prefix) = 1 /\ prefix[1] = "/"
      BY <2>2, Apart, One DEF Lines
    <3>2. /\ key \in Lines /\ Len(key) = 1 + Len(r) /\ key[1] = "/"
          /\ \A i \in 1..Len(r) : key[1 + i] = r[i]
      <4>1. key = prefix \o r
        BY DEF r
      <4>2. /\ prefix \o r \in Lines /\ Len(prefix \o r) = Len(prefix) + Len(r)
            /\ \A i \in 1..Len(prefix) : (prefix \o r)[i] = prefix[i]
            /\ \A i \in 1..Len(r) : (prefix \o r)[Len(prefix) + i] = r[i]
        BY <1>1, <3>1, Joined
      <4>3. 1 \in 1..Len(prefix)
        BY <3>1
      <4> QED BY <3>1, <4>1, <4>2, <4>3
    <3>3. key # <<>>
      <4>1. Len(key) # 0
        BY <1>1, <3>2
      <4> QED BY <4>1, EmptySeq
    <3>4. /\ Tail(key) \in Lines /\ Len(Tail(key)) = Len(key) - 1
          /\ \A i \in 1..Len(Tail(key)) : Tail(key)[i] = key[i + 1]
      BY <3>2, <3>3, HeadTailProperties DEF Lines
    <3>5. Len(Tail(key)) = Len(r) /\ \A i \in 1..Len(Tail(key)) : Tail(key)[i] = r[i]
      BY <1>1, <3>2, <3>4
    <3>6. Tail(key) = r
      BY <1>1, <3>4, <3>5, SeqEqual DEF Lines
    <3> QED BY <3>2, <3>6 DEF PnpmKey!Unslashed
  <2> QED BY <2>1, <2>2
<1>3. \A i \in 1..Len(At(n, v)) : At(n, v)[i] # "("
  <2>1. /\ Len(n) \in Nat /\ Len(v) \in Nat /\ Len(At(n, v)) = Len(n) + 1 + Len(v)
        /\ \A i \in 1..Len(n) : At(n, v)[i] = n[i]
        /\ At(n, v)[Len(n) + 1] = "@"
        /\ \A i \in 1..Len(v) : At(n, v)[Len(n) + 1 + i] = v[i]
    <3>1. n \in Seq(Tokens) /\ v \in Seq(Tokens)
      BY NameIs, VersionIs DEF Lines
    <3>2. Len(n) \in Nat /\ Len(v) \in Nat
      BY <3>1
    <3> QED BY <3>2, AtIs
  <2> SUFFICES ASSUME NEW i \in 1..Len(At(n, v)) PROVE At(n, v)[i] # "("
    OBVIOUS
  <2>2. CASE i <= Len(n)
    <3>1. i \in 1..Len(n)
      BY <2>1, <2>2
    <3> QED BY <2>1, <3>1, NameIs
  <2>3. CASE i = Len(n) + 1
    BY <2>1, <2>3, Apart
  <2>4. CASE i > Len(n) + 1
    <3>1. i - (Len(n) + 1) \in 1..Len(v) /\ i = Len(n) + 1 + (i - (Len(n) + 1))
      BY <2>1, <2>4
    <3>2. At(n, v)[i] = v[i - (Len(n) + 1)]
      BY <2>1, <3>1
    <3> QED BY <3>1, <3>2, VersionIs
  <2> QED BY <2>1, <2>2, <2>3, <2>4
<1>4. PnpmKey!Before(r, "(") = At(n, v)
  BY <1>1, <1>3, CutAt
<1> QED BY <1>2, <1>4

(* Two tokens, the first an at sign, are no name of version 5.             *)
LEMMA ScopeInFront ==
  ASSUME NEW s \in Lines, Len(s) >= 3, s[2] = "@"
  PROVE  PnpmKey!Contains(SubSeq(s, 2, 3), "@") /\ Len(SubSeq(s, 2, 3)) = 2
<1>1. Len(s) \in Nat /\ 2 \in Nat \ {0} /\ 3 \in Nat /\ 3 <= Len(s) /\ 2 \in 2..3
  BY DEF Lines
<1>2. PnpmKey!Contains(SubSeq(s, 2, 3), "@") <=> \E j \in 2..3 : s[j] = "@"
  BY <1>1, InPart
<1>3. Len(SubSeq(s, 2, 3)) = IF 2 <= 3 THEN 3 - 2 + 1 ELSE 0
  BY <1>1, PartOf
<1>4. Len(SubSeq(s, 2, 3)) = 2
  BY <1>3
<1> QED BY <1>1, <1>2, <1>4

(* A prefixed name@version is no key of version 5: in front of a slash in  *)
(* it stands a scope.                                                      *)
LEMMA NotV5 ==
  ASSUME NEW n \in KeyNames, NEW v \in KeyVersions, v \notin KeyUrls, NEW key, key = <<"/">> \o At(n, v)
  PROVE  PnpmKey!V5At(key) = {}
<1>1. <<"/">> \in Lines /\ Len(<<"/">>) = 1 /\ <<"/">>[1] = "/"
  BY Apart, One DEF Lines
<1>2. /\ At(n, v) \in Lines /\ Len(At(n, v)) = Len(n) + 1 + Len(v)
      /\ \A i \in 1..Len(n) : At(n, v)[i] = n[i]
      /\ At(n, v)[Len(n) + 1] = "@"
      /\ \A i \in 1..Len(v) : At(n, v)[Len(n) + 1 + i] = v[i]
  BY AtIs
<1>3. /\ key \in Lines /\ Len(key) = 1 + Len(At(n, v))
      /\ \A i \in 1..Len(At(n, v)) : key[1 + i] = At(n, v)[i]
  BY <1>1, <1>2, Joined
<1>4. Len(v) = 1 /\ v[1] # "/"
  BY VersionIs
<1>5. Len(n) = 1 \/ Len(n) = 4
  BY NameIs
<1>6. Len(n) \in Nat \ {0}
  <2>1. CASE Len(n) = 1
    BY <2>1
  <2>2. CASE Len(n) = 4
    BY <2>2
  <2> QED BY <1>5, <2>1, <2>2
<1>7. ASSUME NEW i \in 2..Len(key), key[i] = "/" PROVE Len(n) = 4 /\ i = 4
  <2>1. i - 1 \in 1..Len(n) + 2 /\ 1 + (i - 1) = i
    BY <1>2, <1>3, <1>4, <1>6
  <2>2. key[i] = At(n, v)[i - 1]
    <3>1. i - 1 \in 1..Len(At(n, v))
      BY <1>2, <1>4, <1>6, <2>1
    <3> QED BY <1>3, <2>1, <3>1
  <2>3. i - 1 # Len(n) + 1
    BY <1>2, <1>7, <2>2, Apart
  <2>4. i - 1 # Len(n) + 2
    <3> SUFFICES ASSUME i - 1 = Len(n) + 2 PROVE FALSE
      OBVIOUS
    <3>1. 1 \in 1..Len(v) /\ Len(n) + 1 + 1 = i - 1
      BY <1>4, <1>6
    <3>2. At(n, v)[i - 1] = v[1]
      BY <1>2, <3>1
    <3> QED BY <1>4, <1>7, <2>2, <3>2
  <2>5. i - 1 \in 1..Len(n)
    BY <1>6, <2>1, <2>3, <2>4
  <2>6. n[i - 1] = "/"
    BY <1>2, <1>7, <2>2, <2>5
  <2>7. CASE Len(n) = 1
    <3>1. i - 1 = 1
      BY <2>5, <2>7
    <3>2. n[1] # "/"
      BY NameIs
    <3> QED BY <2>6, <3>1, <3>2
  <2>8. CASE Len(n) = 4
    <3>1. n[1] # "/" /\ n[2] # "/" /\ n[4] # "/"
      BY <2>8, NameIs
    <3>2. i - 1 = 1 \/ i - 1 = 2 \/ i - 1 = 3 \/ i - 1 = 4
      BY <2>5, <2>8
    <3>3. i - 1 = 3
      BY <2>6, <3>1, <3>2
    <3> QED BY <2>8, <3>3
  <2> QED BY <1>5, <2>7, <2>8
<1>8. SUFFICES ASSUME NEW i \in PnpmKey!V5At(key) PROVE FALSE
  OBVIOUS
<1>9. DOMAIN key = 1..Len(key) /\ Len(key) \in Nat
  BY <1>3 DEF Lines
<1>10. i \in 2..Len(key) /\ key[i] = "/" /\ i < Len(key)
  BY <1>9 DEF PnpmKey!V5At
<1>11. Len(n) = 4 /\ i = 4
  BY <1>7, <1>10
<1>12. PnpmKey!Contains(SubSeq(key, 2, 3), "@") /\ Len(SubSeq(key, 2, 3)) = 2
  <2>1. Len(key) >= 3 /\ 2 \in Nat \ {0} /\ 3 \in Nat
    BY <1>9, <1>10, <1>11
  <2>2. n[1] = "@"
    BY <1>11, NameIs
  <2>3. 1 \in 1..Len(n) /\ 1 \in 1..Len(At(n, v)) /\ 1 + 1 = 2
    BY <1>2, <1>4, <1>11
  <2>4. key[2] = "@"
    BY <1>2, <1>3, <2>2, <2>3
  <2> QED BY <1>3, <2>1, <2>4, ScopeInFront
<1>13. LET name == SubSeq(key, 2, i - 1) IN
          \/ name # <<>> /\ ~PnpmKey!Contains(name, "/") /\ ~PnpmKey!Contains(name, "@")
          \/ Len(name) > 3
  BY DEF PnpmKey!V5At
<1>14. i - 1 = 3
  BY <1>11
<1> QED BY <1>12, <1>13, <1>14

(* The peers of a key of version 5.                                        *)
LEMMA UnderscoredIs ==
  ASSUME NEW q \in KeyPeers, "(" \notin TokensOf(q)
  PROVE  LET u == Underscored(q) IN
         u \in Lines /\ (u = <<>> \/ u[1] = "_") /\ \A i \in 1..Len(u) : u[i] # "/" /\ u[i] # "("
<1> DEFINE u == Underscored(q)
<1> SUFFICES u \in Lines /\ (u = <<>> \/ u[1] = "_") /\ \A i \in 1..Len(u) : u[i] # "/" /\ u[i] # "("
  OBVIOUS
<1>1. q \in Seq(Tokens) /\ Len(q) \in Nat /\ DOMAIN q = 1..Len(q)
  BY KeysAssumption DEF KeysConstants
<1>2. CASE q = <<>>
  <2>1. u = <<>>
    BY <1>2 DEF Underscored
  <2>2. <<>> \in Lines /\ Len(<<>>) = 0
    BY EmptySeq DEF Lines
  <2> QED BY <2>1, <2>2
<1>3. CASE q # <<>>
  <2> DEFINE p == Plus(q)
             l == <<"_">>
  <2>1. p = [i \in 1..Len(q) |-> IF q[i] = "/" THEN "+" ELSE q[i]]
    BY <1>1 DEF Plus
  <2>2. \A i \in 1..Len(q) : p[i] = IF q[i] = "/" THEN "+" ELSE q[i]
    BY <2>1
  <2>3. \A i \in 1..Len(q) : q[i] \in Tokens /\ q[i] # "("
    BY <1>1 DEF TokensOf
  <2>4. \A i \in 1..Len(q) : p[i] \in Tokens /\ p[i] # "/" /\ p[i] # "("
    BY <2>2, <2>3, Apart
  <2>5. p \in [1..Len(q) -> Tokens]
    BY <2>1, <2>4
  <2>6. p \in Lines /\ Len(p) = Len(q)
    BY <1>1, <2>5 DEF Lines
  <2>7. l \in Lines /\ Len(l) = 1 /\ l[1] = "_"
    BY Apart, One DEF Lines
  <2>12. Len(l) = 1 /\ 1 \in 1..1 /\ l \in Lines
    <3>1. 1 \in 1..1
      OBVIOUS
    <3> QED BY <2>7, <3>1
  <2> HIDE DEF p, l
  <2>8. /\ l \o p \in Lines /\ Len(l \o p) = Len(l) + Len(p)
        /\ \A i \in 1..Len(l) : (l \o p)[i] = l[i]
        /\ \A i \in 1..Len(p) : (l \o p)[Len(l) + i] = p[i]
    BY <2>6, <2>12, Joined
  <2>9. u = l \o p
    BY <1>3 DEF Underscored, l, p
  <2> HIDE DEF u
  <2>10. u \in Lines /\ u[1] = "_"
    <3>1. 1 \in 1..Len(l)
      BY <2>12
    <3> QED BY <2>7, <2>8, <2>9, <3>1
  <2>11. ASSUME NEW i \in 1..Len(u) PROVE u[i] # "/" /\ u[i] # "("
    <3>1. CASE i = 1
      BY <2>10, <3>1, Apart
    <3>2. CASE i # 1
      <4>1. i - 1 \in 1..Len(p) /\ Len(l) + (i - 1) = i
        BY <1>1, <2>6, <2>12, <2>8, <2>9, <3>2
      <4>2. u[i] = p[i - 1]
        BY <2>8, <2>9, <4>1
      <4> QED BY <2>4, <2>6, <4>1, <4>2
    <3> QED BY <3>1, <3>2
  <2> QED BY <2>10, <2>11
<1> QED BY <1>2, <1>3

(* A key of version 5, place by place.                                     *)
V5Key(n, v, u) == <<"/">> \o (n \o (<<"/">> \o (v \o u)))

Spelt(n, v, u) ==
  /\ V5Key(n, v, u) \in Lines /\ Len(n) \in Nat /\ Len(v) \in Nat /\ Len(u) \in Nat
  /\ v \o u \in Lines /\ Len(v \o u) = Len(v) + Len(u)
  /\ Len(V5Key(n, v, u)) = Len(n) + 2 + Len(v \o u)
  /\ V5Key(n, v, u)[1] = "/"
  /\ \A i \in 1..Len(n) : V5Key(n, v, u)[1 + i] = n[i]
  /\ V5Key(n, v, u)[Len(n) + 2] = "/"
  /\ \A i \in 1..Len(v \o u) : V5Key(n, v, u)[Len(n) + 2 + i] = (v \o u)[i]
  /\ \A i \in 1..Len(v) : (v \o u)[i] = v[i]
  /\ \A i \in 1..Len(u) : (v \o u)[Len(v) + i] = u[i]

(* What Spelt says holds of every key of version 5.                        *)
LEMMA V5KeyIs ==
  ASSUME NEW n \in Lines, NEW v \in Lines, NEW u \in Lines
  PROVE  Spelt(n, v, u)
<1> DEFINE l == <<"/">>
           a == v \o u
           b == l \o a
           c == n \o b
           d == l \o c
<1>1. l \in Lines /\ Len(l) = 1 /\ l[1] = "/"
  BY Apart, One DEF Lines
<1>2. /\ a \in Lines /\ Len(v) \in Nat /\ Len(u) \in Nat /\ Len(a) = Len(v) + Len(u)
      /\ \A i \in 1..Len(v) : a[i] = v[i]
      /\ \A i \in 1..Len(u) : a[Len(v) + i] = u[i]
  BY Joined
<1> HIDE DEF l, a
<1>3. /\ b \in Lines /\ Len(b) = Len(l) + Len(a) /\ Len(a) \in Nat
      /\ \A i \in 1..Len(l) : b[i] = l[i]
      /\ \A i \in 1..Len(a) : b[Len(l) + i] = a[i]
  BY <1>1, <1>2, Joined
<1> HIDE DEF b
<1>4. /\ c \in Lines /\ Len(c) = Len(n) + Len(b) /\ Len(n) \in Nat /\ Len(b) \in Nat
      /\ \A i \in 1..Len(n) : c[i] = n[i]
      /\ \A i \in 1..Len(b) : c[Len(n) + i] = b[i]
  BY <1>3, Joined
<1> HIDE DEF c
<1>5. /\ d \in Lines /\ Len(d) = Len(l) + Len(c)
      /\ \A i \in 1..Len(l) : d[i] = l[i]
      /\ \A i \in 1..Len(c) : d[Len(l) + i] = c[i]
  BY <1>1, <1>4, Joined
<1> HIDE DEF d
<1>6. V5Key(n, v, u) = d
  BY DEF V5Key, l, a, b, c, d
<1>7. d[1] = "/"
  <2>1. 1 \in 1..Len(l)
    BY <1>1
  <2> QED BY <1>1, <1>5, <2>1
<1>8. ASSUME NEW i \in 1..Len(n) PROVE d[1 + i] = n[i]
  <2>1. i \in 1..Len(c)
    BY <1>4
  <2> QED BY <1>1, <1>4, <1>5, <2>1
<1>9. d[Len(n) + 2] = "/"
  <2>1. 1 \in 1..Len(l) /\ 1 \in 1..Len(b) /\ Len(n) + 1 \in 1..Len(c) /\ 1 + (Len(n) + 1) = Len(n) + 2
    BY <1>1, <1>3, <1>4
  <2>2. b[1] = "/" /\ c[Len(n) + 1] = b[1]
    BY <1>1, <1>3, <1>4, <2>1
  <2>3. d[1 + (Len(n) + 1)] = c[Len(n) + 1]
    BY <1>1, <1>5, <2>1
  <2> QED BY <2>1, <2>2, <2>3
<1>10. ASSUME NEW i \in 1..Len(a) PROVE d[Len(n) + 2 + i] = a[i]
  <2>1. /\ 1 + i \in 1..Len(b) /\ Len(n) + (1 + i) \in 1..Len(c)
        /\ 1 + (Len(n) + (1 + i)) = Len(n) + 2 + i
    BY <1>1, <1>3, <1>4
  <2>2. b[1 + i] = a[i]
    BY <1>1, <1>3
  <2>3. c[Len(n) + (1 + i)] = b[1 + i]
    BY <1>4, <2>1
  <2>4. d[1 + (Len(n) + (1 + i))] = c[Len(n) + (1 + i)]
    BY <1>1, <1>5, <2>1
  <2> QED BY <2>1, <2>2, <2>3, <2>4
<1>11. Len(d) = Len(n) + 2 + Len(a)
  BY <1>1, <1>3, <1>4, <1>5
<1> QED BY <1>2, <1>4, <1>5, <1>6, <1>7, <1>8, <1>9, <1>10, <1>11 DEF a, Spelt

(* The text a sequence ends in.                                            *)
LEMMA LastPart ==
  ASSUME NEW s \in Lines, NEW w \in Lines, NEW p \in Nat, Len(s) = p + Len(w),
         \A i \in 1..Len(w) : s[p + i] = w[i]
  PROVE  PnpmKey!From(s, p + 1) = w
<1> DEFINE m == p + 1
<1>1. /\ m \in Nat \ {0} /\ m - 1 + Len(w) = Len(s) /\ m - 1 + Len(w) <= Len(s)
      /\ \A i \in 1..Len(w) : s[m - 1 + i] = w[i]
  <2>1. Len(w) \in Nat /\ m - 1 = p
    BY DEF Lines
  <2> QED BY <2>1
<1> HIDE DEF m
<1>2. SubSeq(s, m, m - 1 + Len(w)) = w
  BY <1>1, MiddlePart
<1>3. SubSeq(s, m, Len(s)) = w
  BY <1>1, <1>2
<1> QED BY <1>3 DEF m, PnpmKey!From

(* A name is one token, or a scope and one token.                          *)
LEMMA NameLength ==
  ASSUME NEW n \in KeyNames
  PROVE  Len(n) \in Nat \ {0} /\ (Len(n) = 1 \/ Len(n) = 4)
<1>1. Len(n) = 1 \/ Len(n) = 4
  BY NameIs
<1>2. CASE Len(n) = 1
  BY <1>2
<1>3. CASE Len(n) = 4
  BY <1>3
<1> QED BY <1>1, <1>2, <1>3

(* A name is what version 5 puts between two slashes.                      *)
Between(name) ==
  \/ name # <<>> /\ ~PnpmKey!Contains(name, "/") /\ ~PnpmKey!Contains(name, "@")
  \/ /\ Len(name) > 3 /\ name[1] = "@" /\ ~PnpmKey!Contains(Tail(name), "@")
     /\ \E j \in 3..Len(name) - 1 : {k \in DOMAIN name : name[k] = "/"} = {j}

(* Every name a package has may stand there.                               *)
LEMMA NamesStandBetween ==
  ASSUME NEW n \in KeyNames
  PROVE  Between(n)
<1>1. /\ n \in Lines /\ n[1] # "/" /\ n # <<>> /\ DOMAIN n = 1..Len(n) /\ Len(n) \in Nat \ {0}
      /\ \A i \in 1..Len(n) : i > 1 => n[i] # "@"
  <2>1. n \in Seq(Tokens) /\ n[1] # "/" /\ \A i \in 1..Len(n) : i > 1 => n[i] # "@"
    BY NameIs DEF Lines
  <2>2. Len(n) \in Nat \ {0}
    BY NameLength
  <2>3. n # <<>>
    BY <2>2, EmptySeq
  <2> QED BY <2>1, <2>2, <2>3 DEF Lines
<1>2. CASE Len(n) = 1
  <2>1. n[1] # "@" /\ \A i \in 1..Len(n) : i = 1
    BY <1>2, NameIs
  <2>2. ~PnpmKey!Contains(n, "/") /\ ~PnpmKey!Contains(n, "@")
    BY <1>1, <2>1 DEF PnpmKey!Contains
  <2> QED BY <1>1, <2>2 DEF Between
<1>3. CASE Len(n) = 4
  <2>1. n[1] = "@" /\ n[3] = "/" /\ n[2] # "/" /\ n[4] # "/"
    BY <1>3, NameIs
  <2>2. \A i \in 1..Len(n) : i = 1 \/ i = 2 \/ i = 3 \/ i = 4
    BY <1>3
  <2>3. {k \in DOMAIN n : n[k] = "/"} = {3}
    <3>1. 3 \in DOMAIN n
      BY <1>1, <1>3
    <3> QED BY <1>1, <2>1, <2>2, <3>1
  <2>4. ~PnpmKey!Contains(Tail(n), "@")
    <3>1. Len(Tail(n)) = Len(n) - 1 /\ \A i \in 1..Len(Tail(n)) : Tail(n)[i] = n[i + 1]
      BY <1>1, HeadTailProperties DEF Lines
    <3>2. \A i \in 1..Len(Tail(n)) : Tail(n)[i] # "@"
      <4> SUFFICES ASSUME NEW i \in 1..Len(Tail(n)) PROVE Tail(n)[i] # "@"
        OBVIOUS
      <4>1. i + 1 \in 1..Len(n) /\ i + 1 > 1
        BY <1>1, <3>1
      <4> QED BY <1>1, <3>1, <4>1
    <3> QED BY <3>2 DEF PnpmKey!Contains
  <2>5. 3 \in 3..Len(n) - 1 /\ Len(n) > 3
    BY <1>3
  <2> QED BY <2>1, <2>3, <2>4, <2>5 DEF Between
<1> QED BY <1>2, <1>3, NameLength

(* Peers of version 5.                                                     *)
FollowsVersion(u) == u = <<>> \/ u[1] = "_"

(* A key of version 5 reads as the name and version it was written from.   *)
LEMMA V5Parsed ==
  ASSUME NEW n \in KeyNames, NEW v \in KeyVersions, v \notin KeyUrls,
         NEW u \in Lines, FollowsVersion(u), \A i \in 1..Len(u) : u[i] # "/" /\ u[i] # "("
  PROVE  PnpmKey!parsePackageKey(V5Key(n, v, u)) = [name |-> n, version |-> v]
<1> DEFINE key == V5Key(n, v, u)
           w == v \o u
           p == Len(n) + 2
<1>1. n \in Lines /\ v \in Lines /\ Len(v) = 1 /\ v[1] \in KeyDigits /\ v[1] # "/" /\ v[1] # "("
  <2>1. v \in Lines /\ Len(v) = 1 /\ v[1] \in KeyDigits /\ v[1] # "/" /\ \A i \in 1..Len(v) : v[i] # "("
    BY VersionIs
  <2>2. 1 \in 1..Len(v)
    BY <2>1
  <2>3. n \in Lines
    BY NameIs
  <2> QED BY <2>1, <2>2, <2>3
<1>2. /\ key \in Lines /\ Len(u) \in Nat /\ w \in Lines /\ Len(w) = 1 + Len(u)
      /\ Len(key) = Len(n) + 2 + Len(w)
      /\ key[1] = "/" /\ key[p] = "/"
      /\ \A i \in 1..Len(n) : key[1 + i] = n[i]
      /\ \A i \in 1..Len(w) : key[p + i] = w[i]
      /\ \A i \in 1..Len(v) : w[i] = v[i]
      /\ \A i \in 1..Len(u) : w[1 + i] = u[i]
  <2>1. /\ key \in Lines /\ Len(u) \in Nat /\ w \in Lines /\ Len(w) = Len(v) + Len(u)
        /\ Len(key) = Len(n) + 2 + Len(w)
        /\ key[1] = "/" /\ key[Len(n) + 2] = "/"
        /\ \A i \in 1..Len(n) : key[1 + i] = n[i]
        /\ \A i \in 1..Len(w) : key[Len(n) + 2 + i] = w[i]
        /\ \A i \in 1..Len(v) : w[i] = v[i]
        /\ \A i \in 1..Len(u) : w[Len(v) + i] = u[i]
    <3>1. n \in Lines /\ v \in Lines
      BY <1>1
    <3>2. Spelt(n, v, u)
      BY <3>1, V5KeyIs
    <3> QED BY <3>2 DEF Spelt
  <2> HIDE DEF key, w
  <2>2. Len(v) = 1
    BY <1>1
  <2> QED BY <2>1, <2>2
<1>3. Len(n) \in Nat \ {0} /\ p \in Nat /\ p >= 3
  BY NameLength
<1> HIDE DEF key, w
<1>4. DOMAIN key = 1..Len(key) /\ Len(key) \in Nat
  BY <1>2 DEF Lines
<1>5. w[1] = v[1]
  <2>1. 1 \in 1..Len(v)
    BY <1>1
  <2> QED BY <1>2, <2>1
<1>6. ASSUME NEW i \in 1..Len(w) PROVE w[i] # "/" /\ w[i] # "("
  <2>1. CASE i = 1
    BY <1>1, <1>5, <2>1
  <2>2. CASE i # 1
    <3>1. i - 1 \in 1..Len(u) /\ 1 + (i - 1) = i
      BY <1>2, <2>2
    <3>2. w[i] = u[i - 1]
      BY <1>2, <3>1
    <3> QED BY <3>1, <3>2
  <2> QED BY <2>1, <2>2
<1>7. ASSUME NEW i \in 1..Len(key) PROVE i = 1 \/ (i - 1 \in 1..Len(n) /\ key[i] = n[i - 1]) \/ i = p \/ (i - p \in 1..Len(w) /\ key[i] = w[i - p])
  <2>1. i = 1 \/ i - 1 \in 1..Len(n) \/ i = p \/ i - p \in 1..Len(w)
    BY <1>2, <1>3
  <2>2. 1 + (i - 1) = i /\ p + (i - p) = i
    BY <1>3
  <2> QED BY <1>2, <2>1, <2>2
<1>8. ~PnpmKey!Contains(key, "(")
  <2> SUFFICES ASSUME NEW i \in 1..Len(key), key[i] = "(" PROVE FALSE
    BY DEF PnpmKey!Contains
  <2>1. \A j \in 1..Len(n) : n[j] # "("
    BY NameIs
  <2>2. key[1] # "(" /\ key[p] # "("
    BY <1>2, Apart
  <2>3. i # 1 /\ i # p
    BY <2>2
  <2> QED BY <1>6, <1>7, <2>1, <2>3
<1>9. ASSUME NEW i \in 2..Len(key), key[i] = "/", i # p PROVE i < p
  <2>1. i \in 1..Len(key) /\ i # 1
    BY <1>4
  <2>2. ~(i - p \in 1..Len(w) /\ key[i] = w[i - p])
    BY <1>6, <1>9
  <2>3. i - 1 \in 1..Len(n)
    BY <1>7, <1>9, <2>1, <2>2
  <2> QED BY <1>3, <2>1, <2>3
<1>10. PnpmKey!V5At(key) \subseteq {p}
  <2> SUFFICES ASSUME NEW i \in PnpmKey!V5At(key) PROVE i = p
    OBVIOUS
  <2>1. i \in 2..Len(key) /\ key[i] = "/" /\ i < Len(key) /\ ~PnpmKey!Contains(SubSeq(key, i + 1, Len(key)), "/")
    BY <1>4 DEF PnpmKey!V5At, PnpmKey!From
  <2> SUFFICES ASSUME i < p PROVE FALSE
    BY <1>9, <2>1
  <2>2. i + 1 \in Nat \ {0} /\ p \in i + 1 .. Len(key) /\ Len(key) <= Len(key)
    BY <1>2, <1>3, <1>4, <2>1
  <2>3. PnpmKey!Contains(SubSeq(key, i + 1, Len(key)), "/") <=> \E j \in i + 1 .. Len(key) : key[j] = "/"
    BY <1>2, <1>4, <2>2, InPart
  <2> QED BY <1>2, <2>1, <2>2, <2>3
<1>11. SubSeq(key, 2, p - 1) = n
  <2>1. /\ 2 \in Nat \ {0} /\ 2 - 1 + Len(n) = p - 1 /\ 2 - 1 + Len(n) <= Len(key)
        /\ \A i \in 1..Len(n) : key[2 - 1 + i] = n[i]
    BY <1>2, <1>3
  <2>2. SubSeq(key, 2, 2 - 1 + Len(n)) = n
    BY <1>1, <1>2, <2>1, MiddlePart
  <2> QED BY <2>1, <2>2
<1>12. PnpmKey!From(key, p + 1) = w
  <2>1. p \in Nat /\ Len(key) = p + Len(w) /\ \A i \in 1..Len(w) : key[p + i] = w[i]
    BY <1>2, <1>3
  <2>2. key \in Lines /\ w \in Lines
    BY <1>2
  <2> HIDE DEF p
  <2> QED BY <2>1, <2>2, LastPart
<1>13. p \in PnpmKey!V5At(key)
  <2>1. p \in DOMAIN key \ {1} /\ p < Len(key)
    BY <1>2, <1>3, <1>4
  <2>2. key[p + 1] = v[1]
    <3>1. 1 \in 1..Len(w)
      BY <1>2
    <3> QED BY <1>2, <1>5, <3>1
  <2>3. ~PnpmKey!Contains(PnpmKey!From(key, p + 1), "/")
    BY <1>6, <1>12 DEF PnpmKey!Contains
  <2>4. LET name == SubSeq(key, 2, p - 1) IN
          \/ name # <<>> /\ ~PnpmKey!Contains(name, "/") /\ ~PnpmKey!Contains(name, "@")
          \/ /\ Len(name) > 3 /\ name[1] = "@" /\ ~PnpmKey!Contains(Tail(name), "@")
             /\ \E j \in 3..Len(name) - 1 : {k \in DOMAIN name : name[k] = "/"} = {j}
    BY <1>11, NamesStandBetween DEF Between
  <2> HIDE DEF p
  <2> QED BY <1>1, <1>2, <2>1, <2>2, <2>3, <2>4 DEF PnpmKey!V5At
<1>14. PnpmKey!V5At(key) = {p}
  BY <1>10, <1>13
<1>15. PnpmKey!Before(w, "_") = v
  <2>1. \A i \in 1..Len(v) : v[i] # "_"
    <3>1. \A i \in 1..Len(v) : i = 1
      BY <1>1
    <3> QED BY <3>1, VersionIs
  <2> QED BY <1>1, <2>1, CutAt DEF w, FollowsVersion
<1>16. PnpmKey!SplitV5(key) = [name |-> n, version |-> v]
  <2>1. (CHOOSE j \in PnpmKey!V5At(key) : TRUE) = p
    BY <1>14
  <2> HIDE DEF p
  <2>2. PnpmKey!SplitV5(key) = [name |-> SubSeq(key, 2, p - 1), version |-> PnpmKey!Before(PnpmKey!From(key, p + 1), "_")]
    BY <2>1 DEF PnpmKey!SplitV5
  <2> QED BY <1>11, <1>12, <1>15, <2>2
<1>17. PnpmKey!parsePackageKey(key) = PnpmKey!SplitV5(key)
  BY <1>8, <1>14 DEF PnpmKey!parsePackageKey
<1> QED BY <1>16, <1>17 DEF key

PrefixFits(prefix, v) == prefix \in {<<>>, <<"/">>} /\ (v \in KeyUrls => prefix = <<>>)

(* A key of a version after 5 reads as the name and version it was written *)
(* from.                                                                   *)
LEMMA AtParsed ==
  ASSUME NEW n \in KeyNames, NEW v \in KeyVersions, NEW s \in Lines, s = <<>> \/ s[1] = "(",
         NEW prefix, PrefixFits(prefix, v),
         NEW key, key = prefix \o (At(n, v) \o s)
  PROVE  PnpmKey!parsePackageKey(key) = [name |-> n, version |-> v]
<1>5. prefix \in {<<>>, <<"/">>} /\ (v \in KeyUrls => prefix = <<>>)
  BY DEF PrefixFits
<1>1. PnpmKey!Before(PnpmKey!Unslashed(key), "(") = At(n, v)
  BY <1>5, AtKey
<1>2. PnpmKey!SplitAt(PnpmKey!Before(PnpmKey!Unslashed(key), "(")) = [name |-> n, version |-> v]
  BY <1>1, SplitIs
<1>3. PnpmKey!Contains(key, "(") \/ PnpmKey!V5At(key) = {}
  <2> DEFINE r == At(n, v) \o s
  <2>1. /\ At(n, v) \in Lines /\ Len(At(n, v)) \in Nat \ {0} /\ At(n, v)[1] = n[1]
    <3>1. Len(n) \in Nat \ {0} /\ Len(v) \in Nat \ {0}
      BY NameLength, VersionIs
    <3>2. 1 \in 1..Len(n)
      BY <3>1
    <3> QED BY <3>1, <3>2, AtIs
  <2>2. /\ r \in Lines /\ Len(s) \in Nat /\ Len(r) = Len(At(n, v)) + Len(s)
        /\ \A i \in 1..Len(At(n, v)) : r[i] = At(n, v)[i]
        /\ \A i \in 1..Len(s) : r[Len(At(n, v)) + i] = s[i]
    BY <2>1, Joined
  <2> HIDE DEF r
  <2>3. CASE prefix = <<>>
    <3>1. key = r
      BY <2>2, <2>3, ConcatEmptySeq DEF r, Lines
    <3>2. 1 \in 1..Len(At(n, v))
      BY <2>1
    <3>3. key[1] # "/"
      BY <2>1, <2>2, <3>1, <3>2, NameIs
    <3> QED BY <3>3 DEF PnpmKey!V5At
  <2>4. CASE prefix = <<"/">>
    <3>1. prefix \in Lines /\ Len(prefix) = 1
      BY <2>4, Apart, One DEF Lines
    <3>2. CASE s = <<>>
      <4>1. r = At(n, v)
        BY <2>1, <3>2, ConcatEmptySeq DEF r, Lines
      <4>2. v \notin KeyUrls
        <5>1. <<"/">> # <<>>
          OBVIOUS
        <5> QED BY <2>4, <1>5, <5>1
      <4>3. key = <<"/">> \o At(n, v)
        BY <2>4, <4>1 DEF r
      <4> QED BY <4>2, <4>3, NotV5
    <3>3. CASE s # <<>>
      <4>1. Len(s) # 0 /\ s[1] = "("
        BY <3>3, EmptySeq DEF Lines
      <4>2. Len(At(n, v)) + 1 \in 1..Len(r) /\ r[Len(At(n, v)) + 1] = "("
        BY <2>1, <2>2, <4>1
      <4>3. /\ prefix \o r \in Lines /\ Len(prefix \o r) = Len(prefix) + Len(r) /\ Len(r) \in Nat
            /\ \A i \in 1..Len(r) : (prefix \o r)[Len(prefix) + i] = r[i]
        BY <2>2, <3>1, Joined
      <4>4. key = prefix \o r
        BY DEF r
      <4> DEFINE j == Len(At(n, v)) + 1
      <4>5. j \in 1..Len(r) /\ r[j] = "("
        BY <4>2
      <4> HIDE DEF j
      <4>6. key[1 + j] = "(" /\ 1 + j \in 1..Len(key)
        BY <3>1, <4>3, <4>4, <4>5
      <4>7. DOMAIN key = 1..Len(key)
        BY <4>3, <4>4 DEF Lines
      <4> QED BY <4>6, <4>7 DEF PnpmKey!Contains
    <3> QED BY <3>2, <3>3
  <2> QED BY <1>5, <2>3, <2>4
<1> QED BY <1>2, <1>3 DEF PnpmKey!parsePackageKey

(* How a key of the later versions is put together, ...                    *)
LEMMA SpeltAfterFive ==
  ASSUME NEW n \in KeyNames, NEW v \in KeyVersions, NEW s \in Lines, NEW prefix \in Lines
  PROVE  prefix \o n \o <<"@">> \o v \o s = prefix \o (At(n, v) \o s)
<1> DEFINE l == <<"@">>
<1>1. n \in Seq(Tokens) /\ v \in Seq(Tokens) /\ s \in Seq(Tokens) /\ prefix \in Seq(Tokens)
  BY NameIs, VersionIs DEF Lines
<1>2. l \in Seq(Tokens)
  BY Apart, One
<1> HIDE DEF l
<1>3. n \o l \in Seq(Tokens) /\ (n \o l) \o v \in Seq(Tokens)
  BY <1>1, <1>2, ConcatProperties
<1>4. (prefix \o n) \o l = prefix \o (n \o l)
  BY <1>1, <1>2, ConcatAssociative
<1>5. (prefix \o (n \o l)) \o v = prefix \o ((n \o l) \o v)
  BY <1>1, <1>3, ConcatAssociative
<1>6. (prefix \o ((n \o l) \o v)) \o s = prefix \o (((n \o l) \o v) \o s)
  BY <1>1, <1>3, ConcatAssociative
<1> QED BY <1>4, <1>5, <1>6 DEF At, l

(* ... and one of version 5.                                               *)
LEMMA SpeltInFive ==
  ASSUME NEW n \in Lines, NEW v \in Lines, NEW u \in Lines
  PROVE  <<"/">> \o n \o <<"/">> \o v \o u = V5Key(n, v, u)
<1> DEFINE l == <<"/">>
<1>1. n \in Seq(Tokens) /\ v \in Seq(Tokens) /\ u \in Seq(Tokens)
  BY DEF Lines
<1>2. l \in Seq(Tokens)
  BY Apart, One
<1> HIDE DEF l
<1>3. /\ v \o u \in Seq(Tokens) /\ l \o (v \o u) \in Seq(Tokens)
      /\ l \o n \in Seq(Tokens) /\ (l \o n) \o l \in Seq(Tokens)
  BY <1>1, <1>2, ConcatProperties
<1>4. (((l \o n) \o l) \o v) \o u = ((l \o n) \o l) \o (v \o u)
  <2> DEFINE a == (l \o n) \o l
  <2>1. a \in Seq(Tokens)
    BY <1>3
  <2> HIDE DEF a
  <2>2. (a \o v) \o u = a \o (v \o u)
    BY <1>1, <2>1, ConcatAssociative
  <2> QED BY <2>2 DEF a
<1>5. ((l \o n) \o l) \o (v \o u) = (l \o n) \o (l \o (v \o u))
  BY <1>2, <1>3, ConcatAssociative
<1>6. (l \o n) \o (l \o (v \o u)) = l \o (n \o (l \o (v \o u)))
  BY <1>1, <1>2, <1>3, ConcatAssociative
<1> QED BY <1>4, <1>5, <1>6 DEF V5Key, l

(* The peers of the later versions.                                        *)
LEMMA ParenthesisedIs ==
  ASSUME NEW q \in KeyPeers
  PROVE  Parenthesised(q) \in Lines /\ (Parenthesised(q) = <<>> \/ Parenthesised(q)[1] = "(")
<1>1. q \in Lines
  BY KeysAssumption DEF KeysConstants, Lines
<1>2. CASE q = <<>>
  <2>1. Parenthesised(q) = <<>>
    BY <1>2 DEF Parenthesised
  <2> QED BY <2>1, EmptySeq DEF Lines
<1>3. CASE q # <<>>
  <2> DEFINE l == <<"(">>
             r == <<")">>
  <2>1. l \in Lines /\ Len(l) = 1 /\ l[1] = "(" /\ r \in Lines
    BY Apart, One DEF Lines
  <2> HIDE DEF l, r
  <2>2. /\ l \o q \in Lines /\ Len(q) \in Nat /\ Len(l \o q) = Len(l) + Len(q)
        /\ \A i \in 1..Len(l) : (l \o q)[i] = l[i]
    BY <1>1, <2>1, Joined
  <2>3. /\ (l \o q) \o r \in Lines
        /\ \A i \in 1..Len(l \o q) : ((l \o q) \o r)[i] = (l \o q)[i]
    BY <2>1, <2>2, Joined
  <2>4. 1 \in 1..Len(l) /\ 1 \in 1..Len(l \o q)
    BY <2>1, <2>2
  <2>5. Parenthesised(q) = (l \o q) \o r
    BY <1>3 DEF Parenthesised, l, r
  <2> HIDE DEF Parenthesised
  <2> QED BY <2>1, <2>2, <2>3, <2>4, <2>5
<1> QED BY <1>2, <1>3

(* However pnpm spells a key, it reads as the name and version spelt.      *)
LEMMA SpellingsRead ==
  ASSUME NEW n \in KeyNames, NEW v \in KeyVersions, NEW q \in KeyPeers, NEW key \in Spellings(n, v, q)
  PROVE  PnpmKey!parsePackageKey(key) = [name |-> n, version |-> v]
<1>1. n \in Lines /\ v \in Lines
  BY NameIs, VersionIs
<1>2. \/ /\ v \notin KeyUrls /\ "(" \notin TokensOf(q)
         /\ key = <<"/">> \o n \o <<"/">> \o v \o Underscored(q)
      \/ \E prefix \in {<<>>, <<"/">>} : /\ v \in KeyUrls => prefix = <<>>
                                         /\ key = prefix \o n \o <<"@">> \o v \o Parenthesised(q)
  BY DEF Spellings
<1>3. ASSUME v \notin KeyUrls, "(" \notin TokensOf(q),
             key = <<"/">> \o n \o <<"/">> \o v \o Underscored(q)
      PROVE  PnpmKey!parsePackageKey(key) = [name |-> n, version |-> v]
  <2> DEFINE u == Underscored(q)
  <2>1. u \in Lines /\ FollowsVersion(u) /\ \A i \in 1..Len(u) : u[i] # "/" /\ u[i] # "("
    BY <1>3, UnderscoredIs DEF FollowsVersion
  <2> HIDE DEF u
  <2>2. key = V5Key(n, v, u)
    BY <1>1, <1>3, <2>1, SpeltInFive DEF u
  <2> QED BY <1>3, <2>1, <2>2, V5Parsed
<1>4. ASSUME NEW prefix \in {<<>>, <<"/">>}, v \in KeyUrls => prefix = <<>>,
             key = prefix \o n \o <<"@">> \o v \o Parenthesised(q)
      PROVE  PnpmKey!parsePackageKey(key) = [name |-> n, version |-> v]
  <2> DEFINE s == Parenthesised(q)
  <2>1. s \in Lines /\ (s = <<>> \/ s[1] = "(")
    BY ParenthesisedIs
  <2>2. prefix \in Lines
    <3>1. CASE prefix = <<>>
      BY <3>1, EmptySeq DEF Lines
    <3>2. CASE prefix = <<"/">>
      BY <3>2, Apart, One DEF Lines
    <3> QED BY <3>1, <3>2
  <2> HIDE DEF s
  <2>3. key = prefix \o (At(n, v) \o s)
    BY <1>4, <2>1, <2>2, SpeltAfterFive DEF s
  <2>4. PrefixFits(prefix, v)
    BY <1>4 DEF PrefixFits
  <2> QED BY <2>1, <2>3, <2>4, AtParsed
<1> QED BY <1>2, <1>3, <1>4

(* A sequence of two.                                                      *)
LEMMA Two ==
  ASSUME NEW S, NEW a \in S, NEW b \in S
  PROVE  <<a, b>> \in Seq(S) /\ Len(<<a, b>>) = 2 /\ <<a, b>>[1] = a /\ <<a, b>>[2] = b
OBVIOUS

(* A key that begins with a host gives no name.                            *)
LEMMA HostFirst ==
  ASSUME NEW key \in Lines, Len(key) >= 2, key[1] # "/", key[1] # "@", key[2] = "/",
         \A i \in 1..Len(key) : key[i] # "("
  PROVE  LET p == PnpmKey!parsePackageKey(key) IN
         p = PnpmKey!NoPackage \/ ~PnpmKey!NameGrammar(p.name)
<1>1. DOMAIN key = 1..Len(key) /\ Len(key) \in Nat
  BY DEF Lines
<1>2. PnpmKey!Before(PnpmKey!Unslashed(key), "(") = key
  <2>1. ~PnpmKey!Contains(key, "(")
    BY <1>1 DEF PnpmKey!Contains
  <2> QED BY <2>1 DEF PnpmKey!Unslashed, PnpmKey!Before
<1>3. PnpmKey!parsePackageKey(key) = PnpmKey!SplitAt(key)
  <2>1. PnpmKey!V5At(key) = {}
    BY DEF PnpmKey!V5At
  <2> QED BY <1>2, <2>1 DEF PnpmKey!parsePackageKey
<1> DEFINE ats == IF PnpmKey!UrlAt(key) # {} THEN PnpmKey!UrlAt(key) ELSE PnpmKey!LastAt(key)
           i == CHOOSE j \in ats : TRUE
<1>4. \A j \in ats : j \in 3..Len(key)
  <2> SUFFICES ASSUME NEW j \in ats PROVE j \in 3..Len(key)
    OBVIOUS
  <2>1. j \in 2..Len(key) - 1 /\ key[j] = "@"
    BY DEF PnpmKey!UrlAt, PnpmKey!LastAt
  <2>2. j # 2
    BY <2>1, Apart
  <2> QED BY <1>1, <2>1, <2>2
<1>5. CASE ats = {}
  BY <1>3, <1>5 DEF PnpmKey!SplitAt
<1>6. CASE ats # {}
  <2>1. PnpmKey!SplitAt(key) = [name |-> PnpmKey!Upto(key, i - 1), version |-> PnpmKey!From(key, i + 1)]
    BY <1>6 DEF PnpmKey!SplitAt
  <2>2. i \in 3..Len(key)
    <3>1. i \in ats
      BY <1>6
    <3> HIDE DEF i, ats
    <3> QED BY <1>4, <3>1
  <2>7. PnpmKey!SplitAt(key).name = SubSeq(key, 1, i - 1)
    <3> HIDE DEF i, ats
    <3> DEFINE k == i - 1
    <3>1. PnpmKey!SplitAt(key) = [name |-> PnpmKey!Upto(key, k), version |-> PnpmKey!From(key, i + 1)]
      BY <2>1
    <3> HIDE DEF k
    <3>2. PnpmKey!SplitAt(key).name = PnpmKey!Upto(key, k)
      BY <3>1
    <3>3. PnpmKey!SplitAt(key).name = SubSeq(key, 1, k)
      BY <3>2 DEF PnpmKey!Upto
    <3> QED BY <3>3 DEF k
  <2> HIDE DEF i, ats
  <2> DEFINE k == i - 1
             name == SubSeq(key, 1, k)
  <2>3. k \in Nat /\ k <= Len(key) /\ k >= 2 /\ 1 \in Nat \ {0}
    BY <1>1, <2>2
  <2>4. PnpmKey!SplitAt(key).name = name
    BY <2>7
  <2> HIDE DEF k
  <2>5. Len(name) = k /\ name[1] = key[1]
    <3>1. /\ Len(name) = IF 1 <= k THEN k - 1 + 1 ELSE 0
          /\ \A j \in 1..k - 1 + 1 : name[j] = key[1 + j - 1]
      BY <2>3, PartOf
    <3> HIDE DEF name
    <3>2. 1 \in 1..k - 1 + 1
      BY <2>3
    <3> QED BY <2>3, <3>1, <3>2
  <2> HIDE DEF name
  <2>6. ~PnpmKey!NameGrammar(name)
    BY <2>3, <2>5 DEF PnpmKey!NameGrammar
  <2> QED BY <1>3, <2>4, <2>6
<1> QED BY <1>5, <1>6

HostedKey(host, n, sep, v) == <<host, "/">> \o n \o <<sep, v>>

(* So a key that names a host is never read.                               *)
LEMMA HostedUnread ==
  ASSUME NEW key \in Hosted
  PROVE  LET p == PnpmKey!parsePackageKey(key) IN
         p = PnpmKey!NoPackage \/ ~PnpmKey!NameGrammar(p.name)
<1>1. PICK host \in KeyHosts, n \in KeyNames, sep \in {"/", "@"}, v \in Versions :
        key = HostedKey(host, n, sep, v)
  <2>1. Hosted = {HostedKey(host, n, sep, v) : host \in KeyHosts, n \in KeyNames, sep \in {"/", "@"}, v \in Versions}
    BY DEF Hosted, HostedKey
  <2>2. key \in {HostedKey(host, n, sep, v) : host \in KeyHosts, n \in KeyNames, sep \in {"/", "@"}, v \in Versions}
    BY <2>1
  <2> QED BY <2>2
<1> DEFINE h == <<host, "/">>
           t == <<sep, v>>
<1>2. /\ h \in Lines /\ Len(h) = 2 /\ h[1] = host /\ h[2] = "/"
      /\ host # "/" /\ host # "@" /\ host # "("
  <2>1. host \in Tokens /\ host # "/" /\ host # "@" /\ host # "("
    BY KeyTokens
  <2> QED BY <2>1, Apart, Two DEF Lines
<1>3. t \in Lines /\ Len(t) = 2 /\ t[1] # "(" /\ t[2] # "("
  <2>1. v \in Tokens /\ v # "("
    BY KeyTokens
  <2>2. sep \in Tokens /\ sep # "("
    BY Apart
  <2> QED BY <2>1, <2>2, Two DEF Lines
<1> HIDE DEF h, t
<1>4. n \in Lines /\ \A i \in 1..Len(n) : n[i] # "("
  BY NameIs
<1>5. /\ h \o n \in Lines /\ Len(n) \in Nat /\ Len(h \o n) = 2 + Len(n)
      /\ \A i \in 1..Len(h) : (h \o n)[i] = h[i]
      /\ \A i \in 1..Len(n) : (h \o n)[Len(h) + i] = n[i]
  BY <1>2, <1>4, Joined
<1>6. /\ key \in Lines /\ Len(key) = Len(h \o n) + 2
      /\ \A i \in 1..Len(h \o n) : key[i] = (h \o n)[i]
      /\ \A i \in 1..Len(t) : key[Len(h \o n) + i] = t[i]
  <2> DEFINE m == h \o n
  <2>1. m \in Lines
    BY <1>5
  <2>2. key = m \o t
    BY <1>1 DEF HostedKey, h, t
  <2> HIDE DEF m
  <2>3. /\ key \in Lines /\ Len(key) = Len(m) + Len(t)
        /\ \A i \in 1..Len(m) : key[i] = m[i]
        /\ \A i \in 1..Len(t) : key[Len(m) + i] = t[i]
    BY <1>3, <2>1, <2>2, Joined
  <2> QED BY <1>3, <2>3 DEF m
<1> DEFINE m == h \o n
<1>7. /\ Len(m) = 2 + Len(n) /\ Len(key) = 4 + Len(n) /\ m[1] = host /\ m[2] = "/"
      /\ \A i \in 1..Len(n) : m[2 + i] = n[i]
  BY <1>2, <1>5, <1>6
<1>8. (\A i \in 1..Len(m) : key[i] = m[i]) /\ \A i \in 1..2 : key[Len(m) + i] = t[i]
  BY <1>3, <1>6
<1> HIDE DEF m
<1>9. key[1] = host /\ key[2] = "/" /\ Len(key) >= 2
  BY <1>5, <1>7, <1>8
<1>10. ASSUME NEW i \in 1..Len(key) PROVE key[i] # "("
  <2>1. CASE i = 1 \/ i = 2
    BY <1>2, <1>9, <2>1, Apart
  <2>2. CASE i > 2 /\ i <= Len(m)
    <3>1. i - 2 \in 1..Len(n) /\ i \in 1..Len(m) /\ 2 + (i - 2) = i
      BY <1>5, <1>7, <2>2
    <3>2. key[i] = n[i - 2]
      BY <1>7, <1>8, <3>1
    <3> QED BY <1>4, <3>1, <3>2
  <2>3. CASE i > Len(m)
    <3>1. i - Len(m) = 1 \/ i - Len(m) = 2
      BY <1>5, <1>7, <2>3
    <3>2. i = Len(m) + (i - Len(m))
      BY <1>5, <1>7
    <3>3. i - Len(m) \in 1..2 /\ key[i] = t[i - Len(m)]
      BY <1>8, <3>1, <3>2
    <3> QED BY <1>3, <3>1, <3>3
  <2> QED BY <1>5, <1>7, <2>1, <2>2, <2>3
<1> QED BY <1>2, <1>6, <1>9, <1>10, HostFirst

(* A package is read exactly when it has a name and its value is a mapping. *)
LEMMA ReadableIs ==
  ASSUME NEW p \in Packages, NEW value
  PROVE  /\ PnpmKey!Readable(p.key, value) <=> p.name # <<>> /\ value.mapping
         /\ p.name # <<>> => PnpmKey!parsePackageKey(p.key) = [name |-> p.name, version |-> p.version]
<1>1. CASE \E key \in Hosted : p = [key |-> key, name |-> <<>>, version |-> <<>>]
  <2>1. p.key \in Hosted /\ p.name = <<>>
    BY <1>1
  <2>2. LET q == PnpmKey!parsePackageKey(p.key) IN q = PnpmKey!NoPackage \/ ~PnpmKey!NameGrammar(q.name)
    BY <2>1, HostedUnread
  <2> QED BY <2>1, <2>2 DEF PnpmKey!Readable
<1>2. ASSUME NEW n \in KeyNames, NEW v \in KeyVersions, NEW q \in KeyPeers, NEW key \in Spellings(n, v, q),
             p = [key |-> key, name |-> n, version |-> v]
      PROVE  /\ PnpmKey!Readable(p.key, value) <=> p.name # <<>> /\ value.mapping
             /\ p.name # <<>> => PnpmKey!parsePackageKey(p.key) = [name |-> p.name, version |-> p.version]
  <2>1. PnpmKey!parsePackageKey(key) = [name |-> n, version |-> v]
    BY SpellingsRead
  <2>2. p.key = key /\ p.name = n /\ p.version = v
    BY <1>2
  <2>3. n # <<>> /\ PnpmKey!NameGrammar(n)
    <3>1. Len(n) # 0
      BY NameLength
    <3> QED BY <3>1, NamesAreGrammatical, EmptySeq
  <2>4. PnpmKey!parsePackageKey(key) # PnpmKey!NoPackage
    BY <2>1, <2>3 DEF PnpmKey!NoPackage
  <2>5. PnpmKey!parsePackageKey(key).name = n
    BY <2>1
  <2> QED BY <2>1, <2>2, <2>3, <2>4, <2>5 DEF PnpmKey!Readable
<1>3. \/ \E key \in Hosted : p = [key |-> key, name |-> <<>>, version |-> <<>>]
      \/ \E n \in KeyNames, v \in KeyVersions, q \in KeyPeers : \E key \in Spellings(n, v, q) :
           p = [key |-> key, name |-> n, version |-> v]
  BY DEF Packages
<1> QED BY <1>1, <1>2, <1>3

(* An entry is its four fields, and lockEntriesEqual compares all of them. *)
IsEntry(e) == e = [version |-> e.version, url |-> e.url, integrity |-> e.integrity, script |-> e.script]

(* Every entry read is one.                                                *)
LEMMA EntriesAreFields ==
  ASSUME NEW value, NEW version
  PROVE  IsEntry(PnpmKey!entryFromPackageValue(value, version))
BY DEF IsEntry, PnpmKey!entryFromPackageValue

(* So equal entries are the same entry.                                    *)
LEMMA EqualIsSame ==
  ASSUME NEW a, NEW b, IsEntry(a), IsEntry(b)
  PROVE  PnpmKey!lockEntriesEqual(a, b) <=> a = b
BY DEF IsEntry, PnpmKey!lockEntriesEqual

(* A list that holds every entry of a set once.                            *)
Lists(seq, S) ==
  /\ seq \in Seq(S)
  /\ \A e \in S : \E i \in 1..Len(seq) : seq[i] = e
  /\ \A i, j \in 1..Len(seq) : seq[i] = seq[j] => i = j

(* The empty list, ...                                                     *)
LEMMA ListsNothing == Lists(<<>>, {})
BY EmptySeq DEF Lists

(* ... the length of a list, ...                                           *)
LEMMA ListsCount ==
  ASSUME NEW seq, NEW S, Lists(seq, S)
  PROVE  {seq[i] : i \in DOMAIN seq} = S /\ Len(seq) = Cardinality(S)
<1>1. seq \in Seq(S) /\ DOMAIN seq = 1..Len(seq) /\ Len(seq) \in Nat
  BY DEF Lists
<1>2. {seq[i] : i \in DOMAIN seq} = S
  <2>1. \A i \in 1..Len(seq) : seq[i] \in S
    BY <1>1
  <2> QED BY <1>1, <2>1 DEF Lists
<1>3. seq \in [1..Len(seq) -> S]
  BY <1>1
<1>4. seq \in Bijection(1..Len(seq), S)
  BY <1>3 DEF Lists, Bijection, Injection, Surjection, IsInjective
<1>5. ExistsBijection(1..Len(seq), S)
  BY <1>4 DEF ExistsBijection
<1> QED BY <1>1, <1>2, <1>5, FS_CountingElements

(* ... and what the merge of one more entry leaves.                        *)
LEMMA AppendedOnce ==
  ASSUME NEW seq, NEW S, Lists(seq, S), NEW e, IsEntry(e), \A f \in S : IsEntry(f)
  PROVE  Lists(PnpmKey!Append1(seq, e), S \union {e})
<1>1. seq \in Seq(S) /\ DOMAIN seq = 1..Len(seq) /\ Len(seq) \in Nat /\ \A i \in 1..Len(seq) : seq[i] \in S
  BY DEF Lists
<1>2. (\E i \in DOMAIN seq : PnpmKey!lockEntriesEqual(seq[i], e)) <=> e \in S
  <2>1. \A i \in 1..Len(seq) : PnpmKey!lockEntriesEqual(seq[i], e) <=> seq[i] = e
    BY <1>1, EqualIsSame
  <2> QED BY <1>1, <2>1 DEF Lists
<1>3. CASE e \in S
  <2>1. PnpmKey!Append1(seq, e) = seq
    BY <1>2, <1>3 DEF PnpmKey!Append1
  <2>2. S \union {e} = S
    BY <1>3
  <2> QED BY <2>1, <2>2
<1>4. CASE e \notin S
  <2> DEFINE T == S \union {e}
             longer == Append(seq, e)
  <2>1. PnpmKey!Append1(seq, e) = longer
    BY <1>2, <1>4 DEF PnpmKey!Append1
  <2>2. seq \in Seq(T) /\ e \in T
    BY <1>1
  <2> HIDE DEF T
  <2>3. /\ longer \in Seq(T) /\ Len(longer) = Len(seq) + 1
        /\ \A i \in 1..Len(seq) : longer[i] = seq[i]
        /\ longer[Len(seq) + 1] = e
    BY <2>2, AppendProperties
  <2> HIDE DEF longer
  <2>4. \A f \in T : \E i \in 1..Len(longer) : longer[i] = f
    <3> SUFFICES ASSUME NEW f \in T PROVE \E i \in 1..Len(longer) : longer[i] = f
      OBVIOUS
    <3>1. CASE f = e
      <4>1. Len(seq) + 1 \in 1..Len(longer)
        BY <1>1, <2>3
      <4> QED BY <2>3, <3>1, <4>1
    <3>2. CASE f # e
      <4>1. f \in S
        BY <3>2 DEF T
      <4>2. PICK i \in 1..Len(seq) : seq[i] = f
        BY <4>1 DEF Lists
      <4>3. i \in 1..Len(longer) /\ longer[i] = f
        BY <1>1, <2>3, <4>2
      <4> QED BY <4>3
    <3> QED BY <3>1, <3>2
  <2>5. ASSUME NEW i \in 1..Len(longer), NEW j \in 1..Len(longer), longer[i] = longer[j] PROVE i = j
    <3>1. \A k \in 1..Len(longer) : k = Len(seq) + 1 \/ k \in 1..Len(seq)
      BY <1>1, <2>3
    <3>2. \A k \in 1..Len(seq) : longer[k] = seq[k] /\ longer[k] # e
      BY <1>1, <1>4, <2>3
    <3>3. CASE i \in 1..Len(seq) /\ j \in 1..Len(seq)
      BY <2>5, <3>2, <3>3 DEF Lists
    <3>4. CASE i = Len(seq) + 1 /\ j = Len(seq) + 1
      BY <3>4
    <3>5. CASE i = Len(seq) + 1 /\ j \in 1..Len(seq)
      BY <2>3, <2>5, <3>2, <3>5
    <3>6. CASE i \in 1..Len(seq) /\ j = Len(seq) + 1
      BY <2>3, <2>5, <3>2, <3>6
    <3> QED BY <3>1, <3>3, <3>4, <3>5, <3>6
  <2>6. Lists(longer, T)
    BY <2>3, <2>4, <2>5 DEF Lists
  <2> QED BY <2>1, <2>6 DEF T
<1> QED BY <1>3, <1>4

(* What the first n packages of a section leave behind.                    *)
Rows(w) == {<<w[i][1].key, w[i][2]>> : i \in DOMAIN w}
TakenOf(w, n) == {i \in Taken(w) : i <= n}
EntryAt(w, i) == PnpmKey!entryFromPackageValue(w[i][2], w[i][1].version)
NamedOf(w, n, name) == {i \in TakenOf(w, n) : w[i][1].name = name}
EntriesOf(w, n, name) == {EntryAt(w, i) : i \in NamedOf(w, n, name)}

ReadSoFar(n) ==
  /\ section \in Seq(Rows(written)) /\ Len(section) = Len(written) - n
  /\ \A i \in 1..Len(section) : section[i] = <<written[n + i][1].key, written[n + i][2]>>
  /\ DOMAIN entries = {written[i][1].name : i \in TakenOf(written, n)}
  /\ \A name \in DOMAIN entries : Lists(entries[name], EntriesOf(written, n, name))
  /\ skipped = {written[i][1].key : i \in (1..n) \ Taken(written)}

KeysInv == written \in Written /\ \E n \in 0..Len(written) : ReadSoFar(n)

(* What a section is written from.                                         *)
LEMMA WrittenIs ==
  ASSUME NEW w \in Written
  PROVE  /\ Len(w) \in Nat /\ DOMAIN w = 1..Len(w)
         /\ \A i \in 1..Len(w) : w[i][1] \in Packages /\ w[i][2].mapping \in BOOLEAN
<1>1. w \in Seq(Packages \X KeyValues)
  BY KeysAssumption DEF KeysConstants
<1>2. \A i \in 1..Len(w) : w[i][1] \in Packages /\ w[i][2] \in KeyValues
  BY <1>1
<1>3. \A v \in KeyValues : v.mapping \in BOOLEAN
  BY KeysAssumption DEF KeysConstants
<1> QED BY <1>1, <1>2, <1>3

(* The invariant holds at the start, ...                                   *)
LEMMA KeysStart == KeysInit => KeysInv
<1> SUFFICES ASSUME KeysInit PROVE KeysInv
  OBVIOUS
<1>1. written \in Written /\ section = KeysOf(written) /\ entries = [name \in {} |-> <<>>] /\ skipped = {}
  BY DEF KeysInit
<1>2. Len(written) \in Nat /\ DOMAIN written = 1..Len(written)
  BY <1>1, WrittenIs
<1>3. section = [i \in 1..Len(written) |-> <<written[i][1].key, written[i][2]>>]
  BY <1>1, <1>2 DEF KeysOf
<1>4. \A i \in 1..Len(written) : section[i] = <<written[i][1].key, written[i][2]>>
  BY <1>3
<1>5. section \in [1..Len(written) -> Rows(written)]
  BY <1>2, <1>3 DEF Rows
<1>6. section \in Seq(Rows(written)) /\ Len(section) = Len(written)
  BY <1>2, <1>5
<1>7. TakenOf(written, 0) = {}
  BY <1>2 DEF TakenOf, Taken
<1>8. DOMAIN entries = {}
  BY <1>1
<1>9. Len(section) = Len(written) - 0 /\ \A i \in 1..Len(section) : 0 + i = i
  BY <1>2, <1>6
<1>10. \A i \in 1..Len(section) : section[i] = <<written[0 + i][1].key, written[0 + i][2]>>
  BY <1>4, <1>6, <1>9
<1>11. (1..0) \ Taken(written) = {}
  OBVIOUS
<1>12. ReadSoFar(0)
  BY <1>1, <1>6, <1>7, <1>8, <1>9, <1>10, <1>11 DEF ReadSoFar
<1>13. 0 \in 0..Len(written)
  BY <1>2
<1> QED BY <1>1, <1>12, <1>13 DEF KeysInv

(* The next package in the section.                                        *)
LEMMA NextRow ==
  ASSUME written \in Written, NEW n \in 0..Len(written), ReadSoFar(n), section # <<>>
  PROVE  /\ n + 1 \in 0..Len(written) /\ n + 1 \in 1..Len(written)
         /\ section[1] = <<written[n + 1][1].key, written[n + 1][2]>>
         /\ Tail(section) \in Seq(Rows(written)) /\ Len(Tail(section)) = Len(written) - (n + 1)
         /\ \A i \in 1..Len(Tail(section)) :
              Tail(section)[i] = <<written[n + 1 + i][1].key, written[n + 1 + i][2]>>
<1>1. section \in Seq(Rows(written)) /\ Len(section) = Len(written) - n /\ Len(written) \in Nat
  BY WrittenIs DEF ReadSoFar
<1>2. Len(section) \in Nat \ {0}
  BY <1>1, EmptySeq
<1>3. n + 1 \in 0..Len(written) /\ n + 1 \in 1..Len(written) /\ 1 \in 1..Len(section)
  BY <1>1, <1>2
<1>4. /\ Tail(section) \in Seq(Rows(written)) /\ Len(Tail(section)) = Len(section) - 1
      /\ \A i \in 1..Len(Tail(section)) : Tail(section)[i] = section[i + 1]
  BY <1>1, HeadTailProperties
<1>5. \A i \in 1..Len(section) : section[i] = <<written[n + i][1].key, written[n + i][2]>>
  BY DEF ReadSoFar
<1>6. ASSUME NEW i \in 1..Len(Tail(section))
      PROVE  Tail(section)[i] = <<written[n + 1 + i][1].key, written[n + 1 + i][2]>>
  <2>1. i + 1 \in 1..Len(section) /\ n + (i + 1) = n + 1 + i
    BY <1>1, <1>4
  <2>2. section[i + 1] = <<written[n + (i + 1)][1].key, written[n + (i + 1)][2]>>
    BY <1>5, <2>1
  <2> QED BY <1>4, <2>1, <2>2
<1>7. Len(Tail(section)) = Len(written) - (n + 1)
  BY <1>1, <1>4
<1> QED BY <1>3, <1>4, <1>5, <1>6, <1>7

(* ... a package that is not read is named, ...                            *)
LEMMA SkipKeeps ==
  ASSUME written \in Written, NEW n \in 0..Len(written), ReadSoFar(n), PnpmKey!Skip, written' = written
  PROVE  n + 1 \in 0..Len(written) /\ ReadSoFar(n + 1)'
<1> DEFINE k == n + 1
           p == written[k][1]
           value == written[k][2]
<1>1. /\ section # <<>> /\ ~PnpmKey!Readable(section[1][1], section[1][2])
      /\ skipped' = skipped \union {section[1][1]} /\ section' = Tail(section) /\ entries' = entries
  BY DEF PnpmKey!Skip
<1>2. /\ k \in 0..Len(written) /\ k \in 1..Len(written)
      /\ section[1] = <<p.key, value>>
      /\ Tail(section) \in Seq(Rows(written)) /\ Len(Tail(section)) = Len(written) - k
      /\ \A i \in 1..Len(Tail(section)) : Tail(section)[i] = <<written[k + i][1].key, written[k + i][2]>>
  BY <1>1, NextRow
<1>3. p \in Packages /\ DOMAIN written = 1..Len(written)
  BY <1>2, WrittenIs
<1>4. ~PnpmKey!Readable(p.key, value) /\ skipped' = skipped \union {p.key}
  BY <1>1, <1>2
<1>5. k \notin Taken(written)
  <2>1. ~(p.name # <<>> /\ value.mapping)
    BY <1>3, <1>4, ReadableIs
  <2> QED BY <2>1 DEF Taken
<1>6. n \in Nat /\ k = n + 1
  BY <1>2
<1> HIDE DEF k
<1>7. TakenOf(written, k) = TakenOf(written, n)
  <2>1. ASSUME NEW i \in Taken(written) PROVE i <= k <=> i <= n
    <3>1. i # k /\ i \in Nat
      BY <1>3, <1>5 DEF Taken
    <3> QED BY <1>6, <3>1
  <2> QED BY <2>1 DEF TakenOf
<1>8. skipped' = {written[i][1].key : i \in (1..k) \ Taken(written)}
  <2>1. (1..k) \ Taken(written) = ((1..n) \ Taken(written)) \union {k}
    BY <1>5, <1>6
  <2>2. skipped = {written[i][1].key : i \in (1..n) \ Taken(written)}
    BY DEF ReadSoFar
  <2> QED BY <1>4, <2>1, <2>2
<1>9. /\ DOMAIN entries = {written[i][1].name : i \in TakenOf(written, k)}
      /\ \A name \in DOMAIN entries : Lists(entries[name], EntriesOf(written, k, name))
  <2>1. \A name \in DOMAIN entries : EntriesOf(written, k, name) = EntriesOf(written, n, name)
    BY <1>7 DEF EntriesOf, NamedOf
  <2> QED BY <1>7, <2>1 DEF ReadSoFar
<1>10. ReadSoFar(k)'
  BY <1>1, <1>2, <1>8, <1>9 DEF ReadSoFar
<1> QED BY <1>2, <1>10 DEF k

(* ... one that is read is listed once under its name, ...                 *)
LEMMA ReadKeeps ==
  ASSUME written \in Written, NEW n \in 0..Len(written), ReadSoFar(n), PnpmKey!Read, written' = written
  PROVE  n + 1 \in 0..Len(written) /\ ReadSoFar(n + 1)'
<1> DEFINE k == n + 1
           p == written[k][1]
           value == written[k][2]
           entry == EntryAt(written, k)
           listed == IF p.name \in DOMAIN entries THEN entries[p.name] ELSE <<>>
<1>1. /\ section # <<>> /\ PnpmKey!Readable(section[1][1], section[1][2])
      /\ section' = Tail(section) /\ skipped' = skipped
  BY DEF PnpmKey!Read
<1>2. /\ k \in 0..Len(written) /\ k \in 1..Len(written)
      /\ section[1] = <<p.key, value>>
      /\ Tail(section) \in Seq(Rows(written)) /\ Len(Tail(section)) = Len(written) - k
      /\ \A i \in 1..Len(Tail(section)) : Tail(section)[i] = <<written[k + i][1].key, written[k + i][2]>>
  BY <1>1, NextRow
<1>3. p \in Packages /\ DOMAIN written = 1..Len(written)
  BY <1>2, WrittenIs
<1>4. section[1][1] = p.key /\ section[1][2] = value
  BY <1>2
<1>5. p.name # <<>> /\ value.mapping /\ PnpmKey!parsePackageKey(p.key) = [name |-> p.name, version |-> p.version]
  <2>1. PnpmKey!Readable(p.key, value)
    BY <1>1, <1>4
  <2> HIDE DEF p, value
  <2> QED BY <1>3, <2>1, ReadableIs
<1>6. entries' = [name \in DOMAIN entries \union {p.name} |->
                    IF name = p.name THEN PnpmKey!Append1(listed, entry) ELSE entries[name]]
  <2> DEFINE split == PnpmKey!parsePackageKey(section[1][1])
  <2>1. split.name = p.name /\ split.version = p.version
    BY <1>4, <1>5
  <2>2. entries' = [name \in DOMAIN entries \union {split.name} |->
                      IF name = split.name
                      THEN PnpmKey!Append1(IF split.name \in DOMAIN entries THEN entries[split.name] ELSE <<>>,
                                           PnpmKey!entryFromPackageValue(section[1][2], split.version))
                      ELSE entries[name]]
    BY DEF PnpmKey!Read
  <2>3. entry = PnpmKey!entryFromPackageValue(section[1][2], split.version)
    BY <1>4, <2>1 DEF EntryAt
  <2> HIDE DEF split, entry, p
  <2> QED BY <2>1, <2>2, <2>3
<1>7. k \in Taken(written)
  BY <1>2, <1>3, <1>5 DEF Taken
<1>8. n \in Nat /\ k = n + 1
  BY <1>2
<1> HIDE DEF k
<1>9. TakenOf(written, k) = TakenOf(written, n) \union {k} /\ k \notin TakenOf(written, n)
  <2>1. ASSUME NEW i \in Taken(written) PROVE i <= k <=> i <= n \/ i = k
    <3>1. i \in Nat
      BY <1>3 DEF Taken
    <3> QED BY <1>8, <3>1
  <2>2. k <= k /\ ~(k <= n)
    BY <1>8
  <2> QED BY <1>7, <2>1, <2>2 DEF TakenOf
<1>10. skipped' = {written[i][1].key : i \in (1..k) \ Taken(written)}
  <2>1. (1..k) \ Taken(written) = (1..n) \ Taken(written)
    BY <1>7, <1>8
  <2>2. skipped = {written[i][1].key : i \in (1..n) \ Taken(written)}
    BY DEF ReadSoFar
  <2> QED BY <1>1, <2>1, <2>2
<1>11. EntriesOf(written, k, p.name) = EntriesOf(written, n, p.name) \union {entry}
  <2>1. NamedOf(written, k, p.name) = NamedOf(written, n, p.name) \union {k}
    BY <1>9 DEF NamedOf
  <2> QED BY <2>1 DEF EntriesOf
<1>12. ASSUME NEW name, name # p.name PROVE EntriesOf(written, k, name) = EntriesOf(written, n, name)
  <2>1. NamedOf(written, k, name) = NamedOf(written, n, name)
    BY <1>9, <1>12 DEF NamedOf
  <2> QED BY <2>1 DEF EntriesOf
<1>13. DOMAIN entries' = {written[i][1].name : i \in TakenOf(written, k)}
  <2>1. DOMAIN entries = {written[i][1].name : i \in TakenOf(written, n)}
    BY DEF ReadSoFar
  <2>2. DOMAIN entries' = DOMAIN entries \union {p.name}
    BY <1>6
  <2> QED BY <1>9, <2>1, <2>2
<1>14. Lists(listed, EntriesOf(written, n, p.name))
  <2>1. CASE p.name \in DOMAIN entries
    BY <2>1 DEF ReadSoFar
  <2>2. CASE p.name \notin DOMAIN entries
    <3>1. NamedOf(written, n, p.name) = {}
      BY <2>2 DEF ReadSoFar, NamedOf
    <3>2. EntriesOf(written, n, p.name) = {}
      BY <3>1 DEF EntriesOf
    <3> QED BY <2>2, <3>2, ListsNothing
  <2> QED BY <2>1, <2>2
<1>15. Lists(PnpmKey!Append1(listed, entry), EntriesOf(written, k, p.name))
  <2>1. IsEntry(entry) /\ \A f \in EntriesOf(written, n, p.name) : IsEntry(f)
    BY EntriesAreFields DEF EntryAt, EntriesOf
  <2> HIDE DEF listed, entry
  <2> QED BY <1>11, <1>14, <2>1, AppendedOnce
<1>16. ASSUME NEW name \in DOMAIN entries' PROVE Lists(entries'[name], EntriesOf(written, k, name))
  <2>1. name \in DOMAIN entries \union {p.name}
    BY <1>6
  <2>2. CASE name = p.name
    <3>1. entries'[name] = PnpmKey!Append1(listed, entry)
      BY <1>6, <2>2
    <3> QED BY <1>15, <2>2, <3>1
  <2>3. CASE name # p.name
    <3>1. name \in DOMAIN entries /\ entries'[name] = entries[name]
      BY <1>6, <2>1, <2>3
    <3>2. Lists(entries[name], EntriesOf(written, n, name))
      BY <3>1 DEF ReadSoFar
    <3> QED BY <1>12, <2>3, <3>1, <3>2
  <2> QED BY <2>2, <2>3
<1> HIDE DEF listed, entry, p, value
<1>17. ReadSoFar(k)'
  BY <1>1, <1>2, <1>10, <1>13, <1>16 DEF ReadSoFar
<1> QED BY <1>2, <1>17 DEF k

(* ... so every step keeps the invariant.                                  *)
LEMMA KeysStepInv ==
  ASSUME KeysInv, PnpmKey!Next, written' = written
  PROVE  KeysInv'
<1>1. PICK n \in 0..Len(written) : ReadSoFar(n)
  BY DEF KeysInv
<1>2. written \in Written
  BY DEF KeysInv
<1>3. n + 1 \in 0..Len(written) /\ ReadSoFar(n + 1)'
  BY <1>1, <1>2, SkipKeeps, ReadKeeps DEF PnpmKey!Next
<1> QED BY <1>2, <1>3 DEF KeysInv

(* At the end of the section everything has been read back.                *)
LEMMA KeysAllRead == ASSUME KeysInv PROVE ReadsBackWhatWasWritten
<1> SUFFICES ASSUME section = <<>>
             PROVE  /\ DOMAIN entries = {written[i][1].name : i \in Taken(written)}
                    /\ \A name \in DOMAIN entries :
                         LET expected == {PnpmKey!entryFromPackageValue(written[i][2], written[i][1].version) :
                                            i \in {j \in Taken(written) : written[j][1].name = name}}
                         IN  /\ {entries[name][i] : i \in DOMAIN entries[name]} = expected
                             /\ Len(entries[name]) = Cardinality(expected)
                    /\ skipped = {written[i][1].key : i \in DOMAIN written \ Taken(written)}
  BY DEF ReadsBackWhatWasWritten
<1>1. PICK n \in 0..Len(written) : ReadSoFar(n)
  BY DEF KeysInv
<1>2. Len(written) \in Nat /\ DOMAIN written = 1..Len(written)
  BY WrittenIs DEF KeysInv
<1>3. n = Len(written)
  <2>1. Len(section) = 0 /\ Len(section) = Len(written) - n
    BY <1>1, EmptySeq DEF ReadSoFar
  <2>2. n \in Nat
    BY <1>1, <1>2
  <2> DEFINE l == Len(written)
             k == Len(section)
  <2>3. l \in Nat /\ k = 0 /\ k = l - n
    BY <1>2, <2>1
  <2> HIDE DEF l, k
  <2>4. n = l
    BY <2>2, <2>3
  <2> QED BY <2>4 DEF l
<1>4. TakenOf(written, n) = Taken(written)
  BY <1>2, <1>3 DEF TakenOf, Taken
<1>5. ASSUME NEW name \in DOMAIN entries
      PROVE  /\ {entries[name][i] : i \in DOMAIN entries[name]} = EntriesOf(written, n, name)
             /\ Len(entries[name]) = Cardinality(EntriesOf(written, n, name))
  BY <1>1, ListsCount DEF ReadSoFar
<1>6. ASSUME NEW name
      PROVE  EntriesOf(written, n, name) =
               {PnpmKey!entryFromPackageValue(written[i][2], written[i][1].version) :
                  i \in {j \in Taken(written) : written[j][1].name = name}}
  BY <1>4 DEF EntriesOf, NamedOf, EntryAt
<1>7. DOMAIN entries = {written[i][1].name : i \in Taken(written)}
  BY <1>1, <1>4 DEF ReadSoFar
<1>8. skipped = {written[i][1].key : i \in DOMAIN written \ Taken(written)}
  BY <1>1, <1>2, <1>3 DEF ReadSoFar
<1> QED BY <1>5, <1>6, <1>7, <1>8

(***************************************************************************)
(* The theorems: each subject keeps its invariant, and the others leave    *)
(* its variables alone.                                                    *)
(***************************************************************************)
allVars == <<subject, documentVars, keyVars, tamperVars, historyVars>>

(* A step is one of its subject or leaves the variables of that alone.     *)
LEMMA SubjectSteps ==
  ASSUME [MCNext]_allVars
  PROVE  /\ subject' = subject
         /\ subject = "documents" => Next \/ UNCHANGED documentVars
         /\ subject = "keys" => (PnpmKey!Next /\ written' = written) \/ UNCHANGED keyVars
         /\ subject = "tamper" => Tamper!Next \/ UNCHANGED tamperVars
         /\ subject = "history" => History!Next \/ UNCHANGED historyVars
BY DEF MCNext, DocumentStep, KeyStep, TamperStep, HistoryStep, allVars

(* The invariants survive both kinds of step.                              *)
LEMMA DocumentKept ==
  ASSUME DocumentInv, Next \/ UNCHANGED documentVars PROVE DocumentInv'
<1>1. CASE Next
  BY <1>1, DocumentStepInv
<1>2. CASE UNCHANGED documentVars
  <2>1. base' = base /\ head' = head /\ nested' = nested /\ verdict' = verdict /\ changes' = changes
    BY <1>2 DEF documentVars
  <2>2. LockEntryChanges(head)' = LockEntryChanges(head)
    BY <2>1 DEF LockEntryChanges, CounterpartOf, ProjectEntries
  <2>3. ChangedSkippedDocuments(head)' = ChangedSkippedDocuments(head)
    BY <2>1 DEF ChangedSkippedDocuments, ProjectEntries
  <2> QED BY <2>1, <2>2, <2>3 DEF DocumentInv
<1> QED BY <1>1, <1>2

(* The same of the keys, ...                                               *)
LEMMA KeysKept ==
  ASSUME KeysInv, (PnpmKey!Next /\ written' = written) \/ UNCHANGED keyVars PROVE KeysInv'
<1>1. CASE PnpmKey!Next /\ written' = written
  BY <1>1, KeysStepInv
<1>2. CASE UNCHANGED keyVars
  <2>1. written' = written /\ section' = section /\ entries' = entries /\ skipped' = skipped
    BY <1>2 DEF keyVars
  <2>2. PICK n \in 0..Len(written) : ReadSoFar(n)
    BY DEF KeysInv
  <2>3. ReadSoFar(n)'
    BY <2>1, <2>2 DEF ReadSoFar
  <2>4. written' \in Written /\ n \in 0..Len(written')
    BY <2>1, <2>2 DEF KeysInv
  <2> QED BY <2>3, <2>4 DEF KeysInv
<1> QED BY <1>1, <1>2

(* ... of the tamper check, ...                                            *)
LEMMA TamperKept ==
  ASSUME TamperInv, Tamper!Next \/ UNCHANGED tamperVars PROVE TamperInv'
BY TamperStepInv DEF tamperVars, Tamper!vars

(* ... and of the history.                                                 *)
LEMMA HistoryKept ==
  ASSUME HistoryInv, History!Next \/ UNCHANGED historyVars PROVE HistoryInv'
<1>1. CASE History!Next
  BY <1>1, HistoryStepInv
<1>2. CASE UNCHANGED historyVars
  <2>1. branch' = branch /\ older' = older /\ pr' = pr /\ vouched' = vouched /\ owed' = owed
    BY <1>2 DEF historyVars
  <2> QED BY <2>1 DEF HistoryInv, HistoryTyped, History!CoverageIsVouched,
                      History!UnreadBytesAreVouched, History!OwedCoverageIsKept
<1> QED BY <1>1, <1>2

(* No package a pull request adds to a pnpm lockfile, in any of its        *)
(* documents, escapes judgment without the scan saying what it left out,   *)
(* for any documents and streams of them (pnpm.ts:436-627).                *)
THEOREM DocumentsNothingSlipsIn == MCSpec => []PnpmNothingSlipsIn
<1> DEFINE Inv == subject = "documents" => DocumentInv
<1>1. MCInit => Inv
  BY DocumentStart DEF MCInit
<1>2. Inv /\ [MCNext]_allVars => Inv'
  BY SubjectSteps, DocumentKept
<1>3. Inv => PnpmNothingSlipsIn
  BY DocumentsSafe DEF PnpmNothingSlipsIn
<1> QED BY <1>1, <1>2, <1>3, PTL DEF MCSpec, allVars

(* Once the packages section is read, the entries are those of the         *)
(* packages it was written from, each under its own name and version, and  *)
(* every other package is named in a diagnostic (pnpm.ts:261, 615-621),    *)
(* for any tokens, names, versions, peers, values and order of packages.   *)
THEOREM KeysReadBack == MCSpec => []ReadsBackWhatWasWritten
<1> DEFINE Inv == subject = "keys" => KeysInv
<1>1. MCInit => Inv
  BY KeysStart DEF MCInit
<1>2. Inv /\ [MCNext]_allVars => Inv'
  BY SubjectSteps, KeysKept
<1>3. Inv => ReadsBackWhatWasWritten
  BY KeysAllRead DEF ReadsBackWhatWasWritten
<1> QED BY <1>1, <1>2, <1>3, PTL DEF MCSpec, allVars

(* The worst of what is raised is held; the order of the earlier entries   *)
(* decides only how a signal they raise at several severities is reported; *)
(* and what is critical against each of them is reported at high or worse  *)
(* (tamper.ts, delta.ts, agreement.ts), for any inputs, registry and forge *)
(* hosts.                                                                  *)
THEOREM TamperIsAlwaysSeen == MCSpec => []TamperIsSeen
<1> DEFINE Inv == subject = "tamper" => TamperInv
<1>1. MCInit => Inv
  BY TamperStart DEF MCInit
<1>2. Inv /\ [MCNext]_allVars => Inv'
  BY SubjectSteps, TamperKept
<1>3. Inv => TamperIsSeen
  BY CriticalSeen, OrderIrrelevant DEF TamperIsSeen, Tamper!TamperIsSeen, TamperInv
<1> QED BY <1>1, <1>2, <1>3, PTL DEF MCSpec, allVars

(* Silence about a registry entry at a held version means that an earlier  *)
(* entry accounts for it, for any inputs, registry and forge hosts.        *)
THEOREM SilenceIsAlwaysAccountedFor == MCSpec => []SilenceIsAccountedFor
<1> DEFINE Inv == subject = "tamper" => TamperInv
<1>1. MCInit => Inv
  BY TamperStart DEF MCInit
<1>2. Inv /\ [MCNext]_allVars => Inv'
  BY SubjectSteps, TamperKept
<1>3. Inv => SilenceIsAccountedFor
  BY SilenceAccounted DEF SilenceIsAccountedFor
<1> QED BY <1>1, <1>2, <1>3, PTL DEF MCSpec, allVars

(* Every unread byte of a lockfile on the base branch was vouched for by a *)
(* merge that saw it, and coverage that was owed is kept, whatever the     *)
(* tree of directories, the lockfiles and the number of merges.            *)
THEOREM CoverageIsAlwaysVouched == MCSpec => []CoverageIsVouched
<1> DEFINE Inv == subject = "history" => HistoryInv
<1>1. MCInit => Inv
  BY HistoryStart DEF MCInit
<1>2. Inv /\ [MCNext]_allVars => Inv'
  BY SubjectSteps, HistoryKept
<1>3. Inv => CoverageIsVouched
  BY DEF CoverageIsVouched, HistoryInv
<1> QED BY <1>1, <1>2, <1>3, PTL DEF MCSpec, allVars

(* A refusal's own remedy works: with the entries it asks for              *)
(* acknowledged, no side of the pull request refuses it again.             *)
THEOREM RemedyAlwaysWorks == MCSpec => []RemedyWorks
<1>1. RemedyWorks
  BY RemedyAlways DEF RemedyWorks, History!RemedyWorks
<1> QED BY <1>1, PTL
==============================================================================
