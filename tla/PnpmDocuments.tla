--------------------------- MODULE PnpmDocuments ---------------------------
(***************************************************************************)
(* A pnpm-lock.yaml is a stream of YAML documents (lockfiles/pnpm.ts).     *)
(* One is the project's lockfile, the others that are shaped like one are  *)
(* read under labels of their own, the rest stays unread and is kept as    *)
(* text.  Pull requests replace the stream; each is judged against the     *)
(* base's (delta.ts pairs the documents and refuses changed unread text)   *)
(* and merged only when the judgement does not refuse it.                  *)
(*                                                                         *)
(* A document says whether it is a mapping, whether it carries a           *)
(* lockfileVersion, what each importer records ("project": dependencies,   *)
(* "links": dependencies that are all link:, "manager": nothing besides    *)
(* packageManagerDependencies, "bare": nothing), and its packages: a set   *)
(* of <<name, resolution>>, or why there is none.                          *)
(***************************************************************************)
EXTENDS Naturals, Sequences, FiniteSets, FiniteSetsExt

CONSTANTS Documents,     \* the documents a stream can hold
          Streams,       \* the streams a pull request can write
          MaxDocuments,  \* the cap on the documents of one stream
          Absent, Null, NotAMapping,  \* what a section is when it is no mapping
          Gap            \* stands for the text of a document that was read

VARIABLES base,      \* the stream on the trust base
          head,      \* the stream of the open pull request
          nested,    \* the lockfile is below the repository root
          verdict,   \* "none", "refused" or "passed"
          changes    \* the lock entry changes of the last judgement
vars == <<base, head, nested, verdict, changes>>

ASSUME DocumentsAssumption ==
  /\ MaxDocuments \in Nat \ {0}
  /\ \A d \in Documents : d.importers \notin {Absent, NotAMapping} => DOMAIN d.importers /= {}
  /\ Streams \subseteq Seq(Documents) /\ Gap \notin Documents

Importers(d) == IF d.importers \in {Absent, NotAMapping} THEN {} ELSE DOMAIN d.importers

isSelfManagementDocument(d) ==
  Importers(d) /= {} /\ \A i \in Importers(d) : d.importers[i] = "manager"

isLockfileShaped(d) ==
  /\ d.version
  /\ d.importers /= NotAMapping
  /\ d.packages \notin {NotAMapping, Null}

(***************************************************************************)
(* The project's document: the only one, else the only one outside pnpm's  *)
(* own that has a "." importer, else the one with most importers.  The set *)
(* of candidates for it; the stream is refused unless there is one.        *)
(***************************************************************************)
Candidates(stream) == {i \in DOMAIN stream : ~isSelfManagementDocument(stream[i])}

Largest(stream) ==
  LET count(i) == Cardinality(Importers(stream[i]))
      withImporters == {i \in Candidates(stream) : count(i) > 0}
  IN  {i \in withImporters : \A j \in withImporters : count(j) <= count(i)}

ProjectChoice(stream) ==
  IF Len(stream) = 1 THEN {1}
  ELSE LET rooted == {i \in Candidates(stream) : "." \in Importers(stream[i])}
       IN  IF rooted /= {} THEN rooted ELSE Largest(stream)

Project(stream) == CHOOSE i \in ProjectChoice(stream) : TRUE

recordsOnlyLinks(d) ==
  d.importers /= NotAMapping /\ \A i \in Importers(d) : d.importers[i] /= "project"

\* "packages: null" is no packages when every dependency is a link.
Unreadable(d) ==
  \/ d.packages = NotAMapping
  \/ d.packages = Null /\ ~recordsOnlyLinks(d)

Entries(d) == IF d.packages \in {Absent, Null, NotAMapping} THEN {} ELSE d.packages

RefusedToParse(stream) ==
  \/ Len(stream) > MaxDocuments
  \/ \E i \in DOMAIN stream : ~stream[i].mapping
  \/ Cardinality(ProjectChoice(stream)) /= 1
  \/ \E i \in ProjectChoice(stream) : Unreadable(stream[i])

ReadIndexes(stream) ==
  {Project(stream)} \union {i \in DOMAIN stream : isLockfileShaped(stream[i]) /\ ~Unreadable(stream[i])}

\* The label of document i: its kind, and its place among its kind.
Label(stream, i) ==
  IF i = Project(stream) THEN <<"project", 1>>
  ELSE LET own == isSelfManagementDocument(stream[i])
       IN  <<IF own THEN "package-manager" ELSE "document",
             Cardinality({j \in 1..i : /\ j /= Project(stream)
                                       /\ isLockfileShaped(stream[j])
                                       /\ isSelfManagementDocument(stream[j]) = own})>>

\* The text outside every document that was read, or none.
Text(stream, read) == [i \in DOMAIN stream |-> IF i \in read THEN Gap ELSE stream[i]]

\* A mutation: the text after the last document that was read is left out.
UnreadTextBeforeLast(stream) ==
  LET read == ReadIndexes(stream) IN
  IF read = DOMAIN stream THEN <<>> ELSE SubSeq(Text(stream, read), 1, Max(read))
UnreadText(stream) ==
  LET read == ReadIndexes(stream) IN
  IF read = DOMAIN stream THEN <<>> ELSE Text(stream, read)

\* What parsePnpmLockfile makes of every stream it does not refuse.
Parsed ==
  [stream \in {s \in Streams : ~RefusedToParse(s)} |->
     [project |-> Project(stream),
      files   |-> {<<Label(stream, i), Entries(stream[i])>> : i \in ReadIndexes(stream)},
      unread  |-> UnreadText(stream)]]

ProjectEntries(stream) == Entries(stream[Parsed[stream].project])

(***************************************************************************)
(* delta.ts: the lockfile of the base one of the head is compared with.    *)
(* The same label; at the root the project's, the first of the format;     *)
(* below the root nothing.                                                 *)
(***************************************************************************)
CounterpartOf(label) ==
  LET same == {file \in Parsed[base].files : file[1] = label} IN
  IF same /= {} THEN {file[2] : file \in same}
  ELSE IF nested THEN {}
  ELSE {ProjectEntries(base)}

Change(label, package, before) ==
  [label |-> label, package |-> package, compared |-> \E p \in before : p[1] = package[1]]

LockEntryChanges(stream) ==
  UNION {LET before == UNION CounterpartOf(file[1])
         IN  {Change(file[1], p, before) : p \in file[2] \ before} :
         file \in Parsed[stream].files}

\* The downgrade rule asks only where the base's project document has entries.
ChangedSkippedDocuments(stream) ==
  ProjectEntries(base) /= {} /\ Parsed[base].unread /= Parsed[stream].unread

-----------------------------------------------------------------------------
Init ==
  /\ base \in DOMAIN Parsed
  /\ head = base
  /\ nested \in BOOLEAN
  /\ verdict = "none"
  /\ changes = {}

\* A pull request writes the lockfile and the scan judges it.
Judge(stream) ==
  /\ verdict \in {"none", "refused"}
  /\ head' = stream
  /\ IF stream \notin DOMAIN Parsed \/ ChangedSkippedDocuments(stream)
     THEN verdict' = "refused" /\ changes' = {}
     ELSE verdict' = "passed" /\ changes' = LockEntryChanges(stream)
  /\ UNCHANGED <<base, nested>>

Merge ==
  /\ verdict = "passed"
  /\ base' = head
  /\ verdict' = "none" /\ changes' = {}
  /\ UNCHANGED <<head, nested>>

Next == Merge \/ \E stream \in Streams : Judge(stream)
Spec == Init /\ [][Next]_vars

-----------------------------------------------------------------------------
AllOf(stream) == UNION {Entries(stream[i]) : i \in DOMAIN stream}

(***************************************************************************)
(* Where the base's project document covers its directory, a package that  *)
(* no document of the base holds cannot arrive in any document of a stream *)
(* that passes, one that is never read included, without being one of the  *)
(* changes every check runs over.  It rests on the selection, the labels,  *)
(* the read indexes and the unread text agreeing (pnpm.ts:390-446), and on *)
(* the pairing and the refusal of delta.ts.                                *)
(***************************************************************************)
NothingSlipsIn ==
  verdict = "passed" /\ ProjectEntries(base) /= {} =>
    \A package \in AllOf(head) \ AllOf(base) : \E c \in changes : c.package = package

(***************************************************************************)
(* The claim of pnpm.ts:386-388: an additional document with no labelled   *)
(* path on the other side is compared with the first lockfile of the       *)
(* format there, the project document.                                     *)
(***************************************************************************)
NewDocumentIsCompared ==
  \A c \in changes :
    c.label \notin {file[1] : file \in Parsed[base].files} =>
      (c.compared <=> \E p \in ProjectEntries(base) : p[1] = c.package[1])
=============================================================================
