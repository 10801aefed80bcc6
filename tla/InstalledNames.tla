--------------------------- MODULE InstalledNames ---------------------------
(***************************************************************************)
(* Which names an npm or pnpm lockfile installs, and which of them the     *)
(* name checks have judged (npmNames in checks/candidates.ts, over the     *)
(* entry walk of delta.ts).  A base branch evolves by pull requests; each  *)
(* is judged against the base it merges into, and what is new is decided   *)
(* from the two lockfiles alone, never from what was judged before.        *)
(***************************************************************************)
EXTENDS Naturals, FiniteSets

CONSTANTS
  Packages, NoName,
  Paths,            \* places of the packages map
  KeyOf,            \* the lockfile key of a place
  Local,            \* names confirmed as workspace packages
  Entries, NoEntry, \* entries a lockfile may hold at a place
  NoUrl, Elsewhere, \* no tarball; a git, file or other non-registry source
  Formats, Edges

Keys == {KeyOf[p] : p \in Paths}
Maybe == Packages \cup {NoName}

ASSUME InstalledNamesConstants ==
  /\ KeyOf \in [Paths -> Packages] /\ NoName \notin Packages /\ NoEntry \notin Entries
  /\ NoUrl \notin Packages /\ Elsewhere \notin Packages /\ NoUrl # Elsewhere
  /\ Local \subseteq Packages
  /\ Formats \subseteq {"npm", "pnpm"}
  /\ \A e \in Entries :
       /\ e.field \in Maybe /\ e.url \in Packages \cup {NoUrl, Elsewhere}
       /\ e.bundled \in BOOLEAN /\ e.unread \in BOOLEAN
       /\ e.version \in {"v1", "v2", "local"}

VARIABLES
  format,
  lock,      \* the base branch's lockfile
  declares,  \* the registry name its manifest gives each key
  judged     \* ghost: the names some run handed to the name checks

vars == <<format, lock, declares, judged>>

Lockfiles == [Paths -> Entries \cup {NoEntry}]
Manifests == [Keys -> Maybe]

Init ==
  /\ format \in Formats
  /\ lock = [p \in Paths |-> NoEntry]
  /\ declares = [k \in Keys |-> NoName]
  /\ judged = {}

(* Everything that says which bytes an entry resolves to.  An unreadable   *)
(* location is no part of it.                                              *)
ResolutionIdentity(e) == <<e.version, e.url, e.field, e.bundled>>

At(l, k) == {l[p] : p \in {p \in Paths : KeyOf[p] = k}} \ {NoEntry}

IsChange(l, p) ==
  l[p] # NoEntry /\ \A b \in At(lock, KeyOf[p]) : ResolutionIdentity(b) # ResolutionIdentity(l[p])

Added(p) == At(lock, KeyOf[p]) = {}

(* The manifest line an entry is attributed to: by its key, or by the      *)
(* registry name of another line; the first line wins.                     *)
Attributions(d, k) ==
  LET lines == {d[k]} \cup {n \in {k} : \E j \in Keys : d[j] = k}
  IN IF lines \ {NoName} = {} THEN {NoName} ELSE lines \ {NoName}

PackageName(attr, k) == IF attr[k] = NoName THEN k ELSE attr[k]

(* A name field is trusted as a hint only when the tarball is of that      *)
(* package.                                                                *)
LookupName(e) == IF e.field \in Packages /\ e.url = e.field THEN e.field ELSE NoName

AcceptedAlias(l, attr, edges, p) ==
  LET target == LookupName(l[p])
  IN IF Added(p) /\ attr[KeyOf[p]] = NoName /\ <<KeyOf[p], target>> \in edges
     THEN target ELSE NoName

(* pickCounterpart's first two rungs; the two after them only narrow more. *)
Narrow(S, T) == IF S \cap T = {} THEN S ELSE S \cap T

Candidates(e, B) ==
  IF Cardinality(B) <= 1 THEN B
  ELSE LET byVersion == Narrow(B, {b \in B : b.version = e.version})
           byUrl == IF Cardinality(byVersion) <= 1 THEN byVersion
                    ELSE Narrow(byVersion, {b \in B : b.url # NoUrl /\ b.url = e.url})
       IN byUrl

(* What the comparison side installed here: by place for npm, by name for  *)
(* pnpm, whose lockfile has no such place.                                 *)
Earlier(l, p) ==
  IF format = "npm" THEN {lock[p]} \ {NoEntry}
  ELSE Candidates(l[p], At(lock, KeyOf[p]))

\* Mutant of InstalledFromRegistry: an entry of the key is taken to install the key.
AnyEntryOfTheKey(e, key, name) ==
  ~e.bundled /\ ~e.unread /\ (IF e.url = NoUrl THEN e.version # "local" ELSE e.url = name)

InstalledFromRegistry(e, key, name) ==
  /\ (IF e.field = NoName THEN key ELSE e.field) = name
  /\ ~e.bundled /\ ~e.unread
  /\ IF e.url = NoUrl THEN e.version # "local" ELSE e.url = name

NewHere(l, p, name) ==
  ~\E b \in Earlier(l, p) : InstalledFromRegistry(b, KeyOf[p], name)

(* Only npm records a name field.                                          *)
Parsed(l) == format = "pnpm" => \A p \in Paths : l[p] # NoEntry => l[p].field = NoName

LocalDirectory(e) == format = "pnpm" /\ e.version = "local" /\ e.url = NoUrl

(* The field an npm entry adds to its key.                                 *)
Field(e, p) == IF format = "npm" /\ e.field # KeyOf[p] THEN e.field ELSE NoName

(* The key is only a folder name: an alias edge or an alias line asks for  *)
(* the field, and the field is what installs.                              *)
KeyIsFolder(l, attr, edges, p) ==
  LET e == l[p]  field == Field(e, p)
  IN /\ field # NoName
     /\ ~e.unread /\ (e.url = NoUrl \/ LookupName(e) = field)
     /\ <<KeyOf[p], field>> \in edges \/ PackageName(attr, KeyOf[p]) = field

LockEntryNames(l, attr, edges, p) ==
  IF ~IsChange(l, p) \/ AcceptedAlias(l, attr, edges, p) # NoName
     \/ LocalDirectory(l[p]) \/ l[p].url = Elsewhere
  THEN {}
  ELSE {n \in {KeyOf[p]} : NewHere(l, p, n) /\ ~KeyIsFolder(l, attr, edges, p)}
         \cup {n \in {Field(l[p], p)} \ {NoName} : NewHere(l, p, n)}

AliasTargets(l, attr, edges) ==
  {AcceptedAlias(l, attr, edges, p) : p \in {p \in Paths : IsChange(l, p)}} \ {NoName}

(* A line that is new, and an alias line that moved.                       *)
ManifestNames(d) ==
  {d[k] : k \in {k \in Keys : d[k] # declares[k] /\ (declares[k] = NoName \/ d[k] # k)}} \ {NoName}

NpmNames(l, d, attr, edges) ==
  ((ManifestNames(d) \cup AliasTargets(l, attr, edges)) \ Local)
    \cup UNION {LockEntryNames(l, attr, edges, p) : p \in Paths}

(* The tamper check holds a new tarball to the package the entry is.       *)
TarballVouched(l, attr, edges, p) ==
  IsChange(l, p) /\ l[p].url \in Packages =>
    l[p].url \in {PackageName(attr, KeyOf[p]), AcceptedAlias(l, attr, edges, p)}

(* A pull request merges once its findings are settled; what it hands to   *)
(* the name checks has then been judged.                                   *)
Merge(l, d, attr, edges) ==
  /\ Parsed(l)
  /\ \A k \in Keys : attr[k] \in Attributions(d, k)
  /\ \A p \in Paths : TarballVouched(l, attr, edges, p)
  /\ judged' = judged \cup NpmNames(l, d, attr, edges)
  /\ lock' = l /\ declares' = d
  /\ UNCHANGED format

Next ==
  \E l \in Lockfiles, d \in Manifests, attr \in Manifests, edges \in Edges : Merge(l, d, attr, edges)

Spec == Init /\ [][Next]_vars

-----------------------------------------------------------------------------
(* The package an entry makes npm or pnpm fetch from a registry.           *)
Fetched(e, key) ==
  IF e.bundled \/ e.url = Elsewhere \/ (e.url = NoUrl /\ e.version = "local") THEN {}
  ELSE IF e.url \in Packages THEN {e.url}
  ELSE IF e.field \in Packages THEN {e.field} ELSE {key}

(* A workspace name some dependent asks for by an alias: of another key,   *)
(* or spelled as an alias of itself.                                       *)
Aliased(n, p) ==
  n \in Local /\ (n # KeyOf[p] \/ \E edges \in Edges : <<n, n>> \in edges)

TypeOK ==
  /\ format \in Formats /\ lock \in Lockfiles /\ declares \in Manifests /\ judged \subseteq Packages

(* Whatever the order of the pull requests, and however they move one key  *)
(* between a plain entry, an alias, a bundled copy, another source and     *)
(* another place, nothing the base branch fetches from a registry escaped  *)
(* the name checks: each run decides what is new by looking only at the    *)
(* two lockfiles in front of it.  Left out is an alias of a workspace      *)
(* name, which AliasTargetIsJudged is about.                               *)
InstalledWasJudged ==
  \A p \in Paths : lock[p] # NoEntry =>
    \A n \in Fetched(lock[p], KeyOf[p]) : n \in judged \/ Aliased(n, p)

(* What candidates.ts says of accepted aliases: the package the tarball    *)
(* names is judged as a name instead.                                      *)
AliasTargetIsJudged ==
  \A p \in Paths : lock[p] # NoEntry /\ declares[KeyOf[p]] = NoName =>
    Fetched(lock[p], KeyOf[p]) \subseteq judged
=============================================================================
