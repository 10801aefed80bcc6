--------------------------- MODULE WorkspaceLinks ---------------------------
(***************************************************************************)
(* Which names a scan takes for workspace packages and leaves out of the   *)
(* name checks (git-source.ts, confirmWorkspaceLocalNames).  An npm        *)
(* lockfile claims them with "link": true entries; a claim counts when the *)
(* install reads that lockfile, the linked directory holds a package of    *)
(* that name, and the "workspaces" field of the install root covers it.    *)
(* On a pull request the field is read from the trust base.                *)
(*                                                                         *)
(* One install root and its member directories, over a sequence of pull    *)
(* requests.  A field is the set of members its patterns cover.            *)
(***************************************************************************)
EXTENDS Naturals, FiniteSets

CONSTANTS Members, Names,
          NoFile,     \* a lockfile that is not there
          NoName,     \* a directory without a package.json, or an unnamed one
          NoManifest, \* there is no package.json at the install root
          Broken,     \* there is one, but it does not parse
          NoTree,     \* no pull request is open
          Trees       \* the trees a pull request can bring

VARIABLES trusted,   \* the field of the install root on the trust base
          head,      \* the tree of the open pull request
          judged,    \* it has been scanned, against the base or on its own
          exempt,    \* the names left out of the name checks
          notes      \* the names a workspace-link-unconfirmed note lists
vars == <<trusted, head, judged, exempt, notes>>

NpmLockfiles == {"npm-shrinkwrap.json", "package-lock.json"}
Links == Names \X (Members \cup {"unrecorded", "outside"})
Fields == SUBSET Members

(* What the constants are; whoever instantiates the module assumes it.     *)
WorkspaceLinksConstants ==
  \A t \in Trees :
    /\ t.field \in Fields \cup {NoManifest, Broken}
    /\ t.packageManager \in {"none", "npm", "pnpm"}
    /\ \A f \in NpmLockfiles : t.lock[f] = NoFile \/ t.lock[f] \subseteq Links
    /\ t.pnpmLock \in BOOLEAN
    /\ t.name \in [Members -> Names \cup {NoName}]

-----------------------------------------------------------------------------
Parsed(field) == field \notin {NoManifest, Broken}

Declared(t) == IF Parsed(t.field) THEN t.packageManager ELSE "none"

\* inactiveNpmLockfileReason gives no reason.
Active(t, f) ==
  /\ (f = "package-lock.json" => t.lock["npm-shrinkwrap.json"] = NoFile)
  /\ IF Declared(t) /= "none" THEN Declared(t) = "npm" ELSE ~t.pnpmLock

HeadPatterns(t) == IF Parsed(t.field) THEN t.field ELSE {}

\* A mutation: the field of the base widens that of the head.
EitherField(t, base) == HeadPatterns(t) \cup (IF Parsed(base) THEN base ELSE {})

\* The base's field when it parsed a package.json there, else the head's own.
Patterns(t, base) == IF Parsed(base) THEN base ELSE HeadPatterns(t)

Confirms(t, base, f, link) ==
  /\ Active(t, f)
  /\ link[2] \in Members
  /\ t.name[link[2]] = link[1]
  /\ link[2] \in Patterns(t, base)

Claims(t) ==
  UNION {{<<f, link>> : link \in t.lock[f]} : f \in {g \in NpmLockfiles : t.lock[g] /= NoFile}}

confirmWorkspaceLocalNames(t, base) ==
  {c[2][1] : c \in {d \in Claims(t) : Confirms(t, base, d[1], d[2])}}

Unconfirmed(t, base) ==
  {c[2][1] : c \in {d \in Claims(t) : ~Confirms(t, base, d[1], d[2])}}
    \ confirmWorkspaceLocalNames(t, base)

\* A package.json beside a lockfile is a project: when it is broken the scan stops.
Scannable(t) == t.field = Broken => \A f \in NpmLockfiles : t.lock[f] = NoFile

-----------------------------------------------------------------------------
Init ==
  /\ trusted \in Fields \cup {NoManifest, Broken}
  /\ head = NoTree
  /\ judged = "no" /\ exempt = {} /\ notes = {}

Results(t, base) ==
  /\ exempt' = confirmWorkspaceLocalNames(t, base)
  /\ notes' = Unconfirmed(t, base)

\* loadState alone: no trust base, the field is the judged side's own.
Scan ==
  /\ judged = "no" /\ head /= NoTree
  /\ judged' = "alone"
  /\ Results(head, NoManifest)
  /\ UNCHANGED <<trusted, head>>

\* reconfirmWorkspaceLocalNames replaces the names and the notes of loadState.
ScanPullRequest ==
  /\ judged = "no" /\ head /= NoTree
  /\ judged' = "against the base"
  /\ Results(head, trusted)
  /\ UNCHANGED <<trusted, head>>

Open(t) ==
  /\ head = NoTree
  /\ Scannable(t)
  /\ head' = t
  /\ UNCHANGED <<trusted, judged, exempt, notes>>

Merge ==
  /\ judged = "against the base"
  /\ trusted' = head.field
  /\ head' = NoTree
  /\ judged' = "no" /\ exempt' = {} /\ notes' = {}

Next == Scan \/ ScanPullRequest \/ Merge \/ \E t \in Trees : Open(t)
Spec == Init /\ [][Next]_vars

-----------------------------------------------------------------------------
(***************************************************************************)
(* What npm does with the tree: it installs from the shrinkwrap when there *)
(* is one, and links a name when that file has a link entry to a directory *)
(* the field of the tree covers and the package there has that name;       *)
(* otherwise the entry is rewritten to a registry fetch.                   *)
(***************************************************************************)
InstalledFrom(t) ==
  IF t.lock["npm-shrinkwrap.json"] /= NoFile THEN "npm-shrinkwrap.json" ELSE "package-lock.json"
Entries(t) == IF t.lock[InstalledFrom(t)] = NoFile THEN {} ELSE t.lock[InstalledFrom(t)]
\* The names with a link entry to a directory of ms that has that package.
LinkedTo(t, ms) == {link[1] : link \in {l \in Entries(t) : l[2] \in ms /\ t.name[l[2]] = l[1]}}
NpmLinks(t) == LinkedTo(t, HeadPatterns(t))

\* The members of the base's field that the pull request takes out of it.
Dropped == IF judged = "against the base" /\ Parsed(trusted) THEN trusted \ HeadPatterns(head) ELSE {}

(***************************************************************************)
(* A name left out of the name checks has a link entry, in the lockfile    *)
(* npm installs from, to a directory whose package has that name; and npm  *)
(* links it there, or that directory is a member of the base's field that  *)
(* the pull request dropped.  That is the only way to exempt a name npm    *)
(* fetches (ExemptIsNeverFetched); where the base has a field to read, a   *)
(* name is exempt only for a member that field covered before the pull     *)
(* request (git-source.ts:1875-1898).                                      *)
(***************************************************************************)
ExemptIsLinked ==
  judged /= "no" =>
    /\ exempt \subseteq NpmLinks(head) \cup LinkedTo(head, Dropped)
    /\ (judged = "against the base" /\ Parsed(trusted)) => exempt \subseteq LinkedTo(head, trusted)

(***************************************************************************)
(* git-source.ts:1880-1892: a claim is confirmed only when its directory   *)
(* is a workspace member on the same side; anywhere else npm does not link *)
(* it and rewrites the entry to a registry fetch.                          *)
(***************************************************************************)
ExemptIsNeverFetched ==
  (judged /= "no" /\ Parsed(head.field)) => exempt \subseteq NpmLinks(head)

(***************************************************************************)
(* git-source.ts:1908-1911: the field is the trust base's, "keyed on 'the  *)
(* base has a package.json at that path'", so no pull request confirms a   *)
(* link with a field of its own where the base has such a file.            *)
(***************************************************************************)
BaseFileDecides ==
  (judged = "against the base" /\ trusted = Broken) => exempt = {}
=============================================================================
