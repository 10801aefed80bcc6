---------------------------- MODULE MCLockfiles ----------------------------
(***************************************************************************)
(* What is said of lockfiles, in one run.  A behaviour is about one        *)
(* subject, chosen at the start: the documents of a pnpm lockfile          *)
(* (PnpmDocuments), the keys of one (PnpmKeys), the tamper check over the  *)
(* entries of a name (LockfileTamper), or the history of the lockfiles of  *)
(* a repository (LockfileDowngrade).  The variables of the others stay as  *)
(* they are.                                                               *)
(***************************************************************************)
EXTENDS PnpmDocuments

CONSTANTS None,
          Tokens, KeyDigits, KeyProtocols, PlainNames, Scopes, KeyHosts,
          Versions, KeyUrls, KeyPeers, KeyValues, Written,        \* PnpmKeys
          Name, RegistryHosts, ForgeHosts, Implied, Inputs,       \* LockfileTamper
          Dirs, Root, Up, Paths, Rank, NpmNames, Options,
          FirstTree, ManifestKinds, MaxEdits, MaxMerges, MaxAcks             \* LockfileDowngrade

VARIABLES subject,
          written, section, entries, skipped,          \* PnpmKeys
          input, at, raised, held,                     \* LockfileTamper
          branch, older, pr, vouched, owed, merges     \* LockfileDowngrade
documentVars == <<base, head, nested, verdict, changes>>
keyVars == <<written, section, entries, skipped>>
tamperVars == <<input, at, raised, held>>
historyVars == <<branch, older, pr, vouched, owed, merges>>

------------------------------------------------------------------------------
(* Documents of one pnpm lockfile.                                         *)
PkgP == <<"p", "i">>
Tampered == <<"p", "j">>
PkgQ == <<"q", "i">>

Doc(importers, packages) ==
  [mapping |-> TRUE, version |-> TRUE, importers |-> importers, packages |-> packages]
RootDoc == [i \in {"."} |-> "project"]
MemberDoc == [i \in {"m"} |-> "project"]
MembersDoc == [i \in {"m", "n"} |-> IF i = "m" THEN "project" ELSE "bare"]
LinksDoc == [i \in {"."} |-> "links"]
ManagerDoc == [i \in {"."} |-> "manager"]

MCDocuments ==
  {Doc(RootDoc, {PkgP}), Doc(RootDoc, {Tampered, PkgQ}), Doc(ManagerDoc, {PkgP}), Doc(ManagerDoc, {PkgQ}),
   Doc(MemberDoc, {PkgP}), Doc(MembersDoc, {PkgQ}), Doc(Absent, {Tampered}),
   [Doc(Absent, {PkgQ}) EXCEPT !.version = FALSE], [Doc(Absent, {Tampered}) EXCEPT !.version = FALSE],
   Doc(NotAMapping, {PkgP}), Doc(Absent, NotAMapping),
   Doc(LinksDoc, Null), [Doc(Absent, {}) EXCEPT !.mapping = FALSE]}

\* Every document alone, in pairs with those that interact, those in threes,
\* and streams one past the cap.
Small == {Doc(RootDoc, {PkgP}), Doc(ManagerDoc, {PkgP}), Doc(MembersDoc, {PkgQ}), Doc(Absent, {Tampered}),
          [Doc(Absent, {PkgQ}) EXCEPT !.version = FALSE]}
MCStreams ==
  {<<d>> : d \in MCDocuments}
  \union UNION {{<<d, e>>, <<e, d>>} : d \in MCDocuments, e \in Small}
  \union {<<d, e, f>> : d \in Small, e \in Small, f \in {Doc(RootDoc, {PkgP}), Doc(MembersDoc, {PkgQ})}}
  \union {<<d, e, f>> : d \in Small, e \in {Doc(RootDoc, {PkgP})}, f \in Small}
  \union {<<d, e, f, d>> : d \in {Doc(RootDoc, {PkgP})}, e \in Small, f \in {Doc(ManagerDoc, {PkgP})}}

------------------------------------------------------------------------------
(* Keys, written the way pnpm writes them in lockfile versions 5, 6 and 9: *)
(* with and without peer suffixes, as a version or as a URL.  "written"    *)
(* keeps the packages the section was written from.                        *)
Separators == {"/", "@", "_", "("}

KeyNames == {<<a>> : a \in PlainNames} \union {<<"@", s, "/", a>> : s \in Scopes, a \in PlainNames}
KeyVersions == {<<v>> : v \in Versions} \union KeyUrls
TokensOf(s) == {s[i] : i \in DOMAIN s}
Plus(name) == [i \in DOMAIN name |-> IF name[i] = "/" THEN "+" ELSE name[i]]

\* What follows a version: its peers, in the manner of version 5 and of those after.
Underscored(peer) == IF peer = <<>> THEN <<>> ELSE <<"_">> \o Plus(peer)
Parenthesised(peer) == IF peer = <<>> THEN <<>> ELSE <<"(">> \o peer \o <<")">>

\* The ways pnpm spells the key of a package, with optional peers; version 5
\* does not nest peers, and has other keys for URLs.
Spellings(name, version, peer) ==
  (IF version \in KeyUrls \/ "(" \in TokensOf(peer) THEN {}
   ELSE {<<"/">> \o name \o <<"/">> \o version \o Underscored(peer)})
  \union
  {prefix \o name \o <<"@">> \o version \o Parenthesised(peer) :
     prefix \in (IF version \in KeyUrls THEN {<<>>} ELSE {<<>>, <<"/">>})}

\* A key that names another registry's host first is not one dep-guard reads.
Hosted == {<<host, "/">> \o name \o <<sep, v>> :
             host \in KeyHosts, name \in KeyNames, sep \in {"/", "@"}, v \in Versions}

Packages ==
  {[key |-> key, name |-> <<>>, version |-> <<>>] : key \in Hosted}
  \union UNION {{[key |-> key, name |-> name, version |-> version] : key \in Spellings(name, version, peer)} :
                  name \in KeyNames, version \in KeyVersions, peer \in KeyPeers}

KeysConstants ==
  /\ Separators \union {")", "+"} \subseteq Tokens
  /\ PlainNames \union Scopes \union KeyHosts \union KeyDigits \union KeyProtocols \subseteq Tokens \ Separators
  /\ Versions \subseteq KeyDigits /\ KeyDigits \intersect KeyProtocols = {}
  /\ \A url \in KeyUrls : url \in Seq(Tokens) /\ Len(url) > 1 /\ url[1] \in KeyProtocols /\ "(" \notin TokensOf(url)
  /\ KeyPeers \subseteq Seq(Tokens)
  /\ \A v \in KeyValues : v.mapping \in BOOLEAN
  /\ Written \subseteq Seq(Packages \X KeyValues)

MCTokens == Separators \union {")", "+", "a", "b", "c", "g", "h", "s", "t", "u", "1", "2", "7z", "https://", "git+ssh://"}
MCUrls == {<<"https://", "h", "/", "u", "/", "1">>, <<"git+ssh://", "g", "@", "h", "/", "a">>}
MCPeers == {<<>>, <<"b", "@", "2">>, <<"@", "t", "/", "b", "@", "2">>, <<"b", "@", "2", "(", "c", "@", "1", ")">>}

NoRes == [tarball |-> <<>>, integrity |-> "i", type |-> "none", repo |-> "none", commit |-> "c"]
Value(res) == [mapping |-> TRUE, version |-> <<>>, res |-> res, requiresBuild |-> FALSE]
MCValues ==
  {Value(NoRes),
   Value([NoRes EXCEPT !.integrity = "j"]),
   Value([NoRes EXCEPT !.tarball = <<"https://", "h">>]),
   Value([NoRes EXCEPT !.type = "git", !.repo = "scp"]),
   Value([NoRes EXCEPT !.type = "git", !.repo = "git-url"]),
   Value([NoRes EXCEPT !.type = "git", !.repo = "http-url", !.commit = "d"]),
   Value([NoRes EXCEPT !.type = "git", !.repo = "path"]),
   [Value(NoRes) EXCEPT !.requiresBuild = TRUE],
   [Value(NoRes) EXCEPT !.version = <<"2">>],
   [Value(NoRes) EXCEPT !.mapping = FALSE]}

\* One package with every value, and two packages of one name in either order.
SameName == {pq \in Packages \X Packages :
               /\ pq[1].name = pq[2].name /\ pq[1].key /= pq[2].key
               /\ pq[1].name \in {<<"a">>, <<"@", "s", "/", "7z">>}}
MCWritten ==
  {<< <<p, v>> >> : p \in Packages, v \in MCValues}
  \union {<< <<pq[1], v>>, <<pq[2], Value(NoRes)>> >> : pq \in SameName, v \in {Value(NoRes), Value([NoRes EXCEPT !.integrity = "j"])}}

KeysOf(w) == [i \in DOMAIN w |-> <<w[i][1].key, w[i][2]>>]
KeySections == {KeysOf(w) : w \in Written}

PnpmKey == INSTANCE PnpmKeys WITH Digits <- KeyDigits, Protocols <- KeyProtocols, Sections <- KeySections

KeysInit == /\ written \in Written
            /\ section = KeysOf(written)
            /\ entries = [name \in {} |-> <<>>]
            /\ skipped = {}

------------------------------------------------------------------------------
(* One name, two versions, three earlier entries at most: with three, one  *)
(* may raise a signal as critical, one at less, and one not at all.        *)
Url(proto, host, pkg, ver, tail) ==
  [readable |-> TRUE, proto |-> proto, host |-> host, path |-> [pkg |-> pkg, ver |-> ver],
   query |-> tail, pinned |-> FALSE]

Own1   == Url("https", "reg", "p", "1", "")
Own1q  == Url("https", "reg", "p", "1", "?t")
Own1h  == Url("http", "reg", "p", "1", "")
Own2   == Url("https", "reg", "p", "2", "")
Evil1  == Url("https", "reg", "q", "1", "")
Bare   == Url("https", "reg", None, "1", "")
Mirror == Url("https", "mirror", "p", "1", "")
GitA   == [Url("git+ssh", "forge", None, "a", "") EXCEPT !.pinned = TRUE]
GitB   == Url("git+ssh", "forge", None, "a", "#main")
File1  == Url("file", None, None, "1", "")
File2  == Url("file", None, None, "2", "")
Text1  == [Url("", None, None, "1", "") EXCEPT !.readable = FALSE]
Text2  == [Url("", None, None, "2", "") EXCEPT !.readable = FALSE]

TamperImplied == [v \in {"1", "2"} |-> IF v = "1" THEN Own1 ELSE Own2]

Sha1  == [alg |-> 2, id |-> "x"]
Sha512  == [alg |-> 5, id |-> "x"]
Forged == [alg |-> 5, id |-> "y"]
Odd == [alg |-> 0, id |-> "z"]

LockEntry(version, url, hash) ==
  [version |-> version, url |-> url, hash |-> hash, script |-> FALSE, nameField |-> None]

Plain == {LockEntry("1", Own1, h) : h \in {None, Sha1, Sha512, Forged, Odd}}
         \cup {LockEntry("1", u, h) : u \in {Own1q, Own1h, Evil1, Mirror}, h \in {None, Forged}}
         \cup {LockEntry("2", Own2, Sha512), LockEntry("1", None, Sha512), LockEntry("1", None, Forged)}
Sources == {LockEntry("1", u, None) : u \in {GitA, GitB, File1, File2, Text1, Text2, Bare, Own2}}
           \cup {LockEntry(None, u, None) : u \in {Text1, Text2}}
Renamed == {[LockEntry("1", None, None) EXCEPT !.nameField = "q"],
            [LockEntry("1", Evil1, Sha512) EXCEPT !.nameField = "q"],
            [LockEntry("1", Own1, Sha512) EXCEPT !.script = TRUE]}

Dep(protocol, source, same) ==
  [protocol |-> protocol, source |-> source, wanted |-> "1", wants |-> "1",
   specifierHeld |-> same]
Deps == {<<>>, <<Dep("registry", None, TRUE)>>,
         <<Dep("git", GitA, FALSE), Dep("git", GitB, FALSE)>>,
         <<Dep("git", GitA, TRUE)>>, <<Dep("url", Mirror, FALSE)>>}

Input(before, after, deps, format, compared) ==
  [before |-> before, after |-> after, deps |-> deps, format |-> format,
   compared |-> compared, npmrcChanged |-> FALSE, aliasTargets |-> {}]

OneOrTwo(S) == {<<b>> : b \in S} \cup {<<b, c>> : b \in S, c \in S}
Unlike == {LockEntry("1", u, None) : u \in {None, Text1, Text2, GitA, File1, Own1}}
          \cup {LockEntry("1", Own1, Sha1), LockEntry("1", Mirror, Forged)}
Interesting == Plain \cup Sources \cup Renamed

TamperInputs ==
  {Input(b, <<a>>, <<>>, f, TRUE) : b \in OneOrTwo(Plain), a \in Plain, f \in {"npm", "pnpm"}}
  \cup {Input(<<b>>, <<a>>, d, "npm", TRUE) : b \in Interesting, a \in Interesting, d \in Deps}
  \cup {Input(<<b, LockEntry("2", Own2, Sha512)>>, <<a, c>>, <<>>, "npm", TRUE) :
          b \in Sources, a \in Sources, c \in Sources}
  \cup {Input(<<b, c, d>>, <<a>>, <<>>, "npm", TRUE) :
          b \in Unlike, c \in Unlike, d \in Unlike, a \in Unlike}
  \cup {Input(<<>>, a, d, "npm", c) : a \in OneOrTwo(Sources \cup Renamed), d \in Deps, c \in BOOLEAN}
  \cup {[Input(<<b>>, <<a>>, d, "npm", TRUE) EXCEPT !.npmrcChanged = TRUE, !.aliasTargets = {"q"}] :
          b \in Plain \cup Renamed, a \in Plain \cup Renamed, d \in Deps}
  \cup {[Input(<<>>, <<a>>, <<>>, "npm", TRUE) EXCEPT !.aliasTargets = {"q"}] : a \in Renamed}

Tamper == INSTANCE LockfileTamper

------------------------------------------------------------------------------
(* A root and one directory below it; npm, pnpm and yarn at the root, npm  *)
(* and yarn below.                                                         *)
Content(blob, read, some, loads, unread) ==
  [blob |-> blob, read |-> read, entries |-> some, loads |-> loads, skipped |-> unread]

Full  == Content("f", TRUE, TRUE, TRUE, None)
V1    == Content("v", FALSE, FALSE, TRUE, None)
SkipsText  == Content("d", TRUE, TRUE, TRUE, "text")
Yarn  == Content("y", FALSE, FALSE, TRUE, None)
Link  == Content(None, FALSE, FALSE, FALSE, None)

RN == <<"root", "npm">>    RP == <<"root", "pnpm">>
RY == <<"root", "yarn">>
WN == <<"web", "npm">>     WY == <<"web", "yarn">>

LockUp == [d \in {"web"} |-> "root"]
LockPaths == {RN, RP, RY, WN, WY}
LockRank == [p \in LockPaths |-> CASE p[2] = "npm" -> 1 [] p[2] = "pnpm" -> 2 [] p[2] = "yarn" -> 3 [] OTHER -> 4]
LockOptions == [p \in LockPaths |-> CASE p = RN -> {Full} [] p = RP -> {SkipsText} [] p = RY -> {Yarn, Link}
                                  [] p = WN -> {Full, V1} [] OTHER -> {Yarn}]
\* What it changes that there is no manifest at all, the directory below shows.
LockManifests == [d \in {"root", "web"} |-> IF d = "root" THEN {"bare", "declares"} ELSE {"none", "bare", "declares"}]
LockFirst == [lock |-> [p \in LockPaths |-> IF p = RN THEN Full ELSE Absent],
            manifest |-> [d \in {"root", "web"} |-> "declares"]]

History == INSTANCE LockfileDowngrade WITH base <- branch

ASSUME KeysAssumption == KeysConstants
ASSUME TamperAssumption == Tamper!TamperConstants
ASSUME HistoryAssumption == History!DowngradeConstants

------------------------------------------------------------------------------
Idle == "idle"
NoDocuments == base = Idle /\ head = Idle /\ nested = Idle /\ verdict = Idle /\ changes = Idle
NoKeys == written = Idle /\ section = Idle /\ entries = Idle /\ skipped = Idle
NoTamper == input = Idle /\ at = Idle /\ raised = Idle /\ held = Idle
NoHistory == branch = Idle /\ older = Idle /\ pr = Idle /\ vouched = Idle /\ owed = Idle /\ merges = Idle

MCInit ==
  \/ subject = "documents" /\ Init         /\ NoKeys      /\ NoTamper /\ NoHistory
  \/ subject = "keys"      /\ KeysInit     /\ NoDocuments /\ NoTamper /\ NoHistory
  \/ subject = "tamper"    /\ Tamper!Init  /\ NoDocuments /\ NoKeys   /\ NoHistory
  \/ subject = "history"   /\ History!Init /\ NoDocuments /\ NoKeys   /\ NoTamper

DocumentStep == subject = "documents" /\ Next /\ UNCHANGED <<subject, keyVars, tamperVars, historyVars>>
KeyStep == subject = "keys" /\ PnpmKey!Next /\ UNCHANGED <<subject, written, documentVars, tamperVars, historyVars>>
TamperStep == subject = "tamper" /\ Tamper!Next /\ UNCHANGED <<subject, documentVars, keyVars, historyVars>>
HistoryStep == subject = "history" /\ History!Next /\ UNCHANGED <<subject, documentVars, keyVars, tamperVars>>

MCNext == DocumentStep \/ KeyStep \/ TamperStep \/ HistoryStep

MCSpec == MCInit /\ [][MCNext]_<<subject, documentVars, keyVars, tamperVars, historyVars>>

------------------------------------------------------------------------------
(* The properties, each of its subject; see the modules for what they say. *)
PnpmNothingSlipsIn == subject = "documents" => NothingSlipsIn
TamperIsSeen == subject = "tamper" => Tamper!TamperIsSeen
DroppedCriticalIsReported == subject = "tamper" => Tamper!DroppedCriticalIsReported
SilenceIsAccountedFor == subject = "tamper" => Tamper!SilenceIsAccountedFor
CoverageIsVouched == subject = "history" => History!CoverageIsVouched
RemedyWorks == subject = "history" => History!RemedyWorks

Taken(w) == {i \in DOMAIN w : w[i][1].name /= <<>> /\ w[i][2].mapping}

(* Once the section is read, the entries are those of the packages it was  *)
(* written from: each under its own name with its own version, every       *)
(* resolution of a name kept, an equal one once, and every package that is *)
(* not among them named in a diagnostic.  It is about parsePackageKey      *)
(* (pnpm.ts:261) never reading one package as another, and about the merge *)
(* at 615-621 never dropping a second resolution.                          *)
ReadsBackWhatWasWritten ==
  subject = "keys" /\ section = <<>> =>
    /\ DOMAIN entries = {written[i][1].name : i \in Taken(written)}
    /\ \A name \in DOMAIN entries :
         LET expected == {PnpmKey!entryFromPackageValue(written[i][2], written[i][1].version) :
                            i \in {j \in Taken(written) : written[j][1].name = name}}
         IN  /\ {entries[name][i] : i \in DOMAIN entries[name]} = expected
             /\ Len(entries[name]) = Cardinality(expected)
    /\ skipped = {written[i][1].key : i \in DOMAIN written \ Taken(written)}
=============================================================================
