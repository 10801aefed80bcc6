------------------------------ MODULE PnpmKeys ------------------------------
(***************************************************************************)
(* How the "packages" section of a pnpm lockfile becomes lock entries      *)
(* (lockfiles/pnpm.ts): every key is split into a name and a version, the  *)
(* value gives the entry, and the entries of one name are collected.       *)
(*                                                                         *)
(* A key is a sequence of tokens: the separators the parser looks for are  *)
(* tokens of their own, everything between two of them is one token.  A    *)
(* token in Digits is one that starts with a digit.                        *)
(***************************************************************************)
EXTENDS Naturals, Sequences, SequencesExt

CONSTANTS Digits,      \* tokens that start with a digit: versions, and some names
          Protocols,   \* tokens that spell the scheme of a URL, "://" included
          Sections     \* the sequences of <<key, value>> a lockfile may hold

VARIABLES section,     \* what is left of the section
          entries,     \* name -> the entries read for it, in order
          skipped      \* keys named in a pnpm-lockfile-invalid-entry diagnostic
vars == <<section, entries, skipped>>

NoPackage == [name |-> <<>>, version |-> <<>>]

From(key, i) == SubSeq(key, i, Len(key))
Upto(key, i) == SubSeq(key, 1, i)
Before(key, token) ==
  IF Contains(key, token)
  THEN Upto(key, (CHOOSE i \in DOMAIN key : key[i] = token /\ ~Contains(Upto(key, i - 1), token)) - 1)
  ELSE key

(***************************************************************************)
(* The slash-separated keys of lockfile version 5: a slash, a plain or a   *)
(* scoped name, a slash, and a version that starts with a digit and has no *)
(* slash, with the peer suffix after an underscore.                        *)
(***************************************************************************)
V5At(key) ==
  {i \in DOMAIN key \ {1} :
     /\ key[1] = "/" /\ key[i] = "/"
     /\ i < Len(key) /\ key[i + 1] \in Digits /\ ~Contains(From(key, i + 1), "/")
     /\ LET name == SubSeq(key, 2, i - 1) IN
          \/ name /= <<>> /\ ~Contains(name, "/") /\ ~Contains(name, "@")
          \/ /\ Len(name) > 3 /\ name[1] = "@" /\ ~Contains(Tail(name), "@")
             /\ \E j \in 3..Len(name) - 1 : {k \in DOMAIN name : name[k] = "/"} = {j}}

SplitV5(key) ==
  LET i == CHOOSE j \in V5At(key) : TRUE IN
  [name |-> SubSeq(key, 2, i - 1), version |-> Before(From(key, i + 1), "_")]

\* Where a URL follows the first "@" that is not the first token of the key.
UrlAt(rest) ==
  {i \in 2..Len(rest) - 1 :
     rest[i] = "@" /\ rest[i + 1] \in Protocols /\ ~Contains(SubSeq(rest, 2, i - 1), "@")}

LastAt(rest) == {i \in 2..Len(rest) - 1 : rest[i] = "@" /\ ~Contains(From(rest, i + 1), "@")}

\* The keys of the versions after 5: name@version, cut at the peer suffix.
SplitAt(rest) ==
  LET ats == IF UrlAt(rest) /= {} THEN UrlAt(rest) ELSE LastAt(rest) IN
  IF ats = {} THEN NoPackage
  ELSE LET i == CHOOSE j \in ats : TRUE IN [name |-> Upto(rest, i - 1), version |-> From(rest, i + 1)]

Unslashed(key) == IF key[1] = "/" THEN Tail(key) ELSE key

\* A mutation: the peer suffix is left in place.
ParsePeersKept(key) ==
  IF ~Contains(key, "(") /\ V5At(key) /= {} THEN SplitV5(key) ELSE SplitAt(Unslashed(key))

parsePackageKey(key) ==
  IF ~Contains(key, "(") /\ V5At(key) /= {}
  THEN SplitV5(key)
  ELSE SplitAt(Before(Unslashed(key), "("))

\* The package-name grammar: one token, or a scope and one token.
NameGrammar(name) ==
  \/ Len(name) = 1 /\ name[1] \notin {"@", "/"}
  \/ Len(name) = 4 /\ name[1] = "@" /\ name[3] = "/"

(***************************************************************************)
(* The entry of a package.  A tarball names the source; failing that a git *)
(* resolution does, written as the URL the other readers would have seen.  *)
(* A repository that is neither a URL nor user@host:path gives no source.  *)
(***************************************************************************)
GitUrl(res) ==
  CASE res.repo = "git-url"  -> <<"git-url", res.commit>>
    [] res.repo = "http-url" -> <<"git+http-url", res.commit>>
    [] res.repo = "scp"      -> <<"git+ssh-url", res.commit>>
    [] OTHER                 -> <<>>

entryFromPackageValue(value, keyVersion) ==
  [version   |-> IF value.version = <<>> THEN keyVersion ELSE value.version,
   url       |-> IF value.res.tarball /= <<>> THEN value.res.tarball
                 ELSE IF value.res.type = "git" THEN GitUrl(value.res) ELSE <<>>,
   integrity |-> value.res.integrity,
   script    |-> value.requiresBuild]

lockEntriesEqual(a, b) ==
  /\ a.version = b.version
  /\ a.url = b.url
  /\ a.integrity = b.integrity
  /\ a.script = b.script

Append1(seq, entry) ==
  IF \E i \in DOMAIN seq : lockEntriesEqual(seq[i], entry) THEN seq ELSE Append(seq, entry)

-----------------------------------------------------------------------------
Init ==
  /\ section \in Sections
  /\ entries = [name \in {} |-> <<>>]
  /\ skipped = {}

Readable(key, value) ==
  /\ parsePackageKey(key) /= NoPackage
  /\ NameGrammar(parsePackageKey(key).name)
  /\ value.mapping

Skip ==
  /\ section /= <<>>
  /\ ~Readable(section[1][1], section[1][2])
  /\ skipped' = skipped \union {section[1][1]}
  /\ section' = Tail(section)
  /\ UNCHANGED entries

Read ==
  /\ section /= <<>>
  /\ Readable(section[1][1], section[1][2])
  /\ LET split == parsePackageKey(section[1][1])
         entry == entryFromPackageValue(section[1][2], split.version)
         held  == IF split.name \in DOMAIN entries THEN entries[split.name] ELSE <<>>
     IN  entries' = [name \in DOMAIN entries \union {split.name} |->
                       IF name = split.name THEN Append1(held, entry) ELSE entries[name]]
  /\ section' = Tail(section)
  /\ UNCHANGED skipped

Next == Skip \/ Read
Spec == Init /\ [][Next]_vars
=============================================================================
