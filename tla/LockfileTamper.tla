--------------------------- MODULE LockfileTamper ---------------------------
(***************************************************************************)
(* The lockfile tamper check (checks/tamper.ts) together with the part of  *)
(* the dependency delta that feeds it (delta.ts): the entries one package  *)
(* name has in the comparison side's lockfile and in the judged side's,    *)
(* the pairing of each changed entry with the earlier entries it may       *)
(* succeed, the comparison run against each of them, and the map of        *)
(* findings, one per signal, in which the worse of two is kept.            *)
(*                                                                         *)
(* One behaviour is one scan of one name.  First the manifest walk takes   *)
(* the dependencies declared under the name, one step each; then the       *)
(* lockfile walk takes the judged side's entries, one step each.           *)
(***************************************************************************)
EXTENDS Integers, Sequences, FiniteSets, SequencesExt

CONSTANTS
  Name,           \* the package name the entries are recorded under
  RegistryHosts,  \* hosts of the default registry and of the .npmrc pins
  ForgeHosts,     \* https hosts that serve git archives (GIT_FORGE_ARCHIVE_HOSTS)
  Implied,        \* Implied[v]: the registry tarball URL of Name at version v
  None,           \* an absent field
  Inputs          \* the situations: see InputOK

VARIABLES
  input,   \* the two sides of this name, its declarations, format, base
  at,      \* declarations and entries judged so far
  raised,  \* every finding reported to `report`, kept or not (history)
  held     \* signal -> the finding kept for it

vars == <<input, at, raised, held>>

Severities == [low |-> 1, medium |-> 2, high |-> 3, critical |-> 4]
SeverityRank(s) == Severities[s]

(* A finding carries what the dedupe reads; a signal is <<name, subject>>. *)
Found(signal, severity, pinned) ==
  [signal |-> signal, severity |-> severity, pinned |-> pinned]
When(cond, f) == IF cond THEN {f} ELSE {}

-----------------------------------------------------------------------------
(* Where an entry resolves.  A URL that does not parse keeps its text as   *)
(* `path`; a hostless one has its path as its origin.                      *)

Origin(u) == <<u.proto, IF u.host = None THEN u.path ELSE u.host>>
OriginOf(u) == IF u = None \/ ~u.readable THEN None ELSE Origin(u)

ResolutionKind(u) ==
  CASE u.proto \in {"git", "git+ssh", "git+https", "git+http", "git+file", "ssh"} -> "git"
    [] u.proto = "file" -> "file"
    [] u.proto \in {"http", "https"} ->
         IF u.host \in ForgeHosts THEN "git" ELSE "registry"
    [] OTHER -> "url"

(* What the constants are; whoever instantiates the module assumes it.  An *)
(* http URL that parses has a host.                                        *)
EntryOK(e) ==
  /\ e = [version |-> e.version, url |-> e.url, hash |-> e.hash,
          script |-> e.script, nameField |-> e.nameField]
  /\ e.hash # None => e.hash.alg \in Nat
  /\ e.url # None /\ e.url.readable =>
       /\ Origin(e.url) # None
       /\ e.url.proto \in {"http", "https"} => e.url.host # None

InputOK(i) ==
  /\ i.before \in Seq(Range(i.before)) /\ i.after \in Seq(Range(i.after)) /\ i.deps \in Seq(Range(i.deps))
  /\ \A e \in Range(i.before) \cup Range(i.after) : EntryOK(e)

TamperConstants == \A i \in Inputs : InputOK(i)

SameOriginPair(b, a) ==
  \/ b.url = a.url
  \/ /\ OriginOf(b.url) # None
     /\ OriginOf(b.url) = OriginOf(a.url)

SameOriginRegistryPathMove(b, a) ==
  /\ OriginOf(b.url) # None
  /\ OriginOf(b.url) = OriginOf(a.url)
  /\ ResolutionKind(b.url) = "registry"
  /\ ResolutionKind(a.url) = "registry"
  /\ b.url.path # a.url.path

(* A pnpm entry that names no URL is the registry tarball of its own name. *)
ImpliedRegistryEntry(e) ==
  IF input.format = "pnpm" /\ e.url = None /\ e.hash # None /\ e.version # None
  THEN [e EXCEPT !.url = Implied[e.version]]
  ELSE e

-----------------------------------------------------------------------------
(* One earlier entry against one judged entry: the nine comparison         *)
(* signals.  hash.alg is 0 when no algorithm of the value is known.        *)

IntegrityVerdict(b, a) ==
  IF 0 \in {b.alg, a.alg} \/ b.alg = a.alg THEN "forged"
  ELSE IF a.alg > b.alg THEN "fine" ELSE "downgraded"

\* Mutant of IntegritySignals.
MutSameUrlOnly(b, a) ==
  CASE b.hash # None /\ a.hash = None ->
         {Found(<<"integrity-removed", None>>, "critical", FALSE)}
    [] b.hash # None /\ b.hash # a.hash /\ b.version = a.version /\ b.url = a.url ->
         When(IntegrityVerdict(b.hash, a.hash) = "forged",
              Found(<<"integrity-changed", None>>, "critical", FALSE))
    [] OTHER -> {}

IntegritySignals(b, a) ==
  LET rewritten == /\ b.hash # None /\ a.hash # None /\ b.hash # a.hash
                   /\ b.version = a.version
      ladder == IntegrityVerdict(b.hash, a.hash)
      verdict == IF ladder = "fine" /\ input.npmrcChanged THEN "forged" ELSE ladder
  IN CASE b.hash # None /\ a.hash = None ->
            {Found(<<"integrity-removed", None>>, "critical", FALSE)}
       [] rewritten /\ SameOriginPair(b, a) /\ b.url # a.url ->
            {Found(<<"tarball-repointed", OriginOf(a.url)>>, "critical", FALSE)}
       [] rewritten /\ b.url = a.url ->
            When(verdict = "forged", Found(<<"integrity-changed", None>>, "critical", FALSE))
            \cup When(verdict = "downgraded",
                      Found(<<"integrity-downgraded", None>>, "critical", FALSE))
       [] rewritten /\ (b.url = None) # (a.url = None) ->
            {Found(<<IF ladder = "downgraded" THEN "integrity-downgraded"
                     ELSE "integrity-changed", None>>, "critical", FALSE)}
       [] /\ b.hash = None /\ b.version = a.version
          /\ SameOriginRegistryPathMove(b, a) ->
            {Found(<<"tarball-repointed-unverified", OriginOf(a.url)>>, "high", FALSE)}
       [] OTHER -> {}

BytesVouchedFor(b, a) == b.hash # None /\ a.hash = b.hash

BenignUpgrade(b, a) == b.url.proto = "http" /\ a.url.proto = "https"

ResolutionSignals(b, a) ==
  LET origin == OriginOf(a.url)
      toGoOn == OriginOf(b.url) # None \/ origin # None \/ b.hash # a.hash
      heldAndHashless == /\ b.hash = None /\ a.hash = None
                         /\ b.version # None /\ b.version = a.version
      unreadable == Found(<<"resolution-unreadable", None>>,
                          IF toGoOn THEN "critical" ELSE "high", FALSE)
  IN IF None \in {b.url, a.url} THEN {}
     ELSE IF None \in {OriginOf(b.url), origin}
     THEN When(b.url # a.url /\ ~BytesVouchedFor(b, a) /\ (toGoOn \/ heldAndHashless), unreadable)
     ELSE IF b.url.host # a.url.host
     THEN {Found(<<"host-changed", origin>>, "critical", FALSE)}
     ELSE IF b.url.proto # a.url.proto
     THEN When(~BenignUpgrade(b, a), Found(<<"scheme-downgrade", origin>>, "critical", FALSE))
     ELSE When(Origin(b.url) # origin /\ ~BytesVouchedFor(b, a),
               Found(<<"local-source-changed", None>>, "critical", FALSE))

Compare(before, after) ==
  LET b == ImpliedRegistryEntry(before)
      a == ImpliedRegistryEntry(after)
  IN IntegritySignals(b, a) \cup ResolutionSignals(b, a)

-----------------------------------------------------------------------------
(* Pairing a changed entry with the earlier ones, and what to report when  *)
(* more than one is left.                                                  *)

ResolutionIdentity(e) == <<e.version, e.url, e.hash, e.script, e.nameField>>

(* pickCounterpart: the places of the earlier entries this one may succeed, *)
(* narrowed rung by rung; a rung that would leave none is skipped.         *)
Narrow(places, kept) == IF places \cap kept # {} THEN places \cap kept ELSE places

Candidates(after, entries) ==
  LET all         == DOMAIN entries
      sameVersion == IF after.version = None THEN all
                     ELSE {i \in all : entries[i].version = after.version}
      sameUrl     == {i \in all : entries[i].url # None /\ entries[i].url = after.url}
      sameOrigin  == {i \in all : /\ OriginOf(after.url) # None
                                  /\ OriginOf(entries[i].url) = OriginOf(after.url)}
      sameScript  == {i \in all : entries[i].script = after.script}
  IN Narrow(Narrow(Narrow(Narrow(all, sameVersion), sameUrl), sameOrigin), sameScript)

Signals(fs) == {f.signal : f \in fs}

First(places) == CHOOSE i \in places : \A j \in places : i <= j

\* Mutant of CertainFindings.
MutNoEscalation(candidates, after, entries) ==
  {f \in Compare(entries[First(candidates)], after) :
     \A i \in candidates : f.signal \in Signals(Compare(entries[i], after))}

(* agreementAcrossCandidates and certainFindings: a signal every candidate *)
(* raises is reported with the first candidate's severity; of one that     *)
(* only some raise the first finding counts, and if that is critical for   *)
(* one of them there is one high.                                          *)
Raising(signal, candidates, after, entries) ==
  {i \in candidates : signal \in Signals(Compare(entries[i], after))}

Agreed(candidates, after, entries) ==
  {f \in Compare(entries[First(candidates)], after) :
     Raising(f.signal, candidates, after, entries) = candidates}

Dropped(candidates, after, entries) ==
  UNION {{f \in Compare(entries[i], after) :
            LET raising == Raising(f.signal, candidates, after, entries)
            IN raising # candidates /\ First(raising) = i} : i \in candidates}

AmbiguousCritical == Found(<<"ambiguous-critical", None>>, "high", FALSE)

CertainFindings(candidates, after, entries) ==
  Agreed(candidates, after, entries)
  \cup When(\E f \in Dropped(candidates, after, entries) : f.severity = "critical",
            AmbiguousCritical)

-----------------------------------------------------------------------------
(* What an entry says on its own.                                          *)

OnRegistry(u) ==
  /\ u # None /\ u.readable
  /\ ResolutionKind(u) = "registry"
  /\ u.host \in RegistryHosts

(* tarballIdentityFindings: a tarball on a trusted registry host is the    *)
(* package and the version its entry records.  path.pkg is None when the   *)
(* path does not have the shape of a registry tarball.                     *)
TarballFindings(e, candidates, declared) ==
  LET path == e.url.path
      earlier == {c.url.path.pkg : c \in {d \in candidates : /\ d.url # None
                                                            /\ d.url.readable
                                                            /\ d.url.path.pkg # None}}
      alias == IF candidates = {} /\ ~declared /\ e.nameField \in input.aliasTargets
               THEN {e.nameField} ELSE {}
      expected == {Name} \cup earlier \cup alias
  IN IF ~OnRegistry(e.url) THEN {}
     ELSE IF path.pkg = None
     THEN {Found(<<"unparseable-tarball", e.url.host>>, "medium", FALSE)}
     ELSE IF path.pkg \notin expected
     THEN {Found(<<"tarball-name-mismatch", path.pkg>>, "critical", FALSE)}
     ELSE When(e.version # None /\ path.ver # None /\ path.ver # e.version,
               Found(<<"tarball-version-mismatch", None>>, "high", FALSE))

UnvouchedName(e, candidates) ==
  When(/\ input.format = "npm"
       /\ OriginOf(e.url) = None
       /\ e.nameField \notin {None, Name} \cup input.aliasTargets
       /\ \A c \in candidates : c.nameField # e.nameField,
       Found(<<"name-field-unvouched", e.nameField>>, "medium", FALSE))

(* lockEntrySource: protocol, host, whether the ref is a commit id, and    *)
(* the identity of the source without its ref; None for a registry.        *)
LockEntrySource(e) ==
  IF e.url = None \/ ~e.url.readable THEN None
  ELSE LET kind == ResolutionKind(e.url)
       IN CASE kind = "git" ->
                 [protocol |-> "git", host |-> e.url.host, pinned |-> e.url.pinned,
                  shaped |-> FALSE, identity |-> <<"git", e.url.host, e.url.path>>]
            [] kind = "url" \/ (kind = "registry" /\ e.url.host \notin RegistryHosts) ->
                 [protocol |-> "url", host |-> e.url.host, pinned |-> FALSE,
                  shaped |-> kind = "registry" /\ e.url.path.pkg # None,
                  identity |-> <<"url", e.url.host, e.url.path>>]
            [] OTHER -> None

SourceSwap(protocol, host, pinned) ==
  Found(<<IF protocol = "git" THEN "git-source" ELSE "url-source", host>>,
        IF pinned /\ ~input.compared THEN "low" ELSE "critical",
        protocol = "git" /\ pinned)

-----------------------------------------------------------------------------
(* The manifest walk selects one entry per side for a declaration.         *)

SelectEntry(entries, wants) ==
  LET fits == SelectSeq(entries, LAMBDA e : e.version # None /\ e.version = wants)
  IN IF entries = <<>> THEN None
     ELSE IF Len(fits) = 1 THEN fits[1] ELSE entries[Len(entries)]

LockEntriesDiffer(b, a) ==
  \/ (b = None) # (a = None)
  \/ /\ b # None /\ a # None
     /\ \/ <<b.version, b.hash, b.url>> # <<a.version, a.hash, a.url>>
        \/ ~b.script /\ a.script

(* computeDelta passes on a declaration that moved, or whose entry did. *)
Before(d) == SelectEntry(input.before, d.wanted)
After(d)  == SelectEntry(input.after, d.wants)
Moved(d)  == ~d.specifierHeld \/ LockEntriesDiffer(Before(d), After(d))
OffRegistry(d) == d.protocol \in {"git", "url"}

DeclarationFindings(d) ==
  IF ~Moved(d) THEN {}
  ELSE (IF OffRegistry(d)
        THEN {SourceSwap(d.protocol, d.source.host, d.source.pinned)} ELSE {})
       \cup (IF None \in {Before(d), After(d)} THEN {} ELSE Compare(Before(d), After(d)))

(* The lockfile walk: an added entry's own source, unless a declaration    *)
(* reported that very source.                                              *)
SourceReported ==
  {<<d.protocol, d.source.host, d.source.path>> :
     d \in {c \in Range(input.deps) : OffRegistry(c) /\ Moved(c)}}

AddedSource(e) ==
  LET s == LockEntrySource(e)
  IN IF s = None \/ s.identity \in SourceReported THEN {}
     ELSE IF s.protocol = "git" THEN {SourceSwap("git", s.host, s.pinned)}
     ELSE {Found(<<"url-source", s.host>>, IF s.shaped THEN "high" ELSE "critical", FALSE)}

Unchanged(e, entries) ==
  \E b \in Range(entries) : ResolutionIdentity(b) = ResolutionIdentity(e)

EntryFindings(e, entries) ==
  LET candidates == Candidates(e, entries)
      earlier    == {entries[i] : i \in candidates}
  IN IF Unchanged(e, entries) THEN {}
     ELSE TarballFindings(e, earlier, input.deps # <<>>)
          \cup UnvouchedName(e, earlier)
          \cup (IF entries = <<>> THEN AddedSource(e) ELSE CertainFindings(candidates, e, entries))

-----------------------------------------------------------------------------
(* report: one finding per signal; on a collision the worse one is kept.   *)

WorseThan(f, g) ==
  \/ SeverityRank(f.severity) > SeverityRank(g.severity)
  \/ f.severity = g.severity /\ g.pinned /\ ~f.pinned

Report(h, fs) ==
  LET new(s) == CHOOSE f \in fs : f.signal = s
  IN [s \in DOMAIN h \cup Signals(fs) |->
        IF s \in DOMAIN h /\ (s \in Signals(fs) => ~WorseThan(new(s), h[s]))
        THEN h[s] ELSE new(s)]

Init ==
  /\ input \in Inputs
  /\ at = 0
  /\ raised = {}
  /\ held = <<>>

Take(fs) ==
  /\ at' = at + 1
  /\ raised' = raised \cup fs
  /\ held' = Report(held, fs)
  /\ UNCHANGED input

JudgeDeclaration ==
  /\ at < Len(input.deps)
  /\ Take(DeclarationFindings(input.deps[at + 1]))

JudgeEntry ==
  /\ at >= Len(input.deps)
  /\ at < Len(input.deps) + Len(input.after)
  /\ Take(EntryFindings(input.after[at + 1 - Len(input.deps)], input.before))

Done == at = Len(input.deps) + Len(input.after)

Next == JudgeDeclaration \/ JudgeEntry \/ (Done /\ UNCHANGED vars)

Spec == Init /\ [][Next]_vars

-----------------------------------------------------------------------------
(* Whatever order the declarations and the entries come in, the finding    *)
(* that stands for a signal is a worst one of those raised under it: a     *)
(* pinned line above a branch line of one dependency cannot make the pair  *)
(* read as pinned (tamper.ts, report and worseThan).                       *)
WorstIsKept ==
  \A f \in raised : f.signal \in DOMAIN held /\ ~WorseThan(f, held[f.signal])

\* Signals that two earlier entries raise against this one differently.
Raised(e) == UNION {Compare(b, e) : b \in Range(input.before)}
Undecided(e) == {f.signal : f \in {g \in Raised(e) : \E h \in Raised(e) : h.signal = g.signal /\ h # g}}

(* No positional pick decides a verdict (delta.ts, pickCounterpart;        *)
(* tamper.ts, certainFindings): whatever order the earlier lockfile lists  *)
(* its entries in, the lockfile walk reports the same findings of an       *)
(* entry, when no signal is undecided.  When one is - raised by two        *)
(* earlier entries at different severities, as only resolution-unreadable  *)
(* is - the order does decide: it says which severity that signal is       *)
(* reported with, the first candidate's (AgreedIsTrueOfEach), and whether  *)
(* what was dropped is reported (DroppedCriticalIsReported).  The other    *)
(* findings are still the same, and so are the signals.                    *)
BeforeOrderIrrelevant ==
  Done => \A e \in Range(input.after) :
    LET here  == EntryFindings(e, input.before)
        there == EntryFindings(e, Reverse(input.before))
        lost  == AmbiguousCritical.signal
        settled(fs) == {f \in fs : f.signal \notin Undecided(e) \cup {lost}}
    IN /\ Undecided(e) = {} => here = there
       /\ settled(here) = settled(there)
       /\ Signals(here) \ {lost} = Signals(there) \ {lost}

(* "Verdicts every candidate reached.  Reportable: whichever earlier entry *)
(* this one succeeds, this is true of it" (agreement.ts:24): a finding     *)
(* that is reported as agreed is one that every candidate raised.          *)
AgreedIsTrueOfEach ==
  Done => \A e \in Range(input.after) :
    LET candidates == Candidates(e, input.before)
    IN candidates # {} => \A f \in Agreed(candidates, e, input.before) : \A i \in candidates :
         f \in Compare(input.before[i], e)

(* "A dropped CRITICAL means some candidate said this entry was tampered   *)
(* with [...] So the drop is reported as what it actually is" (tamper.ts,  *)
(* certainFindings): a critical finding against a candidate the others do  *)
(* not share raises the ambiguous one.                                     *)
DroppedCriticalIsReported ==
  Done => \A e \in Range(input.after) :
    LET candidates == Candidates(e, input.before)
    IN ~Unchanged(e, input.before) =>
       \A i \in candidates : \A f \in Compare(input.before[i], e) :
         /\ f.severity = "critical"
         /\ Raising(f.signal, candidates, e, input.before) # candidates
         => AmbiguousCritical.signal \in DOMAIN held

(* An entry that is a critical finding against every earlier entry of its  *)
(* name, not necessarily the same one, is reported at high or worse:       *)
(* disagreement between candidates never quiets the scan.                  *)
CriticalIsSeen ==
  Done => \A e \in Range(input.after) :
    (/\ input.before # <<>>
     /\ \A b \in Range(input.before) : \E f \in Compare(b, e) : f.severity = "critical")
    => \E s \in Signals(EntryFindings(e, input.before)) :
         s \in DOMAIN held /\ SeverityRank(held[s].severity) >= SeverityRank("high")

(* The worst of what is raised is what is held; the order of the earlier   *)
(* entries decides nothing but the severity of an undecided signal and the *)
(* finding about a dropped one; and disagreement between them never makes  *)
(* what is critical against each of them look less than high.              *)
TamperIsSeen == WorstIsKept /\ BeforeOrderIrrelevant /\ CriticalIsSeen

(* What silence about a registry entry at a held version means: for some   *)
(* entry it may succeed, the origin held and either equal hashes vouch for *)
(* the bytes or the tarball path held and no hash was lost or rewritten,   *)
(* a move to a stronger algorithm at the same URL apart.  The one-way move *)
(* from http to https is left to UpgradeMovesNothingElse.                  *)
Accounted(b, e) ==
  /\ SameOriginPair(b, e)
  /\ \/ BytesVouchedFor(b, e)
     \/ /\ b.url.path = e.url.path
        /\ \/ b.hash = None
           \/ b.url = e.url /\ e.hash # None /\ b.hash.alg > 0 /\ e.hash.alg > b.hash.alg

OnOneRegistryVersion(b, e) ==
  /\ b.url # None /\ e.url # None
  /\ b.url.readable /\ e.url.readable
  /\ ResolutionKind(b.url) = "registry" /\ ResolutionKind(e.url) = "registry"
  /\ b.version # None /\ b.version = e.version

SilenceIsAccountedFor ==
  Done => \A e \in Range(input.after) :
    (/\ input.before # <<>>
     /\ EntryFindings(e, input.before) = {}
     /\ \A b \in Range(input.before) : OnOneRegistryVersion(b, e) /\ ~BenignUpgrade(b, e))
    => \E b \in Range(input.before) : Accounted(b, e)

(* tamper.ts calls a move from http to https benign when it is a registry  *)
(* finishing a TLS migration "with nothing else different": the same       *)
(* version's hash has not been rewritten as well.                          *)
UpgradeMovesNothingElse ==
  Done => \A e \in Range(input.after), b \in Range(input.before) :
    (/\ Len(input.before) = 1
     /\ OnOneRegistryVersion(b, e) /\ BenignUpgrade(b, e) /\ b.url.host = e.url.host
     /\ EntryFindings(e, input.before) = {})
    => b.hash = None \/ b.hash = e.hash \/ e.hash.alg > b.hash.alg

=============================================================================
