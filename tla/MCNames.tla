------------------------------ MODULE MCNames ------------------------------
(***************************************************************************)
(* What is said of names, in one run.  A behaviour is about one subject,   *)
(* chosen at the start: which names of an installation are judged          *)
(* (InstalledNames), what a name resembles (NameResemblance), the distance *)
(* of two names (BandedDistance), or the Python names of a change          *)
(* (PythonNames).  The variables of the others stay as they are.           *)
(***************************************************************************)
EXTENDS InstalledNames, Sequences, SequencesExt, TLC

VARIABLES subject,
          a, b, maxK, row, previous, current, result,                   \* BandedDistance
          name, top, known, aliasOf, allowed, rule, match, outcome,     \* NameResemblance
          before, after, trusted, pending, reported                     \* PythonNames
installedVars == <<format, lock, declares, judged>>
distanceVars == <<a, b, maxK, row, previous, current, result>>
resemblanceVars == <<name, top, known, aliasOf, allowed, rule, match, outcome>>
pythonVars == <<before, after, trusted, pending, reported>>

------------------------------------------------------------------------------
(* A name and another one, installed in two places.                        *)
CONSTANTS key, other, p1, p2

MCKeyOf == p1 :> key @@ p2 :> key
Installed(field, url, bundled, unread, version) ==
  [field |-> field, url |-> url, bundled |-> bundled, unread |-> unread, version |-> version]

MCEntries == {
  Installed(NoName, NoUrl, FALSE, FALSE, "v1"),
  Installed(NoName, key, FALSE, FALSE, "v1"), Installed(NoName, key, FALSE, FALSE, "v2"),
  Installed(NoName, other, FALSE, FALSE, "v1"),
  Installed(other, other, FALSE, FALSE, "v1"), Installed(other, key, FALSE, FALSE, "v1"),
  Installed(other, NoUrl, FALSE, FALSE, "v1"), Installed(other, NoUrl, FALSE, TRUE, "v1"),
  Installed(NoName, NoUrl, TRUE, FALSE, "v1"),
  Installed(NoName, Elsewhere, FALSE, FALSE, "v1"), Installed(other, Elsewhere, FALSE, FALSE, "v1"),
  Installed(NoName, NoUrl, FALSE, FALSE, "local") }

MCEdges == {{}, {<<key, other>>}}

------------------------------------------------------------------------------
(* Every pair of names up to six letters of two.                           *)
CONSTANTS Alphabet, MaxLength

Distance == INSTANCE BandedDistance

ASSUME DistanceAssumption == MaxLength \in Nat

------------------------------------------------------------------------------
(* Names of up to four characters, from a letter, scoped ones, short and   *)
(* long, and names of the wider band, against popularity lists they come   *)
(* close to: in the same scope, across scopes, beside a sibling, and two   *)
(* edits away.                                                             *)
Letters == {"a", "q", "-", "_"}
ScopedNames == {<<"@", "a", "/">> \o s : s \in BoundedSeq({"a", "q"}, 2) \ {<<>>}}
                 \cup {<<"@", "q", "/", "a">>, <<"@", "/", "a">>, <<"@", "a", "/">>,
                       <<"@", "a", "/", "q", "a", "q", "a", "q", "a", "q">>}
LongNames == {<<"a", "q", "a", "q", "a", "q", "a">>, <<"q", "q", "q", "a", "q", "q">>,
              <<"a", "a", "a", "q", "q", "a">>, <<"q", "a", "a", "q", "a", "a", "q">>}
ShortNames == {<<c>> \o s : c \in {"a", "q"}, s \in BoundedSeq(Letters, 3)}
NewNames == ShortNames \cup ScopedNames \cup LongNames

PopularNames == {
  <<<<"a", "q">>, <<"a", "-", "q">>, <<"@", "a", "/", "q", "q">>>>,
  <<<<"a", "q", "a">>, <<"@", "a", "/", "q">>, <<"a", "q", "a", "a">>>>,
  <<<<"a", "_", "q", "-", "a">>, <<"q", "a", "q">>, <<"@", "q", "/", "a">>>>,
  <<<<"q", "_", "a">>, <<"q", "-", "a">>, <<"a", "-", "q", "q">>>>,
  <<<<"@", "a", "/", "a", "q">>, <<"@", "a", "/", "q", "q">>, <<"@", "q", "/", "a", "a">>, <<"a", "q", "a", "q", "a">>>>,
  <<<<"q", "a", "q", "q", "a", "a">>, <<"a", "a", "a", "a">>, <<"q", "a", "q", "a", "q", "a", "a", "q">>>>,
  <<<<"@", "a", "/", "q", "a", "q", "a", "q", "a", "a", "a">>, <<"@", "q", "/", "q", "a", "q", "a", "q", "a", "q">>>> }

Neighbours == [c \in Letters \cup {"@", "/"} |->
                 IF c = "a" THEN <<"q">> ELSE IF c = "q" THEN <<"a">> ELSE <<>>]

CONSTANTS Names, Tops, Keyboard

Resemblance == INSTANCE NameResemblance WITH Near <- Keyboard, ShortLength <- 6, MinTarget <- 3

ASSUME ResemblanceAssumption == Resemblance!ResemblanceConstants

------------------------------------------------------------------------------
(* A swap of two letters beside a third name one edit away; a repeated     *)
(* letter and its longer spelling; two names of the longer band.           *)
PythonOrder == [c \in {"a", "b", "c", "d"} |-> CASE c = "a" -> 1 [] c = "b" -> 2 [] c = "c" -> 3 [] OTHER -> 4]
PythonNear == [c \in DOMAIN PythonOrder |-> IF c = "c" THEN <<"d">> ELSE IF c = "d" THEN <<"c">> ELSE <<>>]

Families == {
  {<<"a", "b", "c">>, <<"a", "c", "b">>, <<"a", "b", "c", "d">>},
  {<<"a", "a", "b">>, <<"a", "b">>, <<"b", "a", "b">>},
  {<<"b", "a", "c", "d">>, <<"b", "a", "d", "d">>, <<"b", "a", "d">>},
  {<<"b", "c", "d", "a", "b", "a">>, <<"a", "b", "c", "d", "a", "b", "a", "b">>} }

UvLocks(F, kinds) == UNION {[S -> kinds] : S \in SUBSET F}
PythonSides(F, kinds, reads) ==
  [beside : SUBSET F, apart : SUBSET F, lock : UvLocks(F, kinds), lockRead : reads]

PythonAfters(F) == {s \in PythonSides(F, {"index"}, {TRUE}) :
                      Cardinality(s.beside) <= 2 /\ Cardinality(s.apart) <= 1}
PythonBefores(F) == {s \in PythonSides(F, {"index", "excluded"}, BOOLEAN) :
                       /\ Cardinality(s.beside) <= 1 /\ s.apart = {}
                       /\ Cardinality(DOMAIN s.lock) <= 1 /\ DOMAIN s.lock \cap s.beside = {}
                       /\ s.lockRead \/ s.lock = <<>>}

PythonChanges ==
  UNION {[before : PythonBefores(F), after : PythonAfters(F), trusted : {{}, {<<"a", "b", "c">>} \cap F}] :
           F \in Families}

CONSTANTS Changes, Near, Alphabetic

PyNames == INSTANCE PythonNames WITH ShortLength <- 6, MinTarget <- 3

ASSUME PythonAssumption == PyNames!PythonConstants

------------------------------------------------------------------------------
Idle == "idle"
NoDistance == a = Idle /\ b = Idle /\ maxK = Idle /\ row = Idle /\ previous = Idle /\ current = Idle /\ result = Idle
NoResemblance == /\ name = Idle /\ top = Idle /\ known = Idle /\ aliasOf = Idle
                 /\ allowed = Idle /\ rule = Idle /\ match = Idle /\ outcome = Idle
NoPython == before = Idle /\ after = Idle /\ trusted = Idle /\ pending = Idle /\ reported = Idle
\* A repository in which nothing is installed yet, and stays so.
NoInstallation == Init /\ format = "npm"

MCInit ==
  \/ subject = "installed"   /\ Init             /\ NoDistance     /\ NoResemblance /\ NoPython
  \/ subject = "distance"    /\ Distance!Init    /\ NoInstallation /\ NoResemblance /\ NoPython
  \/ subject = "resemblance" /\ Resemblance!Init /\ NoInstallation /\ NoDistance    /\ NoPython
  \/ subject = "python"      /\ PyNames!Init     /\ NoInstallation /\ NoDistance    /\ NoResemblance

InstalledStep == subject = "installed" /\ Next /\ UNCHANGED <<subject, distanceVars, resemblanceVars, pythonVars>>
DistanceStep == subject = "distance" /\ Distance!Next /\ UNCHANGED <<subject, installedVars, resemblanceVars, pythonVars>>
ResemblanceStep == subject = "resemblance" /\ Resemblance!Next /\ UNCHANGED <<subject, installedVars, distanceVars, pythonVars>>
PythonStep == subject = "python" /\ PyNames!Next /\ UNCHANGED <<subject, installedVars, distanceVars, resemblanceVars>>

MCNext == InstalledStep \/ DistanceStep \/ ResemblanceStep \/ PythonStep

MCSpec == MCInit /\ [][MCNext]_<<subject, installedVars, distanceVars, resemblanceVars, pythonVars>>

------------------------------------------------------------------------------
(* The properties, each of its subject; see the modules for what they say. *)
(* InstalledWasJudged holds of the others, where nothing is installed.     *)
BandedIsLevenshtein == subject = "distance" => Distance!BandedIsLevenshtein
ResemblanceIsSeen == subject = "resemblance" => Resemblance!ResemblanceIsSeen
MutualPairOnce == subject = "python" => PyNames!MutualPairOnce
=============================================================================
