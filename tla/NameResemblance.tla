-------------------------- MODULE NameResemblance ---------------------------
(***************************************************************************)
(* The npm resemblance check on one new name (checks/typosquat.ts): the    *)
(* alias list, the exemption of a popular name, then the rules in their    *)
(* fixed order.  The popularity list is reduced, as in the code, to an     *)
(* index of lengths and of first-listed forms, and the rules consult that. *)
(***************************************************************************)
EXTENDS Naturals, Sequences, SequencesExt, FiniteSetsExt, NameRules

CONSTANTS
  Names,         \* the new names: sequences of characters
  Tops,          \* popularity lists, in rank order
  Near,          \* KEYBOARD_NEIGHBOURS
  ShortLength,   \* SHORT_NAME_MAX_LENGTH
  MinTarget      \* MIN_RESEMBLANCE_TARGET_LENGTH

VARIABLES
  name, top,
  known,         \* the corpus has the name
  aliasOf,       \* what the alias lists say it is confused with, in order
  allowed,       \* the allow list covers the name
  rule,          \* the rule to try, then "done"
  match,         \* {} or {[rule, target]}
  outcome        \* "critical", "low", "cleared", "none"

vars == <<name, top, known, aliasOf, allowed, rule, match, outcome>>

Order == <<"alias-list", "ranked", "separator-swap", "scope-flattening", "character-repetition",
           "character-transposition", "keyboard-adjacency", "edit-distance", "report">>

Init ==
  /\ name \in Names /\ top \in Tops
  /\ known \in BOOLEAN /\ allowed \in BOOLEAN
  /\ (\E i \in DOMAIN top : top[i] = name) => known
  /\ aliasOf \in {<<>>, <<top[1]>>}
  /\ rule = 1 /\ match = {} /\ outcome = "none"

(* Every name is a sequence of characters with one at least; a list ranks  *)
(* one name at least; the keys beside a key are characters.                *)
ResemblanceConstants ==
  LET Name == Seq(DOMAIN Near) \ {<<>>}
  IN /\ Names \subseteq Name /\ \A t \in Tops : t \in Seq(Name) /\ t # <<>>
     /\ \A c \in DOMAIN Near : Near[c] \in Seq(DOMAIN Near)

Slashes(n) == {i \in DOMAIN n : n[i] = "/"}
Cut(n) == Min(Slashes(n))
Scoped(n) == n[1] = "@" /\ Slashes(n) # {} /\ Cut(n) > 2 /\ Cut(n) < Len(n)
FlattenScope(n) == SubSeq(n, 2, Cut(n) - 1) \o <<"-">> \o SubSeq(n, Cut(n) + 1, Len(n))
Tail2(n) == SubSeq(n, Cut(n) + 1, Len(n))
SameScope(n, t) == Scoped(n) /\ Scoped(t) /\ SubSeq(n, 1, Cut(n)) = SubSeq(t, 1, Cut(t))
NormalizeSeparators(n) == [i \in DOMAIN n |-> IF n[i] = "_" THEN "-" ELSE n[i]]

Ranked == Range(top)
Lengths == {Len(t) : t \in Ranked}

(* What probe accepts.                                                     *)
Targets == {t \in Ranked : Len(t) >= MinTarget /\ t # name}

(* The first name of the list with P, when it is a target.                 *)
First(P(_)) ==
  LET at == {i \in DOMAIN top : P(top[i])}
  IN IF at = {} THEN {} ELSE {top[Min(at)]} \cap Targets

SeparatorMatch ==
  IF Len(name) \notin Lengths THEN {}
  ELSE LET SameForm(t) == NormalizeSeparators(t) = NormalizeSeparators(name) IN First(SameForm)

ScopeMatch ==
  LET flat == IF Scoped(name) THEN {FlattenScope(name)} \cap Targets ELSE {}
      FlattensToName(t) == Scoped(t) /\ FlattenScope(t) = name
  IN IF flat # {} THEN flat ELSE First(FlattensToName)

RepetitionMatch ==
  LET collapsed == CollapseRuns(name)
  IN IF Len(collapsed) = Len(name) THEN {}
     ELSE IF Len(collapsed) \in Lengths /\ collapsed \in Targets THEN {collapsed}
     ELSE IF Len(name) - 1 \in Lengths THEN FirstHit(RepeatsDropped(name), Targets)
     ELSE {}

SameLength(candidates) == IF Len(name) \in Lengths THEN FirstHit(candidates, Targets) ELSE {}

Band(n) == IF Len(n) <= ShortLength THEN 1 ELSE 2

(* Two names of one scope are compared, and sized, by what follows it.     *)
Distance(t) ==
  IF SameScope(name, t) THEN Within(Tail2(name), Tail2(t), Band(Tail2(name)))
  ELSE Within(name, t, Band(name))

\* Mutant of DistanceMatch: the best distance so far starts at 2 for every name.
BestStartsAtTwo ==
  LET close == {i \in DOMAIN top : Len(top[i]) >= MinTarget /\ Distance(top[i]) \notin {0, TooFar}
                                     /\ Distance(top[i]) < 2}
  IN IF close = {} THEN {} ELSE {top[Min(close)]}

DistanceMatch ==
  LET close == {i \in DOMAIN top : Len(top[i]) >= MinTarget /\ Distance(top[i]) \notin {0, TooFar}}
  IN IF close = {} THEN {}
     ELSE LET best == Min({Distance(top[i]) : i \in close})
          IN {top[Min({i \in close : Distance(top[i]) = best})]}

Rule == IF rule \in DOMAIN Order THEN Order[rule] ELSE "over"

Hit ==
  CASE Rule = "separator-swap" -> SeparatorMatch
    [] Rule = "scope-flattening" -> ScopeMatch
    [] Rule = "character-repetition" -> RepetitionMatch
    [] Rule = "character-transposition" -> SameLength(Transposed(name))
    [] Rule = "keyboard-adjacency" -> SameLength(KeyNeighbours(name, Near))
    [] Rule = "edit-distance" -> DistanceMatch

Found(t) == match' = {[rule |-> Rule, target |-> t]} /\ rule' = Len(Order)

AliasList ==
  /\ Rule = "alias-list"
  /\ IF aliasOf # <<>> THEN Found(Head(aliasOf)) ELSE rule' = rule + 1 /\ match' = match
  /\ UNCHANGED <<name, top, known, aliasOf, allowed, outcome>>

Popular ==
  /\ Rule = "ranked"
  /\ rule' = IF name \in Ranked THEN Len(Order) ELSE rule + 1
  /\ UNCHANGED <<name, top, known, aliasOf, allowed, match, outcome>>

(* A published name of the target's own scope is a sibling, not a squat.   *)
TryRule ==
  /\ rule \in 3..(Len(Order) - 1)
  /\ LET hit == {t \in Hit : ~(known /\ SameScope(name, t))}
     IN IF hit # {} THEN \E t \in hit : Found(t) ELSE rule' = rule + 1 /\ match' = match
  /\ UNCHANGED <<name, top, known, aliasOf, allowed, outcome>>

(* An allow entry is counted only where a finding would have been raised.  *)
Report ==
  /\ rule = Len(Order)
  /\ rule' = rule + 1
  /\ outcome' = IF match = {} THEN "none"
                ELSE IF allowed THEN "cleared"
                ELSE IF \E m \in match : m.rule = "alias-list" THEN "critical" ELSE "low"
  /\ UNCHANGED <<name, top, known, aliasOf, allowed, match>>

Done == rule > Len(Order)

Next == AliasList \/ Popular \/ TryRule \/ Report \/ (Done /\ UNCHANGED vars)

Spec == Init /\ [][Next]_vars

-----------------------------------------------------------------------------
Edits(t) == IF SameScope(name, t) THEN EditDistance(Tail2(name), Tail2(t)) ELSE EditDistance(name, t)

(* What each rule calls alike, said of the name and a target without the   *)
(* index, the candidates and the order the code looks them up in.          *)
Alike(r, t) ==
  CASE r = "separator-swap" -> NormalizeSeparators(t) = NormalizeSeparators(name)
    [] r = "scope-flattening" ->
         \/ Scoped(name) /\ FlattenScope(name) = t
         \/ Scoped(t) /\ FlattenScope(t) = name
    [] r = "character-repetition" ->
         CollapseRuns(name) = t \/ \E i \in Repeats(name) : RemoveAt(name, i) = t
    [] r = "character-transposition" ->
         \E i \in 2..Len(name) : [name EXCEPT ![i - 1] = name[i], ![i] = name[i - 1]] = t
    [] r = "keyboard-adjacency" ->
         \E i \in DOMAIN name : \E key \in Range(Near[name[i]]) : [name EXCEPT ![i] = key] = t
    [] r = "edit-distance" -> Edits(t) \in 1..Band(IF SameScope(name, t) THEN Tail2(name) ELSE name)
    [] OTHER -> FALSE

Sibling(t) == known /\ SameScope(name, t)

(* A rule proposes one target, the distance rule a closest one; when it is *)
(* a sibling of a published name, the code goes on to the next rule.       *)
BehindSibling(r, t) ==
  \E s \in Targets : Sibling(s) /\ Alike(r, s) /\ (r = "edit-distance" => Edits(s) <= Edits(t))

(* Nothing the length index, the first-listed forms, the generated         *)
(* candidates or the band prune hides a resemblance: where nothing is      *)
(* reported of a name, nor cleared, the name is popular itself, or no rule *)
(* calls it like a popular one, but where the rule proposes a sibling of   *)
(* the published name.  And what is reported, but by the alias list, is    *)
(* like a popular name of three characters or more by the rule it was      *)
(* found with, and no sibling of the published name.                       *)
ResemblanceIsSeen ==
  /\ Done /\ outcome = "none" /\ name \notin Ranked =>
       \A r \in Range(Order), t \in Targets : Alike(r, t) => BehindSibling(r, t)
  /\ \A m \in match : m.rule # "alias-list" =>
       name \notin Ranked /\ m.target \in Targets /\ Alike(m.rule, m.target) /\ ~Sibling(m.target)
=============================================================================
