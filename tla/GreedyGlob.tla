----------------------------- MODULE GreedyGlob -----------------------------
(***************************************************************************)
(* The two wildcard matchers of git-source.ts, which are one algorithm at  *)
(* two levels: matchWildcard walks the characters of a name and "*" is the *)
(* star, matchGlobPath walks the segments of a path and "**" is.  Both go  *)
(* through the text once, remembering only the last star, so that no       *)
(* pattern can make them backtrack.                                        *)
(***************************************************************************)
EXTENDS Naturals, Sequences, SequencesExt

CONSTANTS
  Star,
  Symbols,    \* what a pattern is made of besides the star
  Letters,    \* what a text is made of
  Sees,       \* which symbol matches which letter
  MaxPattern, MaxText

(* What the constants are; whoever instantiates the module assumes it.     *)
GreedyGlobConstants ==
  /\ Star \notin Symbols
  /\ Sees \subseteq Symbols \X Letters
  /\ MaxPattern \in Nat /\ MaxText \in Nat

VARIABLES
  pattern, text,
  patternIndex, textIndex,   \* how much of each is consumed
  star,                      \* the last star and how far it had swallowed
  result

vars == <<pattern, text, patternIndex, textIndex, star, result>>

NoStar == [at |-> 0, swallowed |-> 0]

Init ==
  /\ pattern \in BoundedSeq(Symbols \cup {Star}, MaxPattern)
  /\ text \in BoundedSeq(Letters, MaxText)
  /\ patternIndex = 0 /\ textIndex = 0
  /\ star = NoStar
  /\ result = "running"

Running == result = "running" /\ textIndex < Len(text)

AtStar == patternIndex < Len(pattern) /\ pattern[patternIndex + 1] = Star

AtMatch ==
  /\ patternIndex < Len(pattern) /\ ~AtStar
  /\ <<pattern[patternIndex + 1], text[textIndex + 1]>> \in Sees

OpenStar ==
  /\ Running /\ AtStar
  /\ star' = [at |-> patternIndex + 1, swallowed |-> textIndex]
  /\ patternIndex' = patternIndex + 1
  /\ UNCHANGED <<pattern, text, textIndex, result>>

Consume ==
  /\ Running /\ AtMatch
  /\ patternIndex' = patternIndex + 1 /\ textIndex' = textIndex + 1
  /\ UNCHANGED <<pattern, text, star, result>>

\* Mutant of Swallow: the text goes on where it was, instead of where the
\* star stood.
SwallowFromHere ==
  /\ Running /\ ~AtStar /\ ~AtMatch /\ star # NoStar
  /\ star' = [star EXCEPT !.swallowed = textIndex + 1]
  /\ textIndex' = textIndex + 1
  /\ patternIndex' = star.at
  /\ UNCHANGED <<pattern, text, result>>

Swallow ==
  /\ Running /\ ~AtStar /\ ~AtMatch /\ star # NoStar
  /\ star' = [star EXCEPT !.swallowed = @ + 1]
  /\ textIndex' = star.swallowed + 1
  /\ patternIndex' = star.at
  /\ UNCHANGED <<pattern, text, result>>

Fail ==
  /\ Running /\ ~AtStar /\ ~AtMatch /\ star = NoStar
  /\ result' = "no"
  /\ UNCHANGED <<pattern, text, patternIndex, textIndex, star>>

(* The text is used up: only stars may be left of the pattern.             *)
Finish ==
  /\ result = "running" /\ textIndex = Len(text)
  /\ result' = IF \A i \in patternIndex + 1 .. Len(pattern) : pattern[i] = Star THEN "yes" ELSE "no"
  /\ UNCHANGED <<pattern, text, patternIndex, textIndex, star>>

Next == OpenStar \/ Consume \/ Swallow \/ Fail \/ Finish

Spec == Init /\ [][Next]_vars

-----------------------------------------------------------------------------
(* What a glob means: the text can be cut into what each part of the       *)
(* pattern takes, one letter a symbol sees, or any run of letters for a    *)
(* star; cut[i] letters go to the first i parts.                           *)
Cuts ==
  {cut \in [0..Len(pattern) -> 0..Len(text)] :
     /\ cut[0] = 0 /\ cut[Len(pattern)] = Len(text)
     /\ \A i \in 1..Len(pattern) :
          IF pattern[i] = Star THEN cut[i - 1] <= cut[i]
          ELSE cut[i] = cut[i - 1] + 1 /\ <<pattern[i], text[cut[i]]>> \in Sees}

Globs == Cuts # {}

(* Remembering only the last star loses no match and invents none: an      *)
(* earlier star never has to give back what it took.                       *)
GreedyIsGlob == result # "running" => (result = "yes" <=> Globs)
=============================================================================
