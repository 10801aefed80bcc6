--------------------------- MODULE MCTrustControls ---------------------------
(* Repositories whose control files differ between the sides in at most    *)
(* two places.                                                             *)
EXTENDS TrustControls, TLC
MCDefault == [allow |-> {}, failOn |-> "medium"]
MCDocs == {<<>>, "allow" :> {"x"}, "allow" :> {"x", "y"}, "failOn" :> "none",
           [allow |-> {"x"}, failOn |-> "none"], "raw" :> "target",
           "fingerprints" :> {}, "fingerprints" :> {"f"},
           "@s" :> "r1", "@s" :> "r2", "registry" :> "r1"}
OfDocs(f) ==
  CASE f \in {"config", "local"} -> {d \in MCDocs : DOMAIN d \subseteq {"allow", "failOn"}}
    [] f = "baseline" -> {d \in MCDocs : DOMAIN d = {"fingerprints"}}
    [] f = "npmrc" -> {d \in MCDocs : DOMAIN d \subseteq {"@s", "registry"}}
Written(d) == [mode |-> "100644", valid |-> TRUE, doc |-> d]
Link == [mode |-> "120000", valid |-> FALSE, doc |-> "raw" :> "target"]
(* A link whose target reads as an empty document.                         *)
LinkJson == [mode |-> "120000", valid |-> TRUE, doc |-> <<>>]
Others == {Absent, Link, [Link EXCEPT !.mode = "100644"],
           [mode |-> "160000", valid |-> FALSE, doc |-> <<>>]}
Entries(f) == IF f = "npmrc"
  THEN {Written(d) : d \in OfDocs(f)} \cup {Absent, Link, [Written("@s" :> "r1") EXCEPT !.mode = "100755"]}
  ELSE {Written(d) : d \in OfDocs(f)} \cup Others
       \cup (IF f = "baseline" THEN {} ELSE {LinkJson})
Plainly == [f \in Files |->
  IF f = "config" THEN Written("allow" :> {"x"})
  ELSE IF f = "npmrc" THEN Written("@s" :> "r1") ELSE Absent]
With(t, f, e) == [t EXCEPT ![f] = e]
Pairs ==
  UNION {{[base |-> With(Plainly, f, e), head |-> With(Plainly, f, d)]
           : e \in Entries(f), d \in Entries(f)} : f \in Files}
  \cup {[base |-> Plainly, head |-> With(With(Plainly, "local", e), "config", d)]
           : e \in Entries("local"), d \in Entries("config")}
MCRepos ==
  {[base |-> "other", hasHead |-> TRUE, subjectSame |-> same, compare |-> "audit",
    tree |-> t] : same \in BOOLEAN, t \in Pairs}
  \cup {[base |-> b, hasHead |-> h, subjectSame |-> FALSE, compare |-> c,
         tree |-> [base |-> Plainly, head |-> Plainly]]
         : b \in {"none", "head", "other"}, h \in BOOLEAN,
           c \in {"audit", "none", "head", "sameTree", "other"}}
=============================================================================
