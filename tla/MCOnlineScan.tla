---------------------------- MODULE MCOnlineScan ----------------------------
(* Scan inputs for TLC: every step has work, a name is internal, one is    *)
(* private, one allowed, and one dependency is declared at two sites.      *)
EXTENDS OnlineScan

F(rule, name, site, sev) == [rule |-> rule, name |-> name, site |-> site,
  ver |-> NoVersion, sev |-> sev, res |-> "none"]
N(name, site, fresh) == [name |-> name, site |-> site, fresh |-> fresh]
P(name, site, manifest, skip) ==
  [name |-> name, site |-> site, manifest |-> manifest, skip |-> skip]
L(name, lookup, ver, url) ==
  [name |-> name, lookup |-> lookup, site |-> "m", ver |-> ver, url |-> url]

Base == [offline |-> {}, newNames |-> {}, pypi |-> {}, locks |-> {},
  internal |-> {"in"}, private |-> {"priv"}, pinned |-> {}, local |-> {},
  allow |-> {}, minAgeAllow |-> {}, hidden |-> {}, cfgOnline |-> TRUE,
  cli |-> "unset", pr |-> TRUE, note |-> FALSE, budget |-> 3,
  failOn |-> "medium"]

(* The existence steps: npm findings at two sites, names that must not go  *)
(* out, and PyPI names of both ranks.                                      *)
Existence == [Base EXCEPT
  !.offline = {F("unknown-package", "a", "m", "high"),
               F("unknown-package", "a", "n", "high"),
               F("unknown-package", "b", "m", "high"),
               F("unknown-package", "priv", "m", "high"),
               F("typosquat", "in", "m", "low")},
  !.pypi = {P("p", "n", TRUE, FALSE), P("q", "m", FALSE, FALSE),
           P("q", "n", FALSE, TRUE)}]

(* The popularity steps: look-alikes and new names, one name at two sites. *)
Popularity == [Base EXCEPT
  !.offline = {F("typosquat", "a", "m", "low"), F("typosquat", "b", "m", "high"),
               F("typosquat", "in", "m", "low"), F("typosquat", "priv", "m", "low")},
  !.newNames = {N("a", "m", FALSE), N("a", "n", FALSE), N("b", "m", FALSE),
                N("in", "m", FALSE), N("priv", "n", FALSE), N("b", "n", TRUE)}]

(* Publish age: a key with two lookups, two versions of one lookup, an     *)
(* allowed version, a workspace member and entries from elsewhere.         *)
Age == [Base EXCEPT
  !.offline = {F("other", "a", "m", "medium")},
  !.newNames = {N("a", "m", FALSE)},
  !.locks = {L("a", "a", "1", "public"), L("a", "b", "1", "public"),
             L("b", "b", "2", "none"), L("in", "in", "1", "public"),
             L("priv", "priv", "1", "none"), L("b", "b", "1", "other"),
             L("a", "a", NoVersion, "public")},
  !.minAgeAllow = {<<"b", "2">>}, !.local = {"in"}]

(* The same loads under the other controls.                                *)
Small == {[Existence EXCEPT !.offline = {f \in @ : f.name # "b"}],
          [Popularity EXCEPT !.newNames = {N("a", "m", FALSE)}], Age}
Controls(s) == UNION {
  {[s EXCEPT !.cli = c, !.cfgOnline = o] : c \in {"unset", "off", "on"}, o \in BOOLEAN},
  {[s EXCEPT !.pr = FALSE], [s EXCEPT !.note = TRUE], [s EXCEPT !.budget = 0],
   [s EXCEPT !.allow = {"a", "p"}, !.failOn = "critical"],
   [s EXCEPT !.allow = {"a", "p"}, !.cli = "off"],
   [s EXCEPT !.failOn = "none", !.hidden = {KeyOf(f) : f \in s.offline}]}}

MCScans == {Existence, Popularity, Age} \cup UNION {Controls(s) : s \in Small}
=============================================================================
