--------------------------- MODULE MCWrittenFiles ---------------------------
(***************************************************************************)
(* The files dep-guard writes, in one run.  A behaviour is about one       *)
(* subject, chosen at the start: the cache of online answers, shared by    *)
(* two processes that ask about one name (OnlineCache), or the hook that   *)
(* "dep-guard init" installs (InitHook).  The variables of the other stay  *)
(* as they are.                                                            *)
(***************************************************************************)
EXTENDS OnlineCache, TLC

CONSTANTS Custom, MaxEvents   \* InitHook

VARIABLES subject,
          hooksPath, hookFile, plan, written, report, foreignNew, events, promised, cutOff  \* InitHook
hookVars == <<hooksPath, hookFile, plan, written, report, foreignNew, events, promised, cutOff>>

\* The managers' configurations are not hooks directories.
ASSUME CustomAssumption == Custom \intersect {"lefthook-local.yml", ".pre-commit-config.yaml"} = {}

------------------------------------------------------------------------------
K(kind) == [kind |-> kind, name |-> "a", vers |-> {}]
T(vs)   == [kind |-> "times", name |-> "a", vers |-> vs]
MCWork  == {{K("downloads")}, {T({"1"}), T({"1", "2"})},
            {K("created"), K("exists")}}
\* The processes are interchangeable.
AnyOrder == Permutations(Procs)

------------------------------------------------------------------------------
Hook == INSTANCE InitHook WITH file <- hookFile

------------------------------------------------------------------------------
Idle == "idle"
NoHook == /\ hooksPath = Idle /\ hookFile = Idle /\ plan = Idle /\ written = Idle
          /\ report = Idle /\ foreignNew = Idle /\ events = Idle /\ promised = Idle /\ cutOff = Idle
\* A cache nobody has asked yet.
NoCache == Init /\ file = "absent" /\ todo = [p \in Procs |-> {K("downloads")}]

MCInit ==
  \/ subject = "cache" /\ Init    /\ NoHook
  \/ subject = "hook"  /\ NoCache /\ Hook!Init

CacheStep == subject = "cache" /\ Next /\ UNCHANGED <<subject, hookVars>>
HookStep == subject = "hook" /\ Hook!Next /\ UNCHANGED <<subject, vars>>

MCNext == CacheStep \/ HookStep

MCSpec == MCInit /\ [][MCNext]_<<subject, vars, hookVars>>

------------------------------------------------------------------------------
(* The properties, each of its subject; see the modules for what they say. *)
(* Those of OnlineCache hold of the other, where nothing was answered.     *)
InstalledGateRuns == subject = "hook" => Hook!InstalledGateRuns
ForeignIsKept == [][subject = "hook" => Hook!NothingForeignLost]_hookVars
=============================================================================
