------------------------------ MODULE InitHook ------------------------------
(***************************************************************************)
(* "dep-guard init" (packages/cli/src/init.ts): it works out which file    *)
(* the chosen hook manager owns, plans, writes the file and makes it       *)
(* executable.  Between its steps, and between its runs, the process can   *)
(* die, a call can fail, the developer edits hooks, husky (re)installs     *)
(* itself and git clean removes what husky generated.                      *)
(***************************************************************************)
EXTENDS Naturals, FiniteSets

CONSTANTS Custom,     \* hook directories named in core.hooksPath besides husky's
          MaxEvents   \* what others do to the repository, at most

VARIABLES hooksPath,  \* core.hooksPath: the hooks directory git reads
          file,       \* per artifact: its content, and whether it is executable
          plan,       \* the plan of the running init, or NoPlan
          written,    \* init has written the file of its plan
          report,     \* what the last init said of which artifact
          foreignNew, \* artifacts another party wrote after the plan was made
          events,     \* how many events there were
          (* Auxiliary: what the inits so far have spoken for.             *)
          promised,   \* hooks directories an init said are gated
          cutOff      \* hooks init wrote and did not get to make executable
vars == <<hooksPath, file, plan, written, report, foreignNew, events, promised, cutOff>>

(* Hooks directories: the default in the git directory, husky 8's .husky,  *)
(* husky 9's generated .husky/_ and others.                                *)
HooksDirs == {".git/hooks", ".husky", ".husky/_"} \union Custom
\* An artifact is the directory of a pre-commit file, or a manager's config.
Artifacts == HooksDirs \union {"lefthook-local.yml", ".pre-commit-config.yaml"}
Managers == {"native", "husky", "lefthook", "precommit"}

(* Contents: "ours": it carries the marker; "dispatcher": husky's own,     *)
(* which runs the tracked file one level up; "unreadable": someone's, that *)
(* the user running init may write but not read.                           *)

-----------------------------------------------------------------------------
isHuskyGeneratedHooksDir(dir) == dir = ".husky/_"

\* A mutation: the effective hooks directory is taken as it is.
NoRedirect(dir) == dir
\* A native hook for husky's generated directory is the tracked file above it.
resolveNativeHookArtifact(dir) == IF isHuskyGeneratedHooksDir(dir) THEN ".husky" ELSE dir

hookArtifactFor(manager) ==
  CASE manager = "husky"     -> ".husky"
    [] manager = "lefthook"  -> "lefthook-local.yml"
    [] manager = "precommit" -> ".pre-commit-config.yaml"
    [] OTHER                 -> resolveNativeHookArtifact(hooksPath)

isExecutableHook(manager) == manager \in {"native", "husky"}

\* Absent, or any error: readIfExists does not tell them apart.
readIfExists(artifact) ==
  IF file[artifact].content = "unreadable" THEN "absent" ELSE file[artifact].content

NoPlan == [manager |-> "none", path |-> "none", dir |-> "none"]
NoReport == [said |-> "nothing", path |-> "none", manager |-> "none"]

(* The file that decides what runs for a hooks directory: git's own, but   *)
(* husky's generated directory dispatches to the tracked file above it.    *)
HookFileOf(dir) == IF dir = ".husky/_" THEN ".husky" ELSE dir
\* The directories an init is about: the one git reads, or both of husky's.
SpokenFor(manager, dir) == CASE manager = "native" -> {dir}
                             [] manager = "husky"  -> {".husky", ".husky/_"}
                             [] OTHER              -> {}

-----------------------------------------------------------------------------
Say(said, manager) == report' = [said |-> said, path |-> hookArtifactFor(manager), manager |-> manager]

AlreadyInstalled(manager) ==
  /\ readIfExists(hookArtifactFor(manager)) = "ours"
  /\ Say("already installed", manager)
  /\ promised' = promised \union SpokenFor(manager, hooksPath)
  /\ UNCHANGED <<plan, foreignNew>>

\* A mutation: a hook of another tool is planned over like an empty one.
NeverConflicts(content) == FALSE
IsForeign(content) == content \in {"foreign", "dispatcher"}

Conflict(manager) ==
  /\ IsForeign(readIfExists(hookArtifactFor(manager)))
  /\ Say("conflict", manager)
  /\ UNCHANGED <<plan, foreignNew, promised>>

PlanWrite(manager) ==
  /\ readIfExists(hookArtifactFor(manager)) /= "ours"
  /\ ~IsForeign(readIfExists(hookArtifactFor(manager)))
  /\ plan' = [manager |-> manager, path |-> hookArtifactFor(manager), dir |-> hooksPath]
  /\ report' = NoReport
  /\ foreignNew' = {} /\ UNCHANGED promised

\* planInit.  A dry run stops here and writes nothing.
Plan ==
  /\ plan = NoPlan
  /\ \E manager \in Managers :
       AlreadyInstalled(manager) \/ Conflict(manager) \/ PlanWrite(manager)
  /\ UNCHANGED <<hooksPath, file, written, events, cutOff>>

Done(said) ==
  /\ report' = [said |-> said, path |-> plan.path, manager |-> plan.manager]
  /\ plan' = NoPlan /\ written' = FALSE /\ foreignNew' = {}

\* writeFileSync: a new file is not executable, an existing one keeps its mode.
Write ==
  /\ plan /= NoPlan /\ ~written
  /\ file' = [file EXCEPT ![plan.path].content = "ours"]
  /\ written' = TRUE
  /\ UNCHANGED <<hooksPath, plan, report, foreignNew, events, promised, cutOff>>

\* mkdirSync or writeFileSync throws; the file may have been truncated.
WriteFails ==
  /\ plan /= NoPlan /\ ~written /\ events < MaxEvents
  /\ \/ UNCHANGED file
     \/ file[plan.path].content /= "absent" /\ file' = [file EXCEPT ![plan.path].content = "empty"]
  /\ Done("nothing was written")
  /\ events' = events + 1
  /\ UNCHANGED <<hooksPath, promised, cutOff>>

Finish ==
  /\ written
  /\ file' = IF isExecutableHook(plan.manager)
             THEN [file EXCEPT ![plan.path].exec = TRUE] ELSE file
  /\ Done("installed")
  /\ promised' = promised \union
       IF plan.path \in foreignNew THEN {} ELSE SpokenFor(plan.manager, plan.dir)
  /\ cutOff' = cutOff \ {plan.path}
  /\ UNCHANGED <<hooksPath, events>>

ChmodFails ==
  /\ written /\ isExecutableHook(plan.manager) /\ events < MaxEvents
  /\ Done("nothing was written")
  /\ events' = events + 1
  /\ cutOff' = cutOff \union {plan.path}
  /\ UNCHANGED <<hooksPath, file, promised>>

Crash ==
  /\ plan /= NoPlan /\ events < MaxEvents
  /\ plan' = NoPlan /\ written' = FALSE /\ foreignNew' = {}
  /\ report' = NoReport /\ events' = events + 1
  /\ cutOff' = cutOff \union (IF written /\ isExecutableHook(plan.manager) THEN {plan.path} ELSE {})
  /\ UNCHANGED <<hooksPath, file, promised>>

-----------------------------------------------------------------------------
Event == events < MaxEvents /\ events' = events + 1 /\ report' = NoReport

\* The developer writes, empties or removes a hook, or makes it executable.
DeveloperEdits ==
  /\ Event
  /\ \E a \in Artifacts, c \in {"absent", "empty", "foreign", "unreadable"}, x \in BOOLEAN :
       /\ c = "absent" => ~x
       /\ file' = [file EXCEPT ![a] = [content |-> c, exec |-> x]]
       /\ foreignNew' = IF plan = NoPlan THEN {} ELSE foreignNew \union {a}
       /\ promised' = {d \in promised : HookFileOf(d) /= a}
       /\ cutOff' = cutOff \ {a}
  /\ UNCHANGED <<hooksPath, plan, written>>

ConfiguresHooksPath ==
  /\ Event
  /\ hooksPath' \in HooksDirs
  /\ UNCHANGED <<file, plan, written, foreignNew, promised, cutOff>>

\* husky 9's prepare script, run again by every install.
HuskyInstalls ==
  /\ Event
  /\ hooksPath' = ".husky/_"
  /\ file' = [file EXCEPT ![".husky/_"] = [content |-> "dispatcher", exec |-> TRUE]]
  /\ foreignNew' = IF plan = NoPlan THEN {} ELSE foreignNew \union {".husky/_"}
  /\ UNCHANGED <<plan, written, promised, cutOff>>

\* git clean -fdx: what husky generated is ignored by git, so it goes.
GitCleans ==
  /\ Event
  /\ file' = [file EXCEPT ![".husky/_"] = [content |-> "absent", exec |-> FALSE]]
  /\ UNCHANGED <<hooksPath, plan, written, foreignNew, promised, cutOff>>

Init ==
  /\ hooksPath \in HooksDirs
  /\ \E generated \in {"absent", "dispatcher", "ours"}, c \in {"absent", "empty", "ours", "foreign"} :
       file = [a \in Artifacts |->
                 IF a = ".husky/_" THEN [content |-> generated, exec |-> generated /= "absent"]
                 ELSE IF a = resolveNativeHookArtifact(hooksPath) THEN [content |-> c, exec |-> c \in {"ours", "foreign"}]
                 ELSE [content |-> "absent", exec |-> FALSE]]
  /\ plan = NoPlan /\ written = FALSE /\ report = NoReport
  /\ foreignNew = {} /\ promised = {} /\ cutOff = {} /\ events = 0

Next ==
  \/ Plan \/ Write \/ WriteFails \/ Finish \/ ChmodFails \/ Crash
  \/ DeveloperEdits \/ ConfiguresHooksPath \/ HuskyInstalls \/ GitCleans

Spec == Init /\ [][Next]_vars

-----------------------------------------------------------------------------
\* What git runs on a commit: husky's dispatcher sources the tracked file,
\* which need not be executable; anything else has to be.
Runs(artifact) == file[artifact].content = "ours" /\ file[artifact].exec
GitRunsTheGate ==
  \/ Runs(hooksPath)
  \/ file[hooksPath] = [content |-> "dispatcher", exec |-> TRUE] /\ file[".husky"].content = "ours"

GateIsPromised ==
  /\ hooksPath \in promised
  /\ hooksPath = ".husky/_" => file[".husky/_"].content \in {"dispatcher", "ours"}

(***************************************************************************)
(* Once an init has said that the hook is installed, or already was, git   *)
(* runs the gate for every hooks directory that init was about: at once,   *)
(* and after any later init, husky install, git clean or change of         *)
(* core.hooksPath, in any order, whenever core.hooksPath names such a      *)
(* directory and the generated one holds husky's file or dep-guard's.      *)
(* It is the promise of the redirect (init.ts:253-287) and of setting the  *)
(* mode after the write (509-514).                                         *)
(*                                                                         *)
(* Not promised: a directory no init was about, so after a native init     *)
(* elsewhere the FIRST husky install ends the gate by pointing             *)
(* core.hooksPath at .husky/_, until init is run again; a hook the         *)
(* developer edited since, or while init was at it; and a hook that an     *)
(* init wrote and did not live to make executable, which the next one      *)
(* calls installed (AlreadyInstalledIsExecutable).                         *)
(***************************************************************************)
InstalledGateRuns == GateIsPromised => GitRunsTheGate \/ hooksPath \in cutOff

(***************************************************************************)
(* init.ts:401-403: "a conflict is never resolved by overwriting".  The    *)
(* content of someone's hook never becomes dep-guard's, but for one that   *)
(* came after the plan was made or that init could not read.               *)
(***************************************************************************)
NothingForeignLost ==
  \A a \in Artifacts :
    file[a].content \in {"foreign", "dispatcher"} /\ file'[a].content = "ours" => a \in foreignNew
ForeignIsKept == [][NothingForeignLost]_vars

(***************************************************************************)
(* init.ts:509-513 sets the mode because a hook that git cannot execute    *)
(* "is indistinguishable from no gate at all"; 602 says exit 0 is "when    *)
(* the hook is installed (or already was)".  So a hook that init says is   *)
(* already installed is one git can execute.                               *)
(***************************************************************************)
AlreadyInstalledIsExecutable ==
  report.said = "already installed" /\ isExecutableHook(report.manager) => file[report.path].exec

(***************************************************************************)
(* renderHuman (569): when init ends with a conflict it prints "nothing    *)
(* was written".                                                           *)
(***************************************************************************)
NothingWasWritten ==
  [][report.said /= "nothing was written" /\ report'.said = "nothing was written" => ~written]_vars
=============================================================================
