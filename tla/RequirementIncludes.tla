------------------------ MODULE RequirementIncludes ------------------------
(***************************************************************************)
(* The two walks over the -r and -c lines of requirements files            *)
(* (git-source.ts).  requirementIncludeReasons classifies: it starts from  *)
(* every listed requirements file and records which files something        *)
(* includes.  followRequirementIncludes loads: it starts from those the    *)
(* scan reads and reads the rest.  Both go level by level and read each    *)
(* file once, as what the first line to reach it said it was.              *)
(***************************************************************************)
EXTENDS Naturals, Sequences, SequencesExt

CONSTANTS
  Files,      \* paths of requirements files
  Recognised,     \* those recognised by name and listed outside node_modules
  Scanned,    \* those of them the scan reads without being told to
  Present,    \* the files this side has
  MaxDepth,   \* MAX_INCLUDE_DEPTH
  Nowhere,
  Graphs      \* the include lines of each file, in order

(* What the constants are; whoever instantiates the module assumes it.     *)
IncludesConstants ==
  /\ Scanned \subseteq Recognised /\ Recognised \subseteq Present /\ Present \subseteq Files
  /\ MaxDepth \in Nat /\ IsFiniteSet(Files) /\ Nowhere \notin Files
  /\ Graphs \subseteq [Files -> Seq([to : Files \cup {Nowhere},
                                   constraint : BOOLEAN,    \* -c rather than -r
                                   link : BOOLEAN])]        \* the path written is a symlink to it

VARIABLES
  graph,
  walk,       \* "classify", "load", "done"
  queue,      \* files to expand: [file, constraint, depth]
  line,       \* include lines of the head of the queue already taken
  known,      \* files reached
  found,      \* classify: included files, and Nowhere
  read,       \* load: <<file, read as a constraint>>
  noted       \* load: <<file, line>> counted as unread

vars == <<graph, walk, queue, line, known, found, read, noted>>

Starts(files) ==
  LET sorted == SetToSeq(files)
  IN [i \in DOMAIN sorted |-> [file |-> sorted[i], constraint |-> FALSE, depth |-> 0]]

Init ==
  /\ graph \in Graphs
  /\ walk = "classify"
  /\ queue = Starts(Recognised) /\ known = Recognised
  /\ line = 0
  /\ found = {} /\ read = {} /\ noted = {}

Lines(item) == graph[item.file]
More == queue # <<>> /\ line < Len(Lines(Head(queue)))
Include == Lines(Head(queue))[line + 1]
\* Mutant of TooDeep.
OneDeeper == Head(queue).depth > MaxDepth

TooDeep == Head(queue).depth >= MaxDepth

(* A -c line, or any line of a file that is itself read as a constraint.   *)
AsConstraint == Head(queue).constraint \/ Include.constraint

Reached == [file |-> Include.to, constraint |-> AsConstraint, depth |-> Head(queue).depth + 1]

Enqueue == queue' = Append(queue, Reached)

Record == found' = found \cup {Include.to}

ClassifyLine ==
  /\ walk = "classify" /\ More
  /\ line' = line + 1
  /\ \/ /\ Include.to \in known \cup {Nowhere}
        /\ Record
        /\ UNCHANGED <<queue, known>>
     \/ /\ Include.to \notin known \cup {Nowhere}
        /\ TooDeep \/ Include.to \notin Present
        /\ UNCHANGED <<queue, known, found>>
     \/ /\ Include.to \in Present \ known /\ ~TooDeep
        /\ known' = known \cup {Include.to}
        /\ Record
        /\ Enqueue
  /\ UNCHANGED <<graph, walk, read, noted>>

(* The loader asks whether the path is a symlink before it asks whether    *)
(* the file is known; a known file says nothing more.                      *)
Unfollowed == Include.to = Nowhere \/ Include.link

LoadLine ==
  /\ walk = "load" /\ More
  /\ line' = line + 1
  /\ \/ /\ Unfollowed \/ (Include.to \notin known /\ (TooDeep \/ Include.to \notin Present))
        /\ noted' = noted \cup {<<Head(queue).file, line + 1>>}
        /\ UNCHANGED <<queue, known, read>>
     \/ /\ ~Unfollowed /\ Include.to \in known
        /\ UNCHANGED <<queue, known, read, noted>>
     \/ /\ ~Unfollowed /\ Include.to \in Present \ known /\ ~TooDeep
        /\ known' = known \cup {Include.to}
        /\ read' = read \cup {<<Include.to, AsConstraint>>}
        /\ Enqueue
        /\ UNCHANGED noted
  /\ UNCHANGED <<graph, walk, found>>

NextFile ==
  /\ walk # "done" /\ queue # <<>> /\ ~More
  /\ queue' = Tail(queue) /\ line' = 0
  /\ UNCHANGED <<graph, walk, known, found, read, noted>>

StartLoading ==
  /\ walk = "classify" /\ queue = <<>>
  /\ walk' = "load"
  /\ queue' = Starts(Scanned) /\ known' = Scanned
  /\ read' = Scanned \X {FALSE}
  /\ UNCHANGED <<graph, line, found, noted>>

Finish ==
  /\ walk = "load" /\ queue = <<>>
  /\ walk' = "done"
  /\ UNCHANGED <<graph, queue, line, known, found, read, noted>>

Next == ClassifyLine \/ LoadLine \/ NextFile \/ StartLoading \/ Finish \/ (walk = "done" /\ UNCHANGED vars)

Spec == Init /\ [][Next]_vars

-----------------------------------------------------------------------------
ReadFiles == {r[1] : r \in read}

(* The files some chain of at most k lines reaches, through -r alone when  *)
(* plain is TRUE.                                                          *)
Within(plain) ==
  LET step(S) == S \cup {f \in Present : \E g \in S : \E i \in DOMAIN graph[g] :
                           /\ graph[g][i].to = f /\ ~graph[g][i].link
                           /\ plain => ~graph[g][i].constraint}
      at[k \in 0..MaxDepth] == IF k = 0 THEN Scanned ELSE step(at[k - 1])
  IN at[MaxDepth]

(* The depth limit cuts only what really is that deep: a file is read      *)
(* exactly when some chain within the limit reaches it, whatever longer    *)
(* chain comes first in the files, every other include is counted, and     *)
(* what is read because of an include the classifier knows as included,    *)
(* so ignorePaths cannot cover it (the two walks share no state, start     *)
(* from different files and test links in a different order).              *)
DepthCutsOnlyTheDeep ==
  walk = "done" =>
    /\ ReadFiles = Within(FALSE)
    /\ \A f \in ReadFiles : \A i \in DOMAIN graph[f] :
         (~graph[f][i].link /\ graph[f][i].to \in ReadFiles) \/ <<f, i>> \in noted
    /\ ReadFiles \ Scanned \subseteq found

(* "A file reached only through -c is read for its index lines, and its    *)
(* names are counted under excluded.constraint rather than checked"        *)
(* (git-source.ts, followRequirementIncludes): one that a chain of -r      *)
(* lines reaches too has its names checked.                                *)
ConstraintOnlyThroughC ==
  walk = "done" => \A f \in Within(TRUE) : <<f, FALSE>> \in read
=============================================================================
