------------------------- MODULE BrokerInstanceProofs ------------------------
(***************************************************************************)
(* Proofs about broker processes, for any number of them, any inodes and   *)
(* any number of changes other users make: one driver of the knob, a       *)
(* serving broker that can be reached, an end that unlinks its own socket  *)
(* only, and directories that stay as they were vetted.                    *)
(***************************************************************************)
EXTENDS BrokerInstance, TLAPS

-----------------------------------------------------------------------------
\* The tree

\* The directories that hold the broker's files, and those above them.
Leaves == {"runPrivate", "basePrivate", "custom"}

Trunk == {"run", "top", "base"}

\* The part of the file system the broker asks about.
LEMMA Tree ==
    /\ Dirs = Leaves \cup Trunk
    /\ Above["run"] = << >> /\ Above["top"] = << >> /\ Above["base"] = <<"top">>
    /\ Above["runPrivate"] = <<"run">>
    /\ Above["basePrivate"] = <<"base", "top">> /\ Above["custom"] = <<"base", "top">>
  <1>1. Dirs = Leaves \cup Trunk
    BY DEF Dirs, Above, Leaves, Trunk
  <1>2. /\ Above["run"] = << >> /\ Above["top"] = << >> /\ Above["base"] = <<"top">>
        /\ Above["runPrivate"] = <<"run">>
        /\ Above["basePrivate"] = <<"base", "top">> /\ Above["custom"] = <<"base", "top">>
    BY DEF Above
  <1> QED BY <1>1, <1>2

\* The directories above each, as sets.
LEMMA RangesAbove ==
    /\ Range(Above["run"]) = {} /\ Range(Above["top"]) = {} /\ Range(Above["base"]) = {"top"}
    /\ Range(Above["runPrivate"]) = {"run"}
    /\ Range(Above["basePrivate"]) = {"base", "top"} /\ Range(Above["custom"]) = {"base", "top"}
  BY Tree DEF Range

\* Nothing lies above a leaf's entries but the trunk.
LEMMA LeavesAreLast ==
    ASSUME NEW e \in Dirs, NEW d \in Leaves
    PROVE  ~Contains(Above[e], d)
  BY Tree DEF Contains, Leaves, Trunk

-----------------------------------------------------------------------------
\* Types, and files in directories that exist

\* What the socket or the journal may resolve to.
Places == {"none", "custom", "relative", "runPrivate", "basePrivate"}

Checks == [dir : Dirs \cup Places, bar : {"OwnerOnly", "NoForeignWrite"}]

Lists == Seq(Checks)

StartStates ==
    [pc : {"off", "vet-base", "mkdir", "chmod", "stat", "vet-paths", "resolved"},
     base : {"run", "base"}, socket : Places, journal : Places, todo : Lists]

Pending(todo, check) == \E i \in DOMAIN todo : todo[i] = check

\* A root broker keeps its files in /run unless it is told otherwise.
PathTypes ==
    /\ uid \in {"root", "broker"}
    /\ dirs \in [Dirs -> Directories]
    /\ starts \in [Brokers -> StartStates]
    /\ \A b \in Brokers : uid = "root" => starts[b].base = "run"

\* A place that is no directory is still to be vetted, and will not pass.
Placed(s) ==
    \A d \in {s.socket, s.journal} :
        /\ s.pc = "vet-paths" => d \in Leaves \/ Pending(s.todo, Check("OwnerOnly", d))
        /\ s.pc = "resolved" => d \in Leaves

PathInv == PathTypes /\ \A b \in Brokers : Placed(starts[b])

\* The checks on a list of directories (vet_ancestors).
LEMMA AncestorChecks ==
    ASSUME NEW s \in Seq(Dirs)
    PROVE  /\ VetAncestors(s) \in Lists
           /\ \A a \in Range(s) : Pending(VetAncestors(s), Check("NoForeignWrite", a))
  <1>1. s = [i \in 1..Len(s) |-> s[i]] /\ Len(s) \in Nat /\ DOMAIN s = 1..Len(s)
        /\ \A i \in 1..Len(s) : s[i] \in Dirs
    OBVIOUS
  <1>2. \A d \in Dirs : Check("NoForeignWrite", d) \in Checks
    BY DEF Check, Checks
  <1> DEFINE v == VetAncestors(s)
  <1>3. v = [i \in 1..Len(s) |-> Check("NoForeignWrite", s[i])]
    BY <1>1 DEF VetAncestors
  <1> HIDE DEF v
  <1>4. v \in Seq(Checks)
    BY <1>1, <1>2, <1>3
  <1>5. \A a \in Range(s) : Pending(v, Check("NoForeignWrite", a))
    BY <1>1, <1>3 DEF Pending, Range
  <1> QED BY <1>4, <1>5 DEF v, Lists

\* Lists of checks one after the other.
LEMMA PendingConcat ==
    ASSUME NEW s \in Lists, NEW t \in Lists, NEW c
    PROVE  /\ s \o t \in Lists
           /\ Pending(s, c) \/ Pending(t, c) => Pending(s \o t, c)
  <1> DEFINE u == s \o t
  <1>1. /\ u \in Seq(Checks) /\ Len(u) = Len(s) + Len(t) /\ Len(s) \in Nat /\ Len(t) \in Nat
        /\ DOMAIN u = 1..Len(u) /\ DOMAIN s = 1..Len(s) /\ DOMAIN t = 1..Len(t)
        /\ \A i \in 1..Len(s) : u[i] = s[i]
        /\ \A i \in 1..Len(t) : u[Len(s) + i] = t[i]
    BY DEF Lists
  <1> HIDE DEF u
  <1>2. ASSUME NEW i \in DOMAIN s, s[i] = c PROVE Pending(u, c)
    BY <1>1, <1>2 DEF Pending
  <1>3. ASSUME NEW i \in DOMAIN t, t[i] = c PROVE Pending(u, c)
    <2>1. Len(s) + i \in DOMAIN u /\ u[Len(s) + i] = c
      BY <1>1, <1>3
    <2> QED BY <2>1 DEF Pending
  <1> QED BY <1>1, <1>2, <1>3 DEF u, Lists, Pending

\* The first check is made and taken off the list (vet_directory's callers).
LEMMA PendingTail ==
    ASSUME NEW s \in Lists, s # << >>
    PROVE  /\ Tail(s) \in Lists /\ Head(s) \in Checks
           /\ \A c : Pending(s, c) => c = Head(s) \/ Pending(Tail(s), c)
  <1>1. /\ s \in Seq(Checks) /\ Tail(s) \in Seq(Checks) /\ Head(s) = s[1] /\ Head(s) \in Checks
        /\ Len(s) \in Nat /\ Len(s) >= 1 /\ DOMAIN s = 1..Len(s)
        /\ Len(Tail(s)) = Len(s) - 1 /\ DOMAIN Tail(s) = 1..(Len(s) - 1)
        /\ \A i \in 1..(Len(s) - 1) : Tail(s)[i] = s[i + 1]
    BY DEF Lists
  <1>2. ASSUME NEW i \in DOMAIN s
        PROVE  s[i] = Head(s) \/ Pending(Tail(s), s[i])
    <2>1. CASE i = 1
      BY <1>1, <2>1
    <2>2. CASE i # 1
      <3>1. i - 1 \in DOMAIN Tail(s) /\ Tail(s)[i - 1] = s[i]
        BY <1>1, <2>2
      <3> QED BY <3>1 DEF Pending
    <2> QED BY <2>1, <2>2
  <1> QED BY <1>1, <1>2 DEF Lists, Pending

\* The checks on a resolved path: the directory and all above it
\* (vet_resolved_path).
LEMMA ResolvedChecks ==
    ASSUME NEW d \in Places
    PROVE  /\ VetResolvedPath(d) \in Lists
           /\ Pending(VetResolvedPath(d), Check("OwnerOnly", d))
           /\ d \in Leaves => \A a \in Range(Above[d]) :
                                Pending(VetResolvedPath(d), Check("NoForeignWrite", a))
  <1> DEFINE one == <<Check("OwnerOnly", d)>>
             rest == IF d \in Dirs THEN VetAncestors(Above[d]) ELSE << >>
  <1>1. Check("OwnerOnly", d) \in Checks
    BY DEF Check, Checks
  <1>2. one \in Lists /\ Pending(one, Check("OwnerOnly", d))
    BY <1>1 DEF Lists, Pending
  <1>3. d \in Dirs <=> d \in Leaves
    BY Tree DEF Places, Leaves, Trunk
  <1>4. d \in Leaves => Above[d] \in Seq(Dirs)
    <2>1. "run" \in Dirs /\ "base" \in Dirs /\ "top" \in Dirs
      BY Tree DEF Trunk
    <2>2. <<"run">> \in Seq(Dirs) /\ <<"base", "top">> \in Seq(Dirs)
      BY <2>1
    <2> QED BY <2>2, Tree DEF Leaves
  <1>5. rest \in Lists /\ (d \in Leaves => \A a \in Range(Above[d]) :
                                             Pending(rest, Check("NoForeignWrite", a)))
    BY <1>3, <1>4, AncestorChecks DEF Lists
  <1>6. VetResolvedPath(d) = one \o rest
    BY DEF VetResolvedPath
  <1> HIDE DEF one, rest
  <1> QED BY <1>2, <1>5, <1>6, PendingConcat

\* The checks on the base directory (private_directory_in).
LEMMA BaseChecks ==
    ASSUME NEW base \in {"run", "base"}
    PROVE  /\ VetAncestors(<<base>> \o Above[base]) \in Lists
           /\ \A a \in {base} \cup Range(Above[base]) :
                Pending(VetAncestors(<<base>> \o Above[base]), Check("NoForeignWrite", a))
  <1>0. "run" \in Dirs /\ "base" \in Dirs /\ "top" \in Dirs
    BY Tree DEF Trunk
  <1>1. /\ <<"run">> \o << >> = <<"run">> /\ <<"base">> \o <<"top">> = <<"base", "top">>
        /\ <<"run">> \in Seq(Dirs) /\ <<"base", "top">> \in Seq(Dirs)
        /\ Range(<<"run">>) = {"run"} /\ Range(<<"base", "top">>) = {"base", "top"}
    <2>1. <<"run">> \o << >> = <<"run">>
      OBVIOUS
    <2>2. <<"base">> \o <<"top">> = <<"base", "top">>
      <3> DEFINE u == <<"base">> \o <<"top">>
                 v == <<"base", "top">>
      <3>1. u \in Seq(Trunk) /\ Len(u) = 2 /\ u[1] = "base" /\ u[2] = "top"
        BY DEF Trunk
      <3>2. v \in Seq(Trunk) /\ Len(v) = 2 /\ v[1] = "base" /\ v[2] = "top"
        BY DEF Trunk
      <3> HIDE DEF u, v
      <3>3. \A i \in 1..2 : u[i] = v[i]
        BY <3>1, <3>2
      <3>4. u = v
        BY <3>1, <3>2, <3>3
      <3> QED BY <3>4 DEF u, v
    <2>3. <<"run">> \in Seq(Dirs) /\ <<"base", "top">> \in Seq(Dirs)
      BY <1>0
    <2>4. Range(<<"run">>) = {"run"} /\ Range(<<"base", "top">>) = {"base", "top"}
      BY DEF Range
    <2> QED BY <2>1, <2>2, <2>3, <2>4
  <1>2. <<base>> \o Above[base] \in Seq(Dirs)
    <2>1. CASE base = "run"
      BY <1>1, <2>1, Tree
    <2>2. CASE base = "base"
      BY <1>1, <2>2, Tree
    <2> QED BY <2>1, <2>2
  <1>3. Range(<<base>> \o Above[base]) = {base} \cup Range(Above[base])
    <2>1. CASE base = "run"
      BY <1>1, <2>1, Tree, RangesAbove
    <2>2. CASE base = "base"
      BY <1>1, <2>2, Tree, RangesAbove
    <2> QED BY <2>1, <2>2
  <1> QED BY <1>2, <1>3, AncestorChecks

\* The start of b, and of no other broker, moves.
StartMoves(b) ==
    /\ starts' \in [Brokers -> StartStates]
    /\ \A a \in Brokers : a # b => starts'[a] = starts[a]
    /\ uid = "root" => starts'[b].base = "run"

\* The helpers that move a start (run, resolve_paths).
LEMMA StartSteps ==
    ASSUME PathTypes, NEW b \in Brokers
    PROVE  /\ Refuse(b) => StartMoves(b) /\ starts'[b] = NotStarted
           /\ \A pc \in {"mkdir", "chmod", "stat", "vet-base", "vet-paths", "resolved"}, todo \in Lists :
                StartGoto(b, pc, todo) =>
                  /\ StartMoves(b)
                  /\ starts'[b].pc = pc /\ starts'[b].todo = todo
                  /\ starts'[b].base = starts[b].base
                  /\ starts'[b].socket = starts[b].socket
                  /\ starts'[b].journal = starts[b].journal
  <1>0. /\ starts \in [Brokers -> StartStates] /\ starts[b] \in StartStates
        /\ uid = "root" => starts[b].base = "run"
    BY DEF PathTypes
  <1>1. << >> \in Lists
    BY DEF Lists
  <1>2. NotStarted \in StartStates /\ NotStarted.base = "run"
    BY <1>1 DEF NotStarted, StartStates, Places
  <1>3. ASSUME Refuse(b) PROVE StartMoves(b) /\ starts'[b] = NotStarted
    BY <1>0, <1>2, <1>3 DEF Refuse, StartMoves
  <1>4. ASSUME NEW pc \in {"mkdir", "chmod", "stat", "vet-base", "vet-paths", "resolved"},
               NEW todo \in Lists, StartGoto(b, pc, todo)
        PROVE  /\ StartMoves(b)
               /\ starts'[b].pc = pc /\ starts'[b].todo = todo
               /\ starts'[b].base = starts[b].base
               /\ starts'[b].socket = starts[b].socket
               /\ starts'[b].journal = starts[b].journal
    BY <1>0, <1>4 DEF StartGoto, StartMoves, StartStates
  <1> QED BY <1>3, <1>4

\* The command line and the environment name places (resolve_paths).
LEMMA ResolveStep ==
    ASSUME PathTypes, NEW b \in Brokers, ResolvePaths(b)
    PROVE  /\ StartMoves(b)
           /\ starts'[b].pc = "vet-base"
           /\ starts'[b].todo = VetAncestors(<<starts'[b].base>> \o Above[starts'[b].base])
           /\ starts[b].pc = "off"
  <1>1. PICK base \in {RuntimeBase(xdg) : xdg \in {"absolute", "unset"}} :
           \E socket, journal \in ResolvedDirs(base) :
              starts' = [starts EXCEPT ![b] =
                  [pc |-> "vet-base", base |-> base, socket |-> socket, journal |-> journal,
                   todo |-> VetAncestors(<<base>> \o Above[base])]]
    BY DEF ResolvePaths
  <1>2. base \in {"run", "base"} /\ (uid = "root" => base = "run")
    BY DEF RuntimeBase
  <1>3. ResolvedDirs(base) \subseteq Places
    BY <1>2 DEF ResolvedDirs, Resolved, Overrides, PrivateDirectory, Places
  <1>4. PICK socket, journal \in Places :
           starts' = [starts EXCEPT ![b] =
                  [pc |-> "vet-base", base |-> base, socket |-> socket, journal |-> journal,
                   todo |-> VetAncestors(<<base>> \o Above[base])]]
    BY <1>1, <1>3
  <1> DEFINE todo == VetAncestors(<<base>> \o Above[base])
             s == [pc |-> "vet-base", base |-> base, socket |-> socket, journal |-> journal,
                   todo |-> todo]
  <1>5. todo \in Lists
    BY <1>2, BaseChecks
  <1>6. starts' = [starts EXCEPT ![b] = s]
    BY <1>4
  <1> HIDE DEF todo
  <1>7. s \in StartStates /\ s.pc = "vet-base" /\ s.base = base /\ s.todo = todo
    BY <1>2, <1>5 DEF StartStates
  <1> HIDE DEF s
  <1>8. starts \in [Brokers -> StartStates]
    BY DEF PathTypes
  <1>9. StartMoves(b) /\ starts'[b] = s
    BY <1>2, <1>6, <1>7, <1>8 DEF StartMoves
  <1> QED BY <1>7, <1>9 DEF todo, ResolvePaths

\* The ways a start moves on (resolve_paths, vet_directory): it fails, it begins,
\* a check is made, a list of checks is done, or the private directory is made
\* and inspected.
Checked(b) ==
    /\ starts[b].pc \in {"vet-base", "vet-paths"} /\ starts'[b].pc = starts[b].pc
    /\ starts[b].todo # << >> /\ starts'[b].todo = Tail(starts[b].todo)
    /\ VetDirectory(Head(starts[b].todo))

Made(b) ==
    \/ starts[b].pc = "vet-base" /\ starts'[b].pc = "mkdir" /\ starts[b].todo = << >>
    \/ starts[b].pc \in {"mkdir", "chmod"} /\ starts'[b].pc \in {"chmod", "stat"}

AllChecked(b) ==
    starts[b].pc = "vet-paths" /\ starts'[b].pc = "resolved" /\ starts[b].todo = << >>

Inspected(b) ==
    /\ starts[b].pc = "stat" /\ starts'[b].pc = "vet-paths"
    /\ LET private == PrivateDirectory(starts[b].base)
       IN  dirs[private] = Directory(uid, "none", dirs[private].sticky)
    /\ starts'[b].todo = VetResolvedPath(starts[b].socket) \o VetResolvedPath(starts[b].journal)

GoesOn(b) ==
    /\ starts'[b].base = starts[b].base
    /\ starts'[b].socket = starts[b].socket
    /\ starts'[b].journal = starts[b].journal
    /\ Checked(b) \/ Made(b) \/ AllChecked(b) \/ Inspected(b)

\* What one broker's step does to the directories: its private one is created or
\* closed to others, or nothing changes (private_directory_in).
Secures(b) ==
    LET private == PrivateDirectory(starts[b].base)
    IN  \/ dirs' = dirs
        \/ /\ dirs[private].kind = "absent"
           /\ dirs' = [dirs EXCEPT ![private] = Directory(uid, "none", FALSE)]
        \/ dirs' = [dirs EXCEPT ![private].others = "none"]

\* Every step of resolve_paths is of one of these kinds.
LEMMA StartKind ==
    ASSUME PathTypes, NEW b \in Brokers,
           \/ ResolvePaths(b) \/ VetNext(b) \/ MakePrivate(b) \/ RestrictPrivate(b)
           \/ InspectPrivate(b)
    PROVE  /\ StartMoves(b) /\ uid' = uid /\ Secures(b) /\ starts[b].pc # "resolved"
           /\ \/ starts'[b] = NotStarted
              \/ GoesOn(b)
              \/ /\ starts'[b].pc = "vet-base"
                 /\ starts'[b].todo = VetAncestors(<<starts'[b].base>> \o Above[starts'[b].base])
  <1>0. starts[b] \in StartStates /\ starts[b].todo \in Lists /\ << >> \in Lists
        /\ starts[b].socket \in Places /\ starts[b].journal \in Places
    BY DEF PathTypes, StartStates, Lists
  <1>1. CASE ResolvePaths(b)
    <2>1. uid' = uid /\ dirs' = dirs
      BY <1>1 DEF ResolvePaths
    <2> QED BY <1>1, <2>1, ResolveStep DEF Secures
  <1>2. CASE VetNext(b)
    <2>0. /\ uid' = uid /\ dirs' = dirs /\ starts[b].pc \in {"vet-base", "vet-paths"}
          /\ Secures(b)
      BY <1>2 DEF VetNext, Secures
    <2>1. CASE /\ starts[b].todo # << >> /\ VetDirectory(Head(starts[b].todo))
               /\ StartGoto(b, starts[b].pc, Tail(starts[b].todo))
      <3>1. Tail(starts[b].todo) \in Lists
        BY <1>0, <2>1, PendingTail
      <3> QED BY <2>0, <2>1, <3>1, StartSteps DEF GoesOn, Checked
    <2>2. CASE Refuse(b)
      BY <2>0, <2>2, StartSteps
    <2>3. CASE /\ starts[b].todo = << >>
               /\ StartGoto(b, IF starts[b].pc = "vet-base" THEN "mkdir" ELSE "resolved", << >>)
      BY <1>0, <2>0, <2>3, StartSteps DEF GoesOn, Made, AllChecked
    <2> QED BY <1>2, <2>1, <2>2, <2>3 DEF VetNext
  <1>3. CASE MakePrivate(b)
    <2>0. uid' = uid /\ starts[b].pc = "mkdir"
      BY <1>3 DEF MakePrivate
    <2>1. Secures(b)
      BY <1>3 DEF MakePrivate, Secures
    <2>2. StartGoto(b, "chmod", << >>) \/ StartGoto(b, "stat", << >>) \/ Refuse(b)
      BY <1>3 DEF MakePrivate
    <2> QED BY <1>0, <2>0, <2>1, <2>2, StartSteps DEF GoesOn, Made
  <1>4. CASE RestrictPrivate(b)
    <2>0. uid' = uid /\ starts[b].pc = "chmod"
      BY <1>4 DEF RestrictPrivate
    <2>1. Secures(b)
      BY <1>4 DEF RestrictPrivate, Secures
    <2>2. StartGoto(b, "stat", << >>) \/ Refuse(b)
      BY <1>4 DEF RestrictPrivate
    <2> QED BY <1>0, <2>0, <2>1, <2>2, StartSteps DEF GoesOn, Made
  <1>5. CASE InspectPrivate(b)
    <2> DEFINE private == PrivateDirectory(starts[b].base)
               todo == VetResolvedPath(starts[b].socket) \o VetResolvedPath(starts[b].journal)
    <2>0. uid' = uid /\ starts[b].pc = "stat" /\ Secures(b)
      BY <1>5 DEF InspectPrivate, Secures
    <2>1. todo \in Lists
      BY <1>0, ResolvedChecks, PendingConcat
    <2>2. \/ /\ dirs[private] = Directory(uid, "none", dirs[private].sticky)
             /\ StartGoto(b, "vet-paths", todo)
          \/ Refuse(b)
      BY <1>5 DEF InspectPrivate
    <2> HIDE DEF todo
    <2>3. CASE /\ dirs[private] = Directory(uid, "none", dirs[private].sticky)
               /\ StartGoto(b, "vet-paths", todo)
      <3>1. /\ StartMoves(b) /\ starts'[b].pc = "vet-paths" /\ starts'[b].todo = todo
            /\ starts'[b].base = starts[b].base
            /\ starts'[b].socket = starts[b].socket
            /\ starts'[b].journal = starts[b].journal
        BY <2>1, <2>3, StartSteps
      <3>2. Inspected(b)
        BY <2>0, <2>3, <3>1 DEF Inspected, todo
      <3> QED BY <2>0, <3>1, <3>2 DEF GoesOn
    <2>4. CASE Refuse(b)
      BY <2>0, <2>4, StartSteps
    <2> QED BY <2>2, <2>3, <2>4
  <1> QED BY <1>1, <1>2, <1>3, <1>4, <1>5

\* What a step of the system does to paths: a start moves, another user changes
\* the tree, a process ends, or nothing.
PathStep ==
    \/ \E b \in Brokers : \/ ResolvePaths(b) \/ VetNext(b) \/ MakePrivate(b)
                          \/ RestrictPrivate(b) \/ InspectPrivate(b)
    \/ \E d \in Dirs : Tamper(d)
    \/ /\ UNCHANGED <<uid, dirs>>
       /\ UNCHANGED starts \/ \E b \in Brokers : Refuse(b)

\* A broker with resolved paths changes neither, except in that it ends (run).
LEMMA PathSteps ==
    ASSUME [Next]_vars
    PROVE  PathStep
  <1>1. CASE UNCHANGED vars
    BY <1>1 DEF PathStep, vars, pathVars
  <1>2. CASE PathsNext
    BY <1>2 DEF PathsNext, PathStep
  <1>3. ASSUME NEW b \in Brokers, UNCHANGED <<uid, dirs, tampers>>,
               \/ LockSingleInstance(b) \/ SpawnService(b) \/ InspectPath(b) \/ UnlinkStale(b)
               \/ BindListener(b) \/ Identify(b) \/ StartLifecycle(b) \/ EndLifecycle(b)
               \/ ServeReturns(b) \/ DropInspects(b) \/ DropUnlinks(b) \/ DropLock(b)
               \/ ProcessExit(b) \/ Kill(b)
        PROVE  PathStep
    <2>1. starts' = starts \/ Refuse(b)
      BY <1>3 DEF LockSingleInstance, SpawnService, InspectPath, UnlinkStale, BindListener,
                  Identify, StartLifecycle, EndLifecycle, ServeReturns, DropInspects,
                  DropUnlinks, DropLock, ProcessExit, Kill, Terminate
    <2> QED BY <1>3, <2>1 DEF PathStep
  <1> QED BY <1>1, <1>2, <1>3 DEF Next

\* Types and places are kept by every step (resolve_paths).
LEMMA PathInvStep ==
    ASSUME PathInv, PathStep
    PROVE  PathInv'
  <1>0. /\ PathTypes /\ starts \in [Brokers -> StartStates] /\ dirs \in [Dirs -> Directories]
        /\ uid \in {"root", "broker"}
        /\ \A b \in Brokers : Placed(starts[b]) /\ (uid = "root" => starts[b].base = "run")
    BY DEF PathInv, PathTypes
  <1>n. Placed(NotStarted)
    BY DEF Placed, NotStarted
  <1>1. ASSUME NEW b \in Brokers, StartMoves(b), uid' = uid, dirs' \in [Dirs -> Directories],
               Placed(starts'[b])
        PROVE  PathInv'
    <2>1. \A a \in Brokers : Placed(starts'[a]) /\ (uid' = "root" => starts'[a].base = "run")
      BY <1>0, <1>1 DEF StartMoves
    <2> QED BY <1>0, <1>1, <2>1 DEF StartMoves, PathInv, PathTypes, Placed
  <1>2. ASSUME NEW b \in Brokers,
               \/ ResolvePaths(b) \/ VetNext(b) \/ MakePrivate(b) \/ RestrictPrivate(b)
               \/ InspectPrivate(b)
        PROVE  PathInv'
    <2>1. /\ StartMoves(b) /\ uid' = uid /\ Secures(b)
          /\ starts'[b] = NotStarted \/ GoesOn(b) \/ starts'[b].pc = "vet-base"
      BY <1>0, <1>2, StartKind
    <2>2. dirs' \in [Dirs -> Directories]
      <3>1. Directory(uid, "none", FALSE) \in Directories
        BY <1>0 DEF Directory, Directories
      <3>2. \A d \in Directories : [d EXCEPT !.others = "none"] \in Directories
        BY DEF Directories
      <3>3. PrivateDirectory(starts[b].base) \in Dirs
        BY Tree DEF PrivateDirectory, Leaves
      <3> QED BY <1>0, <2>1, <3>1, <3>2, <3>3 DEF Secures
    <2> DEFINE s == starts[b]
               t == starts'[b]
    <2>3. s \in StartStates /\ Placed(s) /\ s.todo \in Lists /\ s.socket \in Places
          /\ s.journal \in Places
      BY <1>0 DEF StartStates
    <2>4. CASE GoesOn(b)
      <3>1. t.socket = s.socket /\ t.journal = s.journal
        BY <2>4 DEF GoesOn
      <3>2. CASE Checked(b)
        <4>1. ASSUME s.pc = "vet-paths", NEW d \in {s.socket, s.journal}
              PROVE  d \in Leaves \/ Pending(t.todo, Check("OwnerOnly", d))
          <5>1. d \in Leaves \/ Pending(s.todo, Check("OwnerOnly", d))
            BY <2>3, <4>1 DEF Placed
          <5>2. CASE Check("OwnerOnly", d) = Head(s.todo)
            <6>1. d \in Dirs
              BY <3>2, <5>2 DEF Checked, VetDirectory, Check
            <6> QED BY <2>3, <6>1, Tree DEF Places, Leaves, Trunk
          <5> QED BY <2>3, <3>2, <5>1, <5>2, PendingTail DEF Checked
        <4>2. t.pc = s.pc /\ s.pc # "resolved"
          BY <3>2 DEF Checked
        <4>3. Placed(t)
          BY <3>1, <4>1, <4>2 DEF Placed
        <4> QED BY <1>1, <2>1, <2>2, <4>3
      <3>3. CASE Made(b)
        <4>1. Placed(t)
          BY <3>3 DEF Made, Placed
        <4> QED BY <1>1, <2>1, <2>2, <4>1
      <3>4. CASE AllChecked(b)
        <4>1. \A c : ~Pending(s.todo, c)
          BY <3>4 DEF AllChecked, Pending
        <4>2. Placed(t)
          BY <2>3, <3>1, <3>4, <4>1 DEF AllChecked, Placed
        <4> QED BY <1>1, <2>1, <2>2, <4>2
      <3>5. CASE Inspected(b)
        <4>1. t.pc = "vet-paths" /\ t.todo = VetResolvedPath(s.socket) \o VetResolvedPath(s.journal)
          BY <3>5 DEF Inspected
        <4>2. /\ Pending(t.todo, Check("OwnerOnly", s.socket))
              /\ Pending(t.todo, Check("OwnerOnly", s.journal))
          BY <2>3, <4>1, ResolvedChecks, PendingConcat
        <4>3. Placed(t)
          BY <3>1, <4>1, <4>2 DEF Placed
        <4> QED BY <1>1, <2>1, <2>2, <4>3
      <3> QED BY <2>4, <3>2, <3>3, <3>4, <3>5 DEF GoesOn
    <2>5. CASE starts'[b] = NotStarted \/ starts'[b].pc = "vet-base"
      <3>1. Placed(t)
        BY <1>n, <2>5 DEF Placed
      <3> QED BY <1>1, <2>1, <2>2, <3>1
    <2> QED BY <2>1, <2>4, <2>5
  <1>3. ASSUME NEW d \in Dirs, Tamper(d)
        PROVE  PathInv'
    <2>1. starts' = starts /\ uid' = uid /\ dirs' \in [Dirs -> Directories]
      BY <1>0, <1>3, PathsAssumption DEF Tamper
    <2> QED BY <1>0, <2>1 DEF PathInv, PathTypes, Placed
  <1>4. CASE UNCHANGED <<uid, dirs>> /\ UNCHANGED starts
    BY <1>0, <1>4 DEF PathInv, PathTypes, Placed
  <1>5. ASSUME NEW b \in Brokers, UNCHANGED <<uid, dirs>>, Refuse(b)
        PROVE  PathInv'
    <2>1. StartMoves(b) /\ starts'[b] = NotStarted
      BY <1>0, <1>5, StartSteps
    <2> QED BY <1>0, <1>1, <1>5, <1>n, <2>1
  <1> QED BY <1>2, <1>3, <1>4, <1>5 DEF PathStep

\* A host where no broker has been started.
LEMMA PathInvInit ==
    ASSUME PathsInit
    PROVE  PathInv
  <1>1. << >> \in Lists
    BY DEF Lists
  <1>2. NotStarted \in StartStates /\ NotStarted.base = "run" /\ Placed(NotStarted)
    BY <1>1 DEF NotStarted, StartStates, Places, Placed
  <1>3. starts = [b \in Brokers |-> NotStarted]
    BY DEF PathsInit
  <1>4. dirs \in [Dirs -> Directories] /\ uid \in {"root", "broker"}
    BY PathsAssumption DEF PathsInit
  <1> HIDE DEF NotStarted
  <1> QED BY <1>2, <1>3, <1>4 DEF PathInv, PathTypes

\* Types and places are invariant.
LEMMA PathInvariance == Spec => []PathInv
  <1>1. Init => PathInv
    BY PathInvInit DEF Init
  <1>2. PathInv /\ [Next]_vars => PathInv'
    BY PathInvStep, PathSteps
  <1> QED BY <1>1, <1>2, PTL DEF Spec

-----------------------------------------------------------------------------
\* What was vetted stays as it was

\* No other user owns what the tree hangs from, or may replace a part of it: /run,
\* /top and the base itself.  The base may be open to others.
Rooted(tree) ==
    /\ \A e \in Trunk : tree[e].kind = "dir" /\ tree[e].owner # "other"
    /\ ~(tree["top"].others = "write" /\ ~tree["top"].sticky)

\* A directory above the broker's files would pass its check.
Vetted(a) == VetDirectory(Check("NoForeignWrite", a))

\* A directory is the broker's or root's, and closed to others.
Shut(d) ==
    dirs[d].kind = "dir" /\ dirs[d].owner \in {uid, "root"} /\ dirs[d].others = "none"

Parent(d) == IF d = "runPrivate" THEN "run" ELSE "base"

\* It is shut, or lies where it will not pass.
Kept(d) == Shut(d) \/ ~Vetted(Parent(d))

Bases(base) == {base} \cup Range(Above[base])

\* What a start knows of the tree, by how far it is.
Knows(s) ==
    /\ s.pc = "vet-base" =>
          \A a \in Bases(s.base) : Vetted(a) \/ Pending(s.todo, Check("NoForeignWrite", a))
    /\ s.pc \in {"mkdir", "chmod", "stat", "vet-paths", "resolved"} =>
          \A a \in Bases(s.base) : Vetted(a)
    /\ s.pc \in {"vet-paths", "resolved"} => Kept(PrivateDirectory(s.base))
    /\ s.pc = "vet-paths" =>
          \A d \in {s.socket, s.journal} :
             /\ Pending(s.todo, Check("OwnerOnly", d)) \/ (d \in Leaves /\ Kept(d))
             /\ d \in Leaves => \A a \in Range(Above[d]) :
                   Vetted(a) \/ Pending(s.todo, Check("NoForeignWrite", a))
    /\ s.pc = "resolved" =>
          \A d \in {s.socket, s.journal} :
             d \in Leaves /\ Kept(d) /\ \A a \in Range(Above[d]) : Vetted(a)

SealInv == Rooted(dirs) /\ \A b \in Brokers : Knows(starts[b])

\* Where the trunk is nobody else's, other users reach the leaves at most, and
\* those only in a parent that does not pass (rename, rmdir and mkdir of others).
LEMMA TamperStep ==
    ASSUME PathTypes, Rooted(dirs), NEW d \in Dirs, Tamper(d)
    PROVE  /\ d \in Leaves /\ uid' = uid
           /\ \A e \in Dirs : e # d => dirs'[e] = dirs[e]
           /\ Shut(d) => ~Vetted(Parent(d))
  <1>1. MayTamper(d) /\ uid' = uid
    BY DEF Tamper
  <1>2. d # "run" /\ d # "top"
    BY <1>1, Tree DEF MayTamper, Rooted, Trunk
  <1>3. d # "base"
    <2>1. ASSUME d = "base" PROVE FALSE
      <3>1. Above[d] = <<"top">> /\ Head(Above[d]) = "top"
        BY <2>1, Tree
      <3>2. /\ dirs["base"].kind = "dir" /\ dirs["base"].owner # "other"
            /\ dirs["top"].kind = "dir" /\ dirs["top"].owner # "other"
            /\ ~(dirs["top"].others = "write" /\ ~dirs["top"].sticky)
        BY DEF Rooted, Trunk
      <3> QED BY <1>1, <2>1, <3>1, <3>2 DEF MayTamper
    <2> QED BY <2>1
  <1>4. d \in Leaves
    BY <1>2, <1>3, Tree DEF Trunk
  <1>5. \A e \in Dirs : e # d => dirs'[e] = dirs[e]
    <2>1. PICK new \in Foreign, below \in Foreign :
             dirs' = [e \in Dirs |-> IF e = d THEN new
                                     ELSE IF Contains(Above[e], d) THEN below
                                     ELSE dirs[e]]
      BY DEF Tamper
    <2> QED BY <1>4, <2>1, LeavesAreLast
  <1>6. ASSUME Shut(d), Vetted(Parent(d)) PROVE FALSE
    <2>1. Above[d] # << >> /\ Head(Above[d]) = Parent(d)
      BY <1>4, Tree DEF Leaves, Parent
    <2>2. uid \in {"root", "broker"}
      BY DEF PathTypes
    <2>3. dirs[d].kind = "dir" /\ dirs[d].owner # "other"
      BY <1>6, <2>2 DEF Shut
    <2>4. /\ dirs[Parent(d)].kind = "dir" /\ dirs[Parent(d)].owner # "other"
          /\ ~(dirs[Parent(d)].others = "write" /\ ~dirs[Parent(d)].sticky)
      BY <1>6, <2>2 DEF Vetted, VetDirectory, Check, Refuses
    <2> QED BY <1>1, <2>1, <2>3, <2>4 DEF MayTamper
  <1> QED BY <1>1, <1>4, <1>5, <1>6

\* The trunk does not change, and a shut directory in a vetted one stays shut.
LEMMA TreeStep ==
    ASSUME PathInv, Rooted(dirs), PathStep
    PROVE  /\ uid' = uid
           /\ \A e \in Trunk : dirs'[e] = dirs[e] /\ (Vetted(e)' <=> Vetted(e))
           /\ \A d \in Leaves : Kept(d) => Kept(d)'
  <1>0. PathTypes /\ dirs \in [Dirs -> Directories]
    BY DEF PathInv, PathTypes
  <1>1. ASSUME uid' = uid, \A e \in Trunk : dirs'[e] = dirs[e]
        PROVE  \A e \in Trunk : Vetted(e)' <=> Vetted(e)
    BY <1>1 DEF Vetted, VetDirectory, Check, Refuses
  <1>p. \A d \in Leaves : Parent(d) \in Trunk
    BY DEF Parent, Trunk
  <1>2. ASSUME uid' = uid, \A e \in Trunk : dirs'[e] = dirs[e],
               \A d \in Leaves : Shut(d) => Shut(d)' \/ ~Vetted(Parent(d))
        PROVE  /\ \A e \in Trunk : dirs'[e] = dirs[e] /\ (Vetted(e)' <=> Vetted(e))
               /\ \A d \in Leaves : Kept(d) => Kept(d)'
    <2>1. \A e \in Trunk : Vetted(e)' <=> Vetted(e)
      BY <1>1, <1>2
    <2>2. ASSUME NEW d \in Leaves, Kept(d) PROVE Kept(d)'
      <3>1. Vetted(Parent(d))' <=> Vetted(Parent(d))
        BY <1>p, <2>1
      <3> QED BY <1>2, <2>2, <3>1 DEF Kept
    <2> QED BY <1>2, <2>1, <2>2
  <1>3. ASSUME NEW b \in Brokers,
               \/ ResolvePaths(b) \/ VetNext(b) \/ MakePrivate(b) \/ RestrictPrivate(b)
               \/ InspectPrivate(b)
        PROVE  /\ uid' = uid /\ \A e \in Trunk : dirs'[e] = dirs[e]
               /\ \A d \in Leaves : Shut(d) => Shut(d)'
    <2>1. uid' = uid /\ Secures(b)
      BY <1>0, <1>3, StartKind
    <2>2. PICK private \in Leaves :
             private = PrivateDirectory(starts[b].base) /\ private \notin Trunk
      BY DEF PrivateDirectory, Leaves, Trunk
    <2>3. Trunk \subseteq Dirs /\ Leaves \subseteq Dirs
      BY Tree
    <2>4. CASE dirs' = dirs
      BY <2>1, <2>4 DEF Shut
    <2>5. CASE /\ dirs[private].kind = "absent"
               /\ dirs' = [dirs EXCEPT ![private] = Directory(uid, "none", FALSE)]
      <3>1. \A e \in Dirs : e # private => dirs'[e] = dirs[e]
        BY <1>0, <2>5
      <3>2. ~Shut(private)
        BY <2>5 DEF Shut
      <3> QED BY <2>1, <2>2, <2>3, <3>1, <3>2 DEF Shut
    <2>6. CASE dirs' = [dirs EXCEPT ![private].others = "none"]
      <3>1. \A e \in Dirs : e # private => dirs'[e] = dirs[e]
        BY <1>0, <2>6
      <3>2. dirs'[private] = [dirs[private] EXCEPT !.others = "none"]
            /\ dirs[private] \in Directories
        BY <1>0, <2>2, <2>3, <2>6
      <3>3. /\ dirs'[private].kind = dirs[private].kind
            /\ dirs'[private].owner = dirs[private].owner
            /\ dirs'[private].others = "none"
        BY <3>2 DEF Directories
      <3>4. Shut(private) => Shut(private)'
        BY <2>1, <3>3 DEF Shut
      <3> QED BY <2>1, <2>2, <2>3, <3>1, <3>4 DEF Shut
    <2> QED BY <2>1, <2>2, <2>4, <2>5, <2>6 DEF Secures
  <1>4. ASSUME NEW d \in Dirs, Tamper(d)
        PROVE  /\ uid' = uid /\ \A e \in Trunk : dirs'[e] = dirs[e]
               /\ \A x \in Leaves : Shut(x) => Shut(x)' \/ ~Vetted(Parent(x))
    <2>1. /\ d \in Leaves /\ uid' = uid /\ \A e \in Dirs : e # d => dirs'[e] = dirs[e]
          /\ Shut(d) => ~Vetted(Parent(d))
      BY <1>0, <1>4, TamperStep
    <2>2. Trunk \subseteq Dirs /\ Leaves \subseteq Dirs /\ d \notin Trunk
      BY <2>1, Tree DEF Leaves, Trunk
    <2> QED BY <2>1, <2>2 DEF Shut
  <1>5. ASSUME UNCHANGED <<uid, dirs>>
        PROVE  /\ uid' = uid /\ \A e \in Trunk : dirs'[e] = dirs[e]
               /\ \A d \in Leaves : Shut(d) => Shut(d)'
    BY <1>5 DEF Shut
  <1> QED BY <1>2, <1>3, <1>4, <1>5 DEF PathStep

\* Where the directories of a start lie.
LEMMA Lies ==
    /\ \A base \in {"run", "base"} :
          /\ Bases(base) \subseteq Trunk /\ base \in Bases(base)
          /\ PrivateDirectory(base) \in Leaves
          /\ Parent(PrivateDirectory(base)) = base
    /\ \A d \in Leaves : Range(Above[d]) \subseteq Trunk /\ Parent(d) \in Range(Above[d])
  <1>1. ASSUME NEW base \in {"run", "base"}
        PROVE  /\ Bases(base) \subseteq Trunk /\ base \in Bases(base)
               /\ PrivateDirectory(base) \in Leaves
               /\ Parent(PrivateDirectory(base)) = base
    <2>1. Bases(base) \subseteq Trunk
      BY RangesAbove DEF Bases, Trunk
    <2>2. PrivateDirectory(base) \in Leaves /\ Parent(PrivateDirectory(base)) = base
      BY DEF PrivateDirectory, Leaves, Parent
    <2> QED BY <2>1, <2>2 DEF Bases
  <1>2. ASSUME NEW d \in Leaves
        PROVE  Range(Above[d]) \subseteq Trunk /\ Parent(d) \in Range(Above[d])
    BY RangesAbove DEF Leaves, Trunk, Parent
  <1> QED BY <1>1, <1>2

\* A step keeps what another broker's start knows.
LEMMA KnowsKept ==
    ASSUME PathInv, Rooted(dirs), PathStep, NEW s \in StartStates, Knows(s)
    PROVE  Knows(s)'
  <1>1. /\ s.base \in {"run", "base"} /\ Bases(s.base) \subseteq Trunk
        /\ PrivateDirectory(s.base) \in Leaves
    BY Lies DEF StartStates
  <1>2. /\ \A e \in Trunk : Vetted(e)' <=> Vetted(e)
        /\ \A d \in Leaves : Kept(d) => Kept(d)'
    BY TreeStep
  <1>3. \A d \in Leaves : Range(Above[d]) \subseteq Trunk
    BY Lies
  <1> QED BY <1>1, <1>2, <1>3 DEF Knows

\* A start that moves on knows more of the tree (vet_directory,
\* private_directory_in).
LEMMA KnowsMore ==
    ASSUME PathInv, SealInv, NEW b \in Brokers, StartMoves(b), GoesOn(b),
           NEW t, t = starts'[b]
    PROVE  Knows(t)
  <1> DEFINE s == starts[b]
  <1>0. /\ s \in StartStates /\ t \in StartStates /\ Knows(s) /\ Placed(s)
        /\ s.todo \in Lists /\ t.todo \in Lists /\ s.base \in {"run", "base"}
        /\ s.socket \in Places /\ s.journal \in Places
        /\ t.base = s.base /\ t.socket = s.socket /\ t.journal = s.journal
    BY DEF PathInv, PathTypes, SealInv, StartMoves, StartStates, GoesOn
  <1>u. uid \in {"root", "broker"}
    BY DEF PathInv, PathTypes
  <1>1. CASE Checked(b)
    <2>1. /\ s.pc \in {"vet-base", "vet-paths"} /\ t.pc = s.pc /\ s.todo # << >>
          /\ t.todo = Tail(s.todo) /\ VetDirectory(Head(s.todo))
      BY <1>1 DEF Checked
    <2>2. \A c : Pending(s.todo, c) => VetDirectory(c) \/ Pending(t.todo, c)
      BY <1>0, <2>1, PendingTail
    <2>3. \A a : Pending(s.todo, Check("NoForeignWrite", a)) =>
                   Vetted(a) \/ Pending(t.todo, Check("NoForeignWrite", a))
      BY <2>2 DEF Vetted
    <2>4. ASSUME NEW d \in Places, VetDirectory(Check("OwnerOnly", d))
          PROVE  d \in Leaves /\ Kept(d)
      <3>1. d \in Dirs /\ Shut(d)
        <4>1. /\ d \in Dirs /\ dirs[d].kind = "dir" /\ dirs[d].owner \in {uid, "root"}
              /\ ~Refuses("OwnerOnly", dirs[d])
          BY <2>4 DEF VetDirectory, Check
        <4>2. dirs[d].others = "none"
          BY <4>1 DEF Refuses
        <4> QED BY <4>1, <4>2 DEF Shut
      <3> QED BY <3>1, Tree DEF Kept, Places, Leaves, Trunk
    <2>5. \A d \in Places : Pending(s.todo, Check("OwnerOnly", d)) =>
                   Pending(t.todo, Check("OwnerOnly", d)) \/ (d \in Leaves /\ Kept(d))
      BY <2>2, <2>4
    <2> QED BY <1>0, <2>1, <2>3, <2>5 DEF Knows
  <1>2. CASE Made(b)
    <2>1. CASE s.pc = "vet-base" /\ t.pc = "mkdir" /\ s.todo = << >>
      <3>1. \A c : ~Pending(s.todo, c)
        BY <2>1 DEF Pending
      <3> QED BY <1>0, <2>1, <3>1 DEF Knows
    <2>2. CASE s.pc \in {"mkdir", "chmod"} /\ t.pc \in {"chmod", "stat"}
      BY <1>0, <2>2 DEF Knows
    <2> QED BY <1>2, <2>1, <2>2 DEF Made
  <1>3. CASE AllChecked(b)
    <2>1. s.pc = "vet-paths" /\ t.pc = "resolved" /\ s.todo = << >>
      BY <1>3 DEF AllChecked
    <2>2. \A c : ~Pending(s.todo, c)
      BY <2>1 DEF Pending
    <2> QED BY <1>0, <2>1, <2>2 DEF Knows
  <1>4. CASE Inspected(b)
    <2> DEFINE private == PrivateDirectory(s.base)
    <2>1. /\ s.pc = "stat" /\ t.pc = "vet-paths"
          /\ dirs[private] = Directory(uid, "none", dirs[private].sticky)
          /\ t.todo = VetResolvedPath(s.socket) \o VetResolvedPath(s.journal)
      BY <1>4 DEF Inspected
    <2>2. Shut(private)
      BY <2>1 DEF Shut, Directory
    <2>3. \A d \in {s.socket, s.journal} :
             /\ VetResolvedPath(d) \in Lists
             /\ \A c : Pending(VetResolvedPath(d), c) => Pending(t.todo, c)
      BY <1>0, <2>1, ResolvedChecks, PendingConcat
    <2>4. ASSUME NEW d \in {s.socket, s.journal}
          PROVE  /\ Pending(t.todo, Check("OwnerOnly", d))
                 /\ d \in Leaves => \A a \in Range(Above[d]) :
                                      Pending(t.todo, Check("NoForeignWrite", a))
      BY <1>0, <2>3, ResolvedChecks
    <2>5. Kept(private)
      BY <2>2 DEF Kept
    <2> QED BY <1>0, <2>1, <2>4, <2>5 DEF Knows
  <1> QED BY <1>1, <1>2, <1>3, <1>4 DEF GoesOn

\* Every step keeps what the starts know of the tree.
LEMMA SealStep ==
    ASSUME PathInv, SealInv, PathStep
    PROVE  SealInv'
  <1>0. /\ Rooted(dirs) /\ starts \in [Brokers -> StartStates] /\ PathTypes
        /\ \A b \in Brokers : Knows(starts[b])
    BY DEF PathInv, PathTypes, SealInv
  <1>1. Rooted(dirs')
    <2>1. \A e \in Trunk : dirs'[e] = dirs[e]
      BY <1>0, TreeStep
    <2> QED BY <1>0, <2>1 DEF Rooted, Trunk
  <1>n. NotStarted \in StartStates /\ Knows(NotStarted)
    <2>1. << >> \in Lists
      BY DEF Lists
    <2>2. NotStarted \in StartStates /\ NotStarted.pc = "off"
      BY <2>1 DEF NotStarted, StartStates, Places
    <2> QED BY <2>2 DEF Knows
  <1>2. ASSUME NEW b \in Brokers, NEW t \in StartStates, t = starts'[b], Knows(t)
        PROVE  Knows(starts[b])'
    <2>1. Knows(t)'
      BY <1>0, <1>2, KnowsKept
    <2> QED BY <1>2, <2>1 DEF Knows
  <1>3. ASSUME NEW b \in Brokers, starts'[b] = starts[b]
        PROVE  Knows(starts[b])'
    <2>1. PICK t \in StartStates : t = starts[b]
      BY <1>0
    <2> QED BY <1>0, <1>2, <1>3, <2>1
  <1>4. ASSUME NEW b \in Brokers, starts'[b] = NotStarted
        PROVE  Knows(starts[b])'
    BY <1>2, <1>4, <1>n
  <1>5. ASSUME NEW b \in Brokers, NEW a \in Brokers,
               \/ ResolvePaths(b) \/ VetNext(b) \/ MakePrivate(b) \/ RestrictPrivate(b)
               \/ InspectPrivate(b)
        PROVE  Knows(starts[a])'
    <2>1. /\ StartMoves(b)
          /\ \/ starts'[b] = NotStarted
             \/ GoesOn(b)
             \/ /\ starts'[b].pc = "vet-base"
                /\ starts'[b].todo = VetAncestors(<<starts'[b].base>> \o Above[starts'[b].base])
      BY <1>0, <1>5, StartKind
    <2>2. CASE a # b
      BY <1>3, <2>1, <2>2 DEF StartMoves
    <2>3. CASE a = b
      <3>1. PICK t \in StartStates : t = starts'[b]
        BY <2>1 DEF StartMoves
      <3>2. CASE starts'[b] = NotStarted
        BY <1>4, <2>3, <3>2
      <3>3. CASE GoesOn(b)
        <4>1. Knows(t)
          BY <2>1, <3>1, <3>3, KnowsMore
        <4> QED BY <1>2, <2>3, <3>1, <4>1
      <3>4. CASE /\ t.pc = "vet-base"
                 /\ t.todo = VetAncestors(<<t.base>> \o Above[t.base])
        <4>1. t.base \in {"run", "base"}
          BY DEF StartStates
        <4>2. \A x \in Bases(t.base) : Pending(t.todo, Check("NoForeignWrite", x))
          BY <3>4, <4>1, BaseChecks DEF Bases
        <4>3. Knows(t)
          BY <3>4, <4>2 DEF Knows
        <4> QED BY <1>2, <2>3, <3>1, <4>3
      <3> QED BY <2>1, <3>1, <3>2, <3>3, <3>4
    <2> QED BY <2>2, <2>3
  <1>6. ASSUME NEW a \in Brokers
        PROVE  Knows(starts[a])'
    <2>1. CASE starts' = starts
      BY <1>3, <2>1
    <2>2. ASSUME NEW b \in Brokers, Refuse(b)
          PROVE  Knows(starts[a])'
      <3>1. StartMoves(b) /\ starts'[b] = NotStarted
        BY <1>0, <2>2, StartSteps
      <3> QED BY <1>3, <1>4, <3>1 DEF StartMoves
    <2>3. \A d \in Dirs : Tamper(d) => starts' = starts
      BY DEF Tamper
    <2> QED BY <1>5, <2>1, <2>2, <2>3 DEF PathStep
  <1> QED BY <1>1, <1>6 DEF SealInv

\* Under a trunk that is nobody else's, from the end of resolve_paths for as long
\* as a broker runs, its lock, socket and journal are in directories that no
\* other user can enter, change or replace, however the tree was changed between
\* the calls that vetted it (vet_resolved_path, private_directory_in).
THEOREM VettedSealed ==
    ASSUME \A layout \in Layouts : Rooted(layout)
    PROVE  Spec => []VettedStaysSealed
  <1>1. Init => SealInv
    <2> SUFFICES ASSUME Init PROVE SealInv
      OBVIOUS
    <2>1. dirs \in Layouts /\ starts = [b \in Brokers |-> NotStarted]
      BY DEF Init, PathsInit
    <2>2. \A b \in Brokers : starts[b].pc = "off"
      BY <2>1 DEF NotStarted
    <2> QED BY <2>1, <2>2 DEF SealInv, Knows
  <1>2. PathInv /\ SealInv /\ [Next]_vars => SealInv'
    BY SealStep, PathSteps
  <1>3. PathInv /\ SealInv => VettedStaysSealed
    <2> SUFFICES ASSUME PathInv, SealInv, NEW b \in Brokers, starts[b].pc = "resolved",
                        NEW d \in {PrivateDirectory(starts[b].base), starts[b].socket,
                                   starts[b].journal}
                 PROVE  d \in Dirs /\ Sealed(d)
      BY DEF VettedStaysSealed
    <2>0. /\ Knows(starts[b]) /\ starts[b] \in StartStates /\ Rooted(dirs)
          /\ dirs \in [Dirs -> Directories] /\ uid \in {"root", "broker"}
          /\ starts[b].base \in {"run", "base"}
      BY DEF PathInv, PathTypes, SealInv, StartStates
    <2>1. d \in Leaves /\ Kept(d) /\ Vetted(Parent(d))
      <3>1. CASE d = PrivateDirectory(starts[b].base)
        <4>1. /\ d \in Leaves /\ Parent(d) = starts[b].base
              /\ starts[b].base \in Bases(starts[b].base)
          BY <2>0, <3>1, Lies
        <4>2. Kept(d) /\ Vetted(starts[b].base)
          BY <2>0, <3>1, <4>1 DEF Knows
        <4> QED BY <4>1, <4>2
      <3>2. CASE d \in {starts[b].socket, starts[b].journal}
        <4>1. d \in Leaves /\ Kept(d) /\ \A a \in Range(Above[d]) : Vetted(a)
          BY <2>0, <3>2 DEF Knows
        <4> QED BY <4>1, Lies
      <3> QED BY <3>1, <3>2
    <2>2. d \in Dirs /\ Shut(d)
      BY <2>1, Tree DEF Kept
    <2>3. dirs[d].kind = "dir" /\ dirs[d].others = "none" /\ dirs[d].owner # "other"
      BY <2>0, <2>2 DEF Shut
    <2>4. /\ dirs[Parent(d)].kind = "dir" /\ dirs[Parent(d)].owner # "other"
          /\ ~(dirs[Parent(d)].others = "write" /\ ~dirs[Parent(d)].sticky)
      BY <2>0, <2>1 DEF Vetted, VetDirectory, Check, Refuses
    <2>5. Above[d] # << >> /\ Head(Above[d]) = Parent(d)
      BY <2>1, Tree DEF Leaves, Parent
    <2>6. ~MayTamper(d)
      BY <2>3, <2>4, <2>5 DEF MayTamper
    <2>7. ~MayTamper("run") /\ ~MayTamper("top")
      BY <2>0, Tree DEF MayTamper, Rooted, Trunk
    <2>8. ~MayTamper("base")
      <3>1. Above["base"] = <<"top">> /\ Head(Above["base"]) = "top"
        BY Tree
      <3>2. /\ dirs["base"].kind = "dir" /\ dirs["base"].owner # "other"
            /\ dirs["top"].kind = "dir" /\ dirs["top"].owner # "other"
            /\ ~(dirs["top"].others = "write" /\ ~dirs["top"].sticky)
        BY <2>0 DEF Rooted, Trunk
      <3> QED BY <3>1, <3>2 DEF MayTamper
    <2>9. \A e \in Range(Above[d]) : ~MayTamper(e)
      BY <2>1, <2>7, <2>8, Lies DEF Trunk
    <2> QED BY <2>2, <2>3, <2>6, <2>9 DEF Sealed
  <1> QED BY <1>1, <1>2, <1>3, PathInvariance, PTL DEF Spec

-----------------------------------------------------------------------------
\* One driver, and a socket that is the broker's own

Entries == [kind : {"none", "file", "socket"}, ino : Nat]

BrokerStates ==
    [pc : {"off", "open", "inspect", "unlink", "bind", "identify", "serve", "stat", "remove",
           "unlock", "exit"},
     ino : Nat, identity : Nat, worker : {"none", "idle", "busy", "stopped"}]

InstanceTypes ==
    /\ entry \in [Dirs -> Entries]
    /\ lock \in [Dirs -> Brokers \cup {"free"}]
    /\ brokers \in [Brokers -> BrokerStates]

\* Between lock_single_instance and the drop of the lock file.
Holding ==
    {"open", "inspect", "unlink", "bind", "identify", "serve", "stat", "remove", "unlock"}

\* Between UnixListener::bind and the end of Drop for UnixSocketTransport.
Listening == {"identify", "serve", "stat", "remove"}

\* What a running broker relies on: its paths are resolved, the lock is its own,
\* and, if accept does not fail, its worker has stopped when serve returns.
Runs(b) ==
    /\ brokers[b].pc # "off" => starts[b].pc = "resolved"
    /\ brokers[b].worker = "busy" => brokers[b].pc # "off"
    /\ brokers[b].pc \in Holding => lock[LockOf(b)] = b
    /\ ListenerFails \/ /\ brokers[b].worker = "busy" => brokers[b].pc = "serve"
                        /\ brokers[b].pc \in {"stat", "remove", "unlock", "exit"} =>
                              brokers[b].worker = "stopped"

\* A root broker that listens is the one at its path.
Owns(b) ==
    uid = "root" /\ brokers[b].pc \in Listening =>
        entry[SocketOf(b)] = [kind |-> "socket", ino |-> brokers[b].ino]

InstanceInv == InstanceTypes /\ \A b \in Brokers : Runs(b) /\ Owns(b)

\* What a step of b leaves alone: other brokers, their locks, and every socket
\* path unless b holds its lock.
Elsewhere(b) ==
    /\ uid' = uid
    /\ \A a \in Brokers : a # b => brokers'[a] = brokers[a] /\ starts'[a] = starts[a]
    /\ \A d \in Dirs : lock'[d] = lock[d] \/ lock[d] \in {"free", b}
    /\ entry' = entry \/ brokers[b].pc \in Holding

\* The lock and socket paths of a start (resolve_paths).
LEMMA Files ==
    ASSUME PathInv, NEW b \in Brokers
    PROVE  /\ LockOf(b) \in Dirs
           /\ starts[b].pc = "resolved" => SocketOf(b) \in Dirs
  BY Tree DEF PathInv, Placed, LockOf, SocketOf, PrivateDirectory, Leaves

\* The end of a process (Terminate: process::exit or a kill).
LEMMA TerminateStep ==
    ASSUME PathInv, InstanceInv, NEW b \in Brokers, Terminate(b), uid' = uid,
           entry' = entry \/ brokers[b].pc \in Holding, entry' \in [Dirs -> Entries]
    PROVE  InstanceTypes' /\ Elsewhere(b) /\ Runs(b)' /\ Owns(b)'
  <1>0. InstanceTypes /\ PathTypes
    BY DEF InstanceInv, PathInv
  <1>1. StartMoves(b) /\ starts'[b] = NotStarted
    BY <1>0, StartSteps DEF Terminate
  <1>2. Off \in BrokerStates /\ Off.pc = "off" /\ Off.worker = "none"
    BY DEF Off, BrokerStates
  <1>3. /\ brokers' \in [Brokers -> BrokerStates] /\ brokers'[b] = Off
        /\ \A a \in Brokers : a # b => brokers'[a] = brokers[a]
    BY <1>0, <1>2 DEF Terminate, InstanceTypes
  <1>4. lock' = [d \in Dirs |-> IF lock[d] = b THEN "free" ELSE lock[d]]
    BY DEF Terminate, Unlock
  <1>5. InstanceTypes'
    BY <1>0, <1>3, <1>4 DEF InstanceTypes
  <1>6. Elsewhere(b)
    BY <1>1, <1>3, <1>4 DEF Elsewhere, StartMoves
  <1>7. Runs(b)' /\ Owns(b)'
    BY <1>2, <1>3 DEF Runs, Owns, Holding, Listening
  <1> QED BY <1>5, <1>6, <1>7

\* A step of b's own state that keeps the start and the lock.
LEMMA LocalStep ==
    ASSUME PathInv, InstanceInv, NEW b \in Brokers, NEW s \in BrokerStates,
           brokers' = [brokers EXCEPT ![b] = s],
           starts' = starts, lock' = lock, uid' = uid, brokers[b].pc # "off", s.pc # "off",
           brokers[b].pc \in Holding \/ s.pc \notin Holding,
           ListenerFails \/ /\ s.worker = "busy" => s.pc = "serve"
                            /\ s.pc \in {"stat", "remove", "unlock", "exit"} => s.worker = "stopped",
           uid = "root" /\ s.pc \in Listening =>
              entry'[SocketOf(b)] = [kind |-> "socket", ino |-> s.ino],
           entry' = entry \/ brokers[b].pc \in Holding, entry' \in [Dirs -> Entries]
    PROVE  InstanceTypes' /\ Elsewhere(b) /\ Runs(b)' /\ Owns(b)'
  <1>0. InstanceTypes /\ Runs(b)
    BY DEF InstanceInv
  <1>1. /\ brokers' \in [Brokers -> BrokerStates] /\ brokers'[b] = s
        /\ \A a \in Brokers : a # b => brokers'[a] = brokers[a]
    BY <1>0 DEF InstanceTypes
  <1>2. InstanceTypes'
    BY <1>0, <1>1 DEF InstanceTypes
  <1>3. Elsewhere(b)
    BY <1>1 DEF Elsewhere
  <1>4. Runs(b)'
    BY <1>0, <1>1 DEF Runs, LockOf
  <1>5. Owns(b)'
    BY <1>1 DEF Owns, SocketOf
  <1> QED BY <1>2, <1>3, <1>4, <1>5

\* Every step of one broker keeps what it relies on and leaves the others alone.
LEMMA BrokerStep ==
    ASSUME PathInv, InstanceInv, NEW b \in Brokers, UNCHANGED <<uid, dirs, tampers>>,
           \/ LockSingleInstance(b) \/ SpawnService(b) \/ InspectPath(b) \/ UnlinkStale(b)
           \/ BindListener(b) \/ Identify(b) \/ StartLifecycle(b) \/ EndLifecycle(b)
           \/ ServeReturns(b) \/ DropInspects(b) \/ DropUnlinks(b) \/ DropLock(b)
           \/ ProcessExit(b) \/ Kill(b)
    PROVE  InstanceTypes' /\ Elsewhere(b) /\ Runs(b)' /\ Owns(b)'
  <1> DEFINE Kept4 == InstanceTypes' /\ Elsewhere(b) /\ Runs(b)' /\ Owns(b)'
             x == brokers[b]
  <1>0. /\ InstanceTypes /\ PathTypes /\ Runs(b) /\ Owns(b) /\ uid' = uid
        /\ brokers \in [Brokers -> BrokerStates] /\ x \in BrokerStates
        /\ entry \in [Dirs -> Entries] /\ lock \in [Dirs -> Brokers \cup {"free"}]
    BY DEF InstanceInv, InstanceTypes, PathInv
  <1>f. LockOf(b) \in Dirs /\ (x.pc # "off" => SocketOf(b) \in Dirs)
    BY <1>0, Files DEF Runs
  <1>t. ASSUME Terminate(b), entry' = entry PROVE Kept4
    BY <1>0, <1>t, TerminateStep
  <1>w. ListenerFails \/ /\ x.worker = "busy" => x.pc = "serve"
                         /\ x.pc \in {"stat", "remove", "unlock", "exit"} => x.worker = "stopped"
    BY <1>0 DEF Runs
  <1>e. NoEntry \in Entries
    BY DEF NoEntry, Entries
  <1>1. CASE LockSingleInstance(b)
    <2>1. CASE /\ lock[LockOf(b)] = "free" /\ lock' = [lock EXCEPT ![LockOf(b)] = b]
               /\ Goto(b, "open") /\ UNCHANGED starts
      <3>1. x.pc = "off" /\ starts[b].pc = "resolved" /\ entry' = entry
        BY <1>1 DEF LockSingleInstance
      <3>2. /\ brokers' \in [Brokers -> BrokerStates] /\ brokers'[b].pc = "open"
            /\ brokers'[b].worker = x.worker
            /\ \A a \in Brokers : a # b => brokers'[a] = brokers[a]
        BY <1>0, <2>1 DEF Goto, BrokerStates
      <3>3. /\ lock' \in [Dirs -> Brokers \cup {"free"}] /\ lock'[LockOf(b)] = b
            /\ \A d \in Dirs : lock'[d] = lock[d] \/ lock[d] = "free"
        BY <1>0, <1>f, <2>1
      <3>4. InstanceTypes'
        BY <1>0, <3>1, <3>2, <3>3 DEF InstanceTypes
      <3>5. Elsewhere(b)
        BY <1>0, <2>1, <3>1, <3>2, <3>3 DEF Elsewhere
      <3>6. LockOf(b)' = LockOf(b)
        BY <2>1 DEF LockOf
      <3>7. Runs(b)'
        BY <1>w, <2>1, <3>1, <3>2, <3>3, <3>6 DEF Runs
      <3>8. Owns(b)'
        BY <3>2 DEF Owns, Listening
      <3> QED BY <3>4, <3>5, <3>7, <3>8
    <2>2. CASE Terminate(b)
      BY <1>1, <1>t, <2>2 DEF LockSingleInstance
    <2> QED BY <1>1, <2>1, <2>2 DEF LockSingleInstance
  <1>2. CASE SpawnService(b)
    <2>1. CASE Terminate(b)
      BY <1>2, <1>t, <2>1 DEF SpawnService
    <2>2. CASE /\ brokers' = [brokers EXCEPT ![b].pc = "inspect", ![b].worker = "idle"]
               /\ UNCHANGED <<lock, starts>>
      <3> DEFINE s == [x EXCEPT !.pc = "inspect", !.worker = "idle"]
      <3>1. /\ s \in BrokerStates /\ s.pc = "inspect" /\ s.worker = "idle"
            /\ brokers' = [brokers EXCEPT ![b] = s]
        BY <1>0, <2>2 DEF BrokerStates
      <3>2. x.pc = "open" /\ entry' = entry
        BY <1>2 DEF SpawnService
      <3> HIDE DEF s
      <3> QED BY <1>0, <2>2, <3>1, <3>2, LocalStep DEF Holding, Listening
    <2> QED BY <1>2, <2>1, <2>2 DEF SpawnService
  <1>3. CASE InspectPath(b)
    <2>1. CASE Terminate(b)
      BY <1>3, <1>t, <2>1 DEF InspectPath
    <2>2. ASSUME NEW pc \in {"unlink", "bind"}, Goto(b, pc), UNCHANGED <<lock, starts>>
          PROVE  Kept4
      <3> DEFINE s == [x EXCEPT !.pc = pc]
      <3>1. /\ s \in BrokerStates /\ s.pc = pc /\ s.worker = x.worker
            /\ brokers' = [brokers EXCEPT ![b] = s]
        BY <1>0, <2>2 DEF BrokerStates, Goto
      <3>2. x.pc = "inspect" /\ entry' = entry
        BY <1>3 DEF InspectPath
      <3> HIDE DEF s
      <3> QED BY <1>0, <1>w, <2>2, <3>1, <3>2, LocalStep DEF Holding, Listening
    <2> QED BY <1>3, <2>1, <2>2 DEF InspectPath
  <1>4. CASE UnlinkStale(b)
    <2> DEFINE s == [x EXCEPT !.pc = "bind"]
    <2>1. /\ s \in BrokerStates /\ s.pc = "bind" /\ s.worker = x.worker
          /\ brokers' = [brokers EXCEPT ![b] = s]
      BY <1>0, <1>4 DEF BrokerStates, Goto, UnlinkStale
    <2>2. x.pc = "unlink" /\ starts' = starts /\ lock' = lock
      BY <1>4 DEF UnlinkStale
    <2>3. entry' \in [Dirs -> Entries]
      BY <1>0, <1>e, <1>4 DEF UnlinkStale, SetEntry
    <2> HIDE DEF s
    <2> QED BY <1>0, <1>w, <2>1, <2>2, <2>3, LocalStep DEF Holding, Listening
  <1>5. CASE BindListener(b)
    <2>1. CASE Terminate(b) /\ entry' = entry
      BY <1>t, <2>1
    <2>2. ASSUME NEW ino \in Inodes,
                 SetEntry(b, [kind |-> "socket", ino |-> ino]),
                 brokers' = [brokers EXCEPT ![b].pc = "identify", ![b].ino = ino],
                 UNCHANGED <<lock, starts>>
          PROVE  Kept4
      <3> DEFINE s == [x EXCEPT !.pc = "identify", !.ino = ino]
                 new == [kind |-> "socket", ino |-> ino]
      <3>0. ino \in Nat /\ x.pc = "bind"
        BY <1>5, InstanceAssumption DEF BindListener
      <3>1. /\ s \in BrokerStates /\ s.pc = "identify" /\ s.worker = x.worker /\ s.ino = ino
            /\ brokers' = [brokers EXCEPT ![b] = s]
        BY <1>0, <2>2, <3>0 DEF BrokerStates
      <3>2. new \in Entries
        BY <3>0 DEF Entries
      <3>3. entry' = [entry EXCEPT ![SocketOf(b)] = new] /\ SocketOf(b) \in Dirs
        BY <1>f, <2>2, <3>0 DEF SetEntry
      <3> HIDE DEF s, new
      <3>4. entry' \in [Dirs -> Entries] /\ entry'[SocketOf(b)] = new
        BY <1>0, <3>2, <3>3
      <3>5. entry'[SocketOf(b)] = [kind |-> "socket", ino |-> s.ino]
        BY <3>1, <3>4 DEF new
      <3> QED BY <1>0, <1>w, <2>2, <3>0, <3>1, <3>4, <3>5, LocalStep DEF Holding
    <2> QED BY <1>5, <2>1, <2>2 DEF BindListener
  <1>6. CASE Identify(b)
    <2>0. x.pc = "identify"
      BY <1>6 DEF Identify
    <2>1. CASE SetEntry(b, NoEntry) /\ Terminate(b)
      <3>1. entry' \in [Dirs -> Entries]
        BY <1>0, <1>e, <2>1 DEF SetEntry
      <3> QED BY <1>0, <2>0, <2>1, <3>1, TerminateStep DEF Holding
    <2>2. CASE /\ entry[SocketOf(b)].kind = "socket"
               /\ brokers' = [brokers EXCEPT ![b].pc = "serve",
                                             ![b].identity = entry[SocketOf(b)].ino]
               /\ UNCHANGED <<entry, lock, starts>>
      <3> DEFINE s == [x EXCEPT !.pc = "serve", !.identity = entry[SocketOf(b)].ino]
      <3>1. entry[SocketOf(b)].ino \in Nat
        BY <1>0, <1>f, <2>0 DEF Entries
      <3>2. /\ s \in BrokerStates /\ s.pc = "serve" /\ s.worker = x.worker /\ s.ino = x.ino
            /\ brokers' = [brokers EXCEPT ![b] = s]
        BY <1>0, <2>2, <3>1 DEF BrokerStates
      <3> HIDE DEF s
      <3>3. uid = "root" => entry[SocketOf(b)] = [kind |-> "socket", ino |-> s.ino]
        BY <1>0, <2>0, <3>2 DEF Owns, Listening
      <3> QED BY <1>0, <1>w, <2>0, <2>2, <3>2, <3>3, LocalStep DEF Holding
    <2> QED BY <1>6, <2>1, <2>2 DEF Identify
  <1>7. ASSUME NEW s \in BrokerStates, brokers' = [brokers EXCEPT ![b] = s],
               UNCHANGED <<entry, lock, starts>>, x.pc # "off", s.pc # "off",
               x.pc \in Holding \/ s.pc \notin Holding,
               s.ino = x.ino, s.pc \in Listening => x.pc \in Listening,
               ListenerFails \/ /\ s.worker = "busy" => s.pc = "serve"
                                /\ s.pc \in {"stat", "remove", "unlock", "exit"} =>
                                      s.worker = "stopped"
        PROVE  Kept4
    <2>1. uid = "root" /\ s.pc \in Listening =>
             entry[SocketOf(b)] = [kind |-> "socket", ino |-> s.ino]
      BY <1>0, <1>7 DEF Owns
    <2> QED BY <1>0, <1>7, <2>1, LocalStep
  <1>8. CASE StartLifecycle(b)
    <2> DEFINE s == [x EXCEPT !.worker = "busy"]
    <2>1. /\ s \in BrokerStates /\ s.pc = x.pc /\ s.worker = "busy" /\ s.ino = x.ino
          /\ brokers' = [brokers EXCEPT ![b] = s]
      BY <1>0, <1>8 DEF BrokerStates, StartLifecycle
    <2>2. /\ x.pc \in {"serve", "stat", "remove", "unlock", "exit"} /\ x.worker = "idle"
          /\ UNCHANGED <<entry, lock, starts>>
      BY <1>8 DEF StartLifecycle
    <2> HIDE DEF s
    <2> QED BY <1>w, <1>7, <2>1, <2>2
  <1>9. CASE EndLifecycle(b)
    <2>1. PICK worker \in {"idle", "stopped"} : brokers' = [brokers EXCEPT ![b].worker = worker]
      BY <1>9 DEF EndLifecycle
    <2> DEFINE s == [x EXCEPT !.worker = worker]
    <2>2. /\ s \in BrokerStates /\ s.pc = x.pc /\ s.worker = worker /\ s.ino = x.ino
          /\ brokers' = [brokers EXCEPT ![b] = s]
      BY <1>0, <2>1 DEF BrokerStates
    <2>3. x.worker = "busy" /\ UNCHANGED <<entry, lock, starts>>
      BY <1>9 DEF EndLifecycle
    <2>4. x.pc # "off"
      BY <1>0, <2>3 DEF Runs
    <2> HIDE DEF s
    <2> QED BY <1>w, <1>7, <2>1, <2>2, <2>3, <2>4
  <1>10. CASE ServeReturns(b)
    <2> DEFINE s == [x EXCEPT !.pc = "stat"]
    <2>1. /\ s \in BrokerStates /\ s.pc = "stat" /\ s.worker = x.worker /\ s.ino = x.ino
          /\ brokers' = [brokers EXCEPT ![b] = s]
      BY <1>0, <1>10 DEF BrokerStates, ServeReturns, Goto
    <2>2. /\ x.pc = "serve" /\ (x.worker = "stopped" \/ ListenerFails)
          /\ UNCHANGED <<entry, lock, starts>>
      BY <1>10 DEF ServeReturns
    <2> HIDE DEF s
    <2> QED BY <1>w, <1>7, <2>1, <2>2 DEF Holding, Listening
  <1>11. CASE DropInspects(b)
    <2>0. x.pc = "stat" /\ UNCHANGED <<entry, lock, starts>>
      BY <1>11 DEF DropInspects
    <2>1. CASE Goto(b, "remove")
      <3> DEFINE s == [x EXCEPT !.pc = "remove"]
      <3>1. /\ s \in BrokerStates /\ s.pc = "remove" /\ s.worker = x.worker /\ s.ino = x.ino
            /\ brokers' = [brokers EXCEPT ![b] = s]
        BY <1>0, <2>1 DEF BrokerStates, Goto
      <3> HIDE DEF s
      <3> QED BY <1>w, <1>7, <2>0, <3>1 DEF Holding, Listening
    <2>2. CASE CloseListener(b)
      <3> DEFINE s == [x EXCEPT !.pc = "unlock", !.ino = 0, !.identity = 0]
      <3>1. /\ s \in BrokerStates /\ s.pc = "unlock" /\ s.worker = x.worker
            /\ brokers' = [brokers EXCEPT ![b] = s]
        BY <1>0, <2>2 DEF BrokerStates, CloseListener
      <3> HIDE DEF s
      <3> QED BY <1>0, <1>w, <2>0, <3>1, LocalStep DEF Holding, Listening
    <2> QED BY <1>11, <2>1, <2>2 DEF DropInspects
  <1>12. CASE DropUnlinks(b)
    <2> DEFINE s == [x EXCEPT !.pc = "unlock", !.ino = 0, !.identity = 0]
    <2>1. /\ s \in BrokerStates /\ s.pc = "unlock" /\ s.worker = x.worker
          /\ brokers' = [brokers EXCEPT ![b] = s]
      BY <1>0, <1>12 DEF BrokerStates, CloseListener, DropUnlinks
    <2>2. x.pc = "remove" /\ starts' = starts /\ lock' = lock
      BY <1>12 DEF DropUnlinks
    <2>3. entry' \in [Dirs -> Entries]
      BY <1>0, <1>e, <1>12 DEF DropUnlinks, SetEntry
    <2> HIDE DEF s
    <2> QED BY <1>0, <1>w, <2>1, <2>2, <2>3, LocalStep DEF Holding, Listening
  <1>13. CASE DropLock(b)
    <2>1. x.pc = "unlock" /\ entry' = entry /\ starts' = starts
      BY <1>13 DEF DropLock
    <2>2. /\ brokers' \in [Brokers -> BrokerStates] /\ brokers'[b].pc = "exit"
          /\ brokers'[b].worker = x.worker
          /\ \A a \in Brokers : a # b => brokers'[a] = brokers[a]
      BY <1>0, <1>13 DEF DropLock, Goto, BrokerStates
    <2>3. lock' = [d \in Dirs |-> IF lock[d] = b THEN "free" ELSE lock[d]]
      BY <1>13 DEF DropLock, Unlock
    <2>4. InstanceTypes'
      BY <1>0, <2>1, <2>2, <2>3 DEF InstanceTypes
    <2>5. Elsewhere(b)
      BY <1>0, <2>1, <2>2, <2>3 DEF Elsewhere
    <2>6. Runs(b)'
      BY <1>0, <1>w, <2>1, <2>2 DEF Runs, Holding
    <2>7. Owns(b)'
      BY <2>2 DEF Owns, Listening
    <2> QED BY <2>4, <2>5, <2>6, <2>7
  <1>14. CASE ProcessExit(b) \/ Kill(b)
    BY <1>14, <1>t DEF ProcessExit, Kill
  <1> QED
    BY <1>1, <1>2, <1>3, <1>4, <1>5, <1>6, <1>8, <1>9, <1>10, <1>11, <1>12, <1>13, <1>14

\* The lock of a root broker is the lock of all: two that hold theirs are one.
LEMMA OneHolder ==
    ASSUME PathInv, InstanceInv, NEW a \in Brokers, NEW b \in Brokers,
           brokers[a].pc \in Holding, brokers[b].pc \in Holding,
           uid = "root" \/ starts[a].base = starts[b].base
    PROVE  a = b
  <1>1. lock[LockOf(a)] = a /\ lock[LockOf(b)] = b
    BY DEF InstanceInv, Runs
  <1>2. LockOf(a) = LockOf(b)
    BY DEF PathInv, PathTypes, LockOf
  <1> QED BY <1>1, <1>2

\* Every step of the system keeps what every broker relies on.
LEMMA InstanceStep ==
    ASSUME PathInv, InstanceInv, [Next]_vars
    PROVE  InstanceInv'
  <1>0. InstanceTypes /\ PathTypes /\ \A b \in Brokers : Runs(b) /\ Owns(b)
    BY DEF InstanceInv, PathInv
  <1>1. ASSUME UNCHANGED instanceVars, uid' = uid,
               \A b \in Brokers : brokers[b].pc # "off" => starts'[b] = starts[b]
        PROVE  InstanceInv'
    <2>1. entry' = entry /\ lock' = lock /\ brokers' = brokers
      BY <1>1 DEF instanceVars
    <2>2. InstanceTypes'
      BY <1>0, <2>1 DEF InstanceTypes
    <2>3. ASSUME NEW b \in Brokers PROVE Runs(b)' /\ Owns(b)'
      <3>1. Runs(b) /\ Owns(b)
        BY <1>0
      <3>2. CASE brokers[b].pc = "off"
        BY <2>1, <3>1, <3>2 DEF Runs, Owns, Holding, Listening
      <3>3. CASE brokers[b].pc # "off"
        BY <1>1, <2>1, <3>1, <3>3 DEF Runs, Owns, LockOf, SocketOf
      <3> QED BY <3>2, <3>3
    <2> QED BY <2>2, <2>3 DEF InstanceInv
  <1>2. CASE UNCHANGED vars
    BY <1>1, <1>2 DEF vars, pathVars
  <1>3. CASE PathsNext /\ UNCHANGED instanceVars
    <2>1. ASSUME NEW b \in Brokers,
                 \/ ResolvePaths(b) \/ VetNext(b) \/ MakePrivate(b) \/ RestrictPrivate(b)
                 \/ InspectPrivate(b)
          PROVE  /\ uid' = uid
                 /\ \A a \in Brokers : brokers[a].pc # "off" => starts'[a] = starts[a]
      <3>1. StartMoves(b) /\ uid' = uid /\ starts[b].pc # "resolved"
        BY <1>0, <2>1, StartKind
      <3>2. brokers[b].pc = "off"
        BY <1>0, <3>1 DEF Runs
      <3> QED BY <3>1, <3>2 DEF StartMoves
    <2>2. ASSUME NEW d \in Dirs, Tamper(d)
          PROVE  uid' = uid /\ starts' = starts
      BY <2>2 DEF Tamper
    <2> QED BY <1>1, <1>3, <2>1, <2>2 DEF PathsNext
  <1>4. ASSUME NEW b \in Brokers, UNCHANGED <<uid, dirs, tampers>>,
               \/ LockSingleInstance(b) \/ SpawnService(b) \/ InspectPath(b) \/ UnlinkStale(b)
               \/ BindListener(b) \/ Identify(b) \/ StartLifecycle(b) \/ EndLifecycle(b)
               \/ ServeReturns(b) \/ DropInspects(b) \/ DropUnlinks(b) \/ DropLock(b)
               \/ ProcessExit(b) \/ Kill(b)
        PROVE  InstanceInv'
    <2>1. InstanceTypes' /\ Elsewhere(b) /\ Runs(b)' /\ Owns(b)'
      BY <1>4, BrokerStep
    <2>2. ASSUME NEW a \in Brokers, a # b PROVE Runs(a)' /\ Owns(a)'
      <3>0. /\ Runs(a) /\ Owns(a) /\ uid' = uid /\ LockOf(a) \in Dirs
            /\ brokers'[a] = brokers[a] /\ starts'[a] = starts[a]
        BY <1>0, <2>1, <2>2, Files DEF Elsewhere
      <3>1. LockOf(a)' = LockOf(a) /\ SocketOf(a)' = SocketOf(a)
        BY <3>0 DEF LockOf, SocketOf
      <3>2. brokers[a].pc \in Holding => lock'[LockOf(a)] = a
        <4>1. ASSUME brokers[a].pc \in Holding PROVE lock'[LockOf(a)] = a
          <5>1. lock[LockOf(a)] = a
            BY <3>0, <4>1 DEF Runs
          <5>2. a # "free"
            BY InstanceAssumption
          <5> QED BY <2>1, <2>2, <3>0, <5>1, <5>2 DEF Elsewhere
        <4> QED BY <4>1
      <3>3. Runs(a)'
        BY <3>0, <3>1, <3>2 DEF Runs
      <3>4. Owns(a)'
        <4>1. ASSUME uid = "root", brokers[a].pc \in Listening
              PROVE  entry' = entry
          <5>1. brokers[a].pc \in Holding
            BY <4>1 DEF Listening, Holding
          <5> QED BY <2>1, <2>2, <4>1, <5>1, OneHolder DEF Elsewhere
        <4> QED BY <3>0, <3>1, <4>1 DEF Owns
      <3> QED BY <3>3, <3>4
    <2> QED BY <2>1, <2>2 DEF InstanceInv
  <1> QED BY <1>2, <1>3, <1>4 DEF Next

\* What every broker relies on holds throughout.
LEMMA InstanceInvariance == Spec => []InstanceInv
  <1>1. Init => InstanceInv
    <2> SUFFICES ASSUME Init PROVE InstanceInv
      OBVIOUS
    <2>1. (CHOOSE ino \in Inodes : TRUE) \in Nat
      BY InstanceAssumption
    <2>2. /\ NoEntry \in Entries /\ [kind |-> "file", ino |-> 0] \in Entries
          /\ [kind |-> "socket", ino |-> CHOOSE ino \in Inodes : TRUE] \in Entries
      BY <2>1 DEF NoEntry, Entries
    <2>3. entry \in [Dirs -> Entries]
      BY <2>2 DEF Init
    <2>4. lock \in [Dirs -> Brokers \cup {"free"}]
      BY DEF Init
    <2>5. Off \in BrokerStates /\ Off.pc = "off" /\ Off.worker = "none"
      BY DEF Off, BrokerStates
    <2>6. brokers = [b \in Brokers |-> Off]
      BY DEF Init
    <2> HIDE DEF Off
    <2>7. brokers \in [Brokers -> BrokerStates]
      BY <2>5, <2>6
    <2>8. \A b \in Brokers : brokers[b].pc = "off" /\ brokers[b].worker = "none"
      BY <2>5, <2>6
    <2> QED BY <2>3, <2>4, <2>7, <2>8
            DEF InstanceInv, InstanceTypes, Runs, Owns, Holding, Listening
  <1>2. PathInv /\ InstanceInv /\ [Next]_vars => InstanceInv'
    BY InstanceStep
  <1> QED BY <1>1, <1>2, PathInvariance, PTL DEF Spec

\* However many brokers are started and killed: if accept does not fail for good,
\* two processes are never in a lifecycle at once, unless they are unprivileged
\* ones whose XDG_RUNTIME_DIR differs (lock_single_instance, runtime_base).
THEOREM DriverIsOne ==
    ASSUME ~ListenerFails
    PROVE  Spec => []OneDriver
  <1>1. PathInv /\ InstanceInv => OneDriver
    <2> SUFFICES ASSUME PathInv, InstanceInv, NEW a \in Brokers, NEW b \in Brokers,
                        brokers[a].worker = "busy", brokers[b].worker = "busy",
                        uid = "root" \/ starts[a].base = starts[b].base
                 PROVE  a = b
      BY DEF OneDriver
    <2>1. brokers[a].pc \in Holding /\ brokers[b].pc \in Holding
      BY DEF InstanceInv, Runs, Holding
    <2> QED BY <2>1, OneHolder
  <1> QED BY <1>1, PathInvariance, InstanceInvariance, PTL

\* A root broker that serves is the one at its socket path, whatever brokers
\* start, end or are killed beside it (bind, Drop, lock_single_instance).
THEOREM ServesReachably == Spec => []ServingIsReachable
  <1>1. InstanceInv => ServingIsReachable
    BY DEF InstanceInv, Owns, Listening, ServingIsReachable
  <1> QED BY <1>1, InstanceInvariance, PTL

\* The end of a root broker unlinks no successor's socket: between its identity
\* check and its unlink nobody else can have bound the path (Drop).
THEOREM SuccessorSafe == Spec => SuccessorKept
  <1>1. InstanceInv /\ [Next]_vars => [UnlinksOwn]_vars
    BY DEF InstanceInv, Owns, Listening, UnlinksOwn
  <1> QED BY <1>1, InstanceInvariance, PTL DEF Spec, SuccessorKept
=============================================================================
