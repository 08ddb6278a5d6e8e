----------------------------- MODULE BrokerPaths -----------------------------
(***************************************************************************)
(* Where a starting broker puts its lock, its socket and its journal:      *)
(* resolve_paths and the vetting of every directory on the way, one        *)
(* metadata call at a time, on a host where other users change what their  *)
(* rights let them change between any two of the calls.                    *)
(*                                                                         *)
(* The tree is the part of a file system the broker asks about:            *)
(*    /run/fpsmaxxing          the private directory of a root broker      *)
(*    /top/base/fpsmaxxing     ... with XDG_RUNTIME_DIR=/top/base          *)
(*    /top/base/custom         the directory an override points into       *)
(* The root directory is root's and nobody else writes it.  A directory    *)
(* that holds none of the broker's files is never created by it.           *)
(***************************************************************************)
EXTENDS Naturals, Sequences, SequencesExt

CONSTANTS
    Brokers,        \* broker processes, each started again after it ends
    Uids,           \* the uids brokers may run under: "root" or "broker"
    Layouts,        \* the trees a broker may find at first
    Foreign,        \* what another user may put in the place of a directory
    MaxTampers      \* bound: how often they do in a behaviour

VARIABLES
    uid,            \* the uid of the brokers
    dirs,           \* the directories
    starts,         \* how far every broker is in resolve_paths
    tampers         \* changes other users may still make

pathVars == <<uid, dirs, starts, tampers>>

\* The ancestors of each directory, bottom up.
Above ==
    [run |-> << >>, runPrivate |-> <<"run">>,
     top |-> << >>, base |-> <<"top">>, basePrivate |-> <<"base", "top">>,
     custom |-> <<"base", "top">>]

Dirs == DOMAIN Above

\* others: what users but the owner may do in it.
Directory(owner, others, sticky) ==
    [kind |-> "dir", owner |-> owner, others |-> others, sticky |-> sticky]

Absent == [kind |-> "absent", owner |-> "root", others |-> "none", sticky |-> FALSE]

Symlink(owner) == [kind |-> "link", owner |-> owner, others |-> "none", sticky |-> FALSE]

Directories ==
    [kind : {"dir", "link", "absent"}, owner : {"root", "broker", "other"},
     others : {"none", "read", "write"}, sticky : BOOLEAN]

ASSUME PathsAssumption ==
    /\ Uids \subseteq {"root", "broker"}
    /\ MaxTampers \in Nat
    /\ Layouts \subseteq [Dirs -> Directories]
    /\ Foreign \subseteq Directories

NotStarted == [pc |-> "off", base |-> "run", socket |-> "none", journal |-> "none", todo |-> << >>]

PathsInit ==
    /\ uid \in Uids
    /\ dirs \in Layouts
    /\ starts = [b \in Brokers |-> NotStarted]
    /\ tampers = MaxTampers

-----------------------------------------------------------------------------
\* Bar::refuses
Refuses(bar, directory) ==
    \/ bar = "OwnerOnly" /\ directory.others # "none"
    \/ bar = "NoForeignWrite" /\ directory.others = "write" /\ ~directory.sticky

\* vet_directory; a path that is not absolute names no directory at all.
VetDirectory(check) ==
    /\ check.dir \in Dirs
    /\ dirs[check.dir].kind = "dir"
    /\ dirs[check.dir].owner \in {uid, "root"}
    /\ ~Refuses(check.bar, dirs[check.dir])

Check(bar, directory) == [dir |-> directory, bar |-> bar]

\* vet_ancestors: the base and everything above it.
VetAncestors(directories) ==
    [i \in DOMAIN directories |-> Check("NoForeignWrite", directories[i])]

\* Mutant: only the directory that holds the entry is looked at.
MutVetParentOnly(directory) == <<Check("OwnerOnly", directory)>>

\* vet_resolved_path: the directory that holds the entry, then those above it.
VetResolvedPath(directory) ==
    <<Check("OwnerOnly", directory)>>
        \o (IF directory \in Dirs THEN VetAncestors(Above[directory]) ELSE << >>)

\* runtime_base: a root broker, or one without an absolute XDG_RUNTIME_DIR, uses
\* /run.
RuntimeBase(xdg) == IF uid = "root" \/ xdg # "absolute" THEN "run" ELSE "base"

PrivateDirectory(base) == IF base = "run" THEN "runPrivate" ELSE "basePrivate"

\* A flag wins over its environment variable; unset, the private directory.
Resolved(flag, variable, base) ==
    IF flag # "unset" THEN flag
    ELSE IF variable # "unset" THEN variable
    ELSE PrivateDirectory(base)

-----------------------------------------------------------------------------
\* run fails and the process exits.
Refuse(b) == starts' = [starts EXCEPT ![b] = NotStarted]

StartGoto(b, pc, todo) == starts' = [starts EXCEPT ![b].pc = pc, ![b].todo = todo]

\* What --socket, --journal or their variables may name: a path in the custom
\* directory, or a relative one.
Overrides == {"unset", "custom", "relative"}

ResolvedDirs(base) == {Resolved(flag, variable, base) : flag, variable \in Overrides}

\* The command line and the environment are read; the ancestors of the private
\* directory are vetted first.
ResolvePaths(b) ==
    /\ starts[b].pc = "off"
    /\ \E base \in {RuntimeBase(xdg) : xdg \in {"absolute", "unset"}} :
          \E socket, journal \in ResolvedDirs(base) :
              starts' = [starts EXCEPT ![b] =
                  [pc |-> "vet-base", base |-> base, socket |-> socket, journal |-> journal,
                   todo |-> VetAncestors(<<base>> \o Above[base])]]
    /\ UNCHANGED <<uid, dirs, tampers>>

\* One directory is inspected; the first that fails ends the start.
VetNext(b) ==
    /\ starts[b].pc \in {"vet-base", "vet-paths"}
    /\ \/ /\ starts[b].todo # << >>
          /\ VetDirectory(Head(starts[b].todo))
          /\ StartGoto(b, starts[b].pc, Tail(starts[b].todo))
       \/ /\ starts[b].todo # << >>
          /\ ~VetDirectory(Head(starts[b].todo))
          /\ Refuse(b)
       \/ /\ starts[b].todo = << >>
          /\ StartGoto(b, IF starts[b].pc = "vet-base" THEN "mkdir" ELSE "resolved", << >>)
    /\ UNCHANGED <<uid, dirs, tampers>>

MayCreateIn(directory) ==
    /\ directory.kind = "dir"
    /\ uid = "root" \/ directory.owner = uid \/ directory.others = "write"

\* private_directory_in, DirBuilder::create: an entry that is there already is
\* taken for later inspection.
MakePrivate(b) ==
    /\ starts[b].pc = "mkdir"
    /\ LET private == PrivateDirectory(starts[b].base)
       IN  \/ /\ dirs[private].kind = "absent"
              /\ MayCreateIn(dirs[starts[b].base])
              /\ dirs' = [dirs EXCEPT ![private] = Directory(uid, "none", FALSE)]
              /\ StartGoto(b, "chmod", << >>)
           \/ /\ dirs[private].kind = "absent"
              /\ ~MayCreateIn(dirs[starts[b].base])
              /\ Refuse(b)
              /\ UNCHANGED dirs
           \/ /\ dirs[private].kind # "absent"
              /\ StartGoto(b, "stat", << >>)
              /\ UNCHANGED dirs
    /\ UNCHANGED <<uid, tampers>>

\* ... set_permissions, by path: on its own directory, or as root on any.  A link
\* that has been put there since is followed out of this tree, and what it leads
\* to is the broker's to change or is not.
RestrictPrivate(b) ==
    /\ starts[b].pc = "chmod"
    /\ LET private == PrivateDirectory(starts[b].base)
           own == dirs[private].kind = "dir" /\ uid \in {"root", dirs[private].owner}
       IN  \/ /\ own
              /\ dirs' = [dirs EXCEPT ![private].others = "none"]
              /\ StartGoto(b, "stat", << >>)
           \/ /\ dirs[private].kind = "link"
              /\ StartGoto(b, "stat", << >>)
              /\ UNCHANGED dirs
           \/ /\ ~own
              /\ Refuse(b)
              /\ UNCHANGED dirs
    /\ UNCHANGED <<uid, tampers>>

\* ... symlink_metadata: whatever is there must be the broker's own, mode 0700.
InspectPrivate(b) ==
    /\ starts[b].pc = "stat"
    /\ LET private == PrivateDirectory(starts[b].base)
       IN  \/ /\ dirs[private] = Directory(uid, "none", dirs[private].sticky)
              /\ StartGoto(b, "vet-paths", VetResolvedPath(starts[b].socket)
                                               \o VetResolvedPath(starts[b].journal))
           \/ /\ dirs[private] # Directory(uid, "none", dirs[private].sticky)
              /\ Refuse(b)
    /\ UNCHANGED <<uid, dirs, tampers>>

-----------------------------------------------------------------------------
\* Another user owns the directory, or may rename and remove entries of the one
\* that holds it (which sticky reserves to the owners of the entries).
MayTamper(d) ==
    \/ dirs[d].kind # "absent" /\ dirs[d].owner = "other"
    \/ /\ Above[d] # << >>
       /\ LET parent == dirs[Head(Above[d])]
          IN  \/ parent.kind = "link" \/ parent.owner = "other"
              \/ /\ parent.others = "write"
                 /\ ~parent.sticky \/ dirs[d].kind = "absent" \/ dirs[d].owner = "other"

\* The directory is replaced, and what is found below it with it.
Tamper(d) ==
    /\ MayTamper(d)
    /\ tampers > 0
    /\ tampers' = tampers - 1
    /\ \E new \in Foreign, below \in Foreign :
          dirs' = [e \in Dirs |-> IF e = d THEN new
                                  ELSE IF Contains(Above[e], d) THEN below
                                  ELSE dirs[e]]
    /\ UNCHANGED <<uid, starts>>

PathsNext ==
    \/ \E b \in Brokers : \/ ResolvePaths(b) \/ VetNext(b) \/ MakePrivate(b)
                          \/ RestrictPrivate(b) \/ InspectPrivate(b)
    \/ \E d \in Dirs : Tamper(d)

-----------------------------------------------------------------------------
\* No other user can reach into the directory or replace it or anything above it.
Sealed(d) ==
    /\ dirs[d].kind = "dir" /\ dirs[d].others = "none"
    /\ \A e \in {d} \cup Range(Above[d]) : ~MayTamper(e)

\* What was vetted is what is used: from the end of resolve_paths for as long as
\* the broker runs, the directories of its lock, socket and journal are closed to
\* every other user, and nobody can swap them, whatever was done to the tree
\* between the calls that vetted it (vet_resolved_path, private_directory_in).
VettedStaysSealed ==
    \A b \in Brokers : starts[b].pc = "resolved" =>
        \A d \in {PrivateDirectory(starts[b].base), starts[b].socket, starts[b].journal} :
            d \in Dirs /\ Sealed(d)
=============================================================================
