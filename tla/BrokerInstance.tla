---------------------------- MODULE BrokerInstance ----------------------------
(***************************************************************************)
(* One broker per uid: the start-up, service and end of broker processes   *)
(* that contend for the single-instance lock and for socket paths.         *)
(*                                                                         *)
(* A broker that has resolved its paths locks, opens the journal on its    *)
(* worker thread, replaces what is at its socket path and serves; when     *)
(* serve returns, the transport is dropped, then the lock file, and only   *)
(* then does the process exit.  Each file system call is a step.  Brokers  *)
(* of one uid may find different lock files, because an unprivileged one   *)
(* follows XDG_RUNTIME_DIR, and still be pointed at one socket.            *)
(***************************************************************************)
EXTENDS BrokerPaths

CONSTANTS
    Inodes,          \* inode numbers, used again once nothing refers to them
    ListenerFails    \* whether accept may fail for good

ASSUME InstanceAssumption ==
    /\ Inodes \subseteq Nat /\ Inodes # {}
    /\ ListenerFails \in BOOLEAN
    /\ "free" \notin Brokers

VARIABLES
    entry,           \* what is at the socket path in every directory
    lock,            \* the holder of the lock file in every directory
    brokers          \* the local state of every broker with resolved paths

instanceVars == <<entry, lock, brokers>>

vars == <<pathVars, instanceVars>>

NoEntry == [kind |-> "none", ino |-> 0]

\* Not running: no socket of its own, no worker.
Off == [pc |-> "off", ino |-> 0, identity |-> 0, worker |-> "none"]

\* A path is clear, holds the socket of a broker that died, or an unrelated file.
Init ==
    /\ PathsInit
    /\ \E first \in {NoEntry, [kind |-> "file", ino |-> 0],
                      [kind |-> "socket", ino |-> CHOOSE ino \in Inodes : TRUE]} :
          entry = [d \in Dirs |-> first]
    /\ lock = [d \in Dirs |-> "free"]
    /\ brokers = [b \in Brokers |-> Off]

\* The lock file in the private directory, and the socket path.
LockOf(b) == PrivateDirectory(starts[b].base)

SocketOf(b) == starts[b].socket

SetEntry(b, new) == entry' = [entry EXCEPT ![SocketOf(b)] = new]

\* The directories of other uids' making are closed to an unprivileged broker.
MayEnter(d) == uid = "root" \/ dirs[d].owner = uid

Goto(b, pc) == brokers' = [brokers EXCEPT ![b].pc = pc]

CloseListener(b) ==
    brokers' = [brokers EXCEPT ![b].pc = "unlock", ![b].ino = 0, ![b].identity = 0]

Unlock(b) ==
    lock' = [d \in Dirs |-> IF lock[d] = b THEN "free" ELSE lock[d]]

\* Every descriptor is closed and the worker is gone.
Terminate(b) ==
    /\ brokers' = [brokers EXCEPT ![b] = Off]
    /\ Refuse(b)
    /\ Unlock(b)

\* A socket inode lives while it is named or its listener is open.
Pinned == {entry[d].ino : d \in Dirs} \cup {brokers[b].ino : b \in Brokers}

-----------------------------------------------------------------------------
\* run, after resolve_paths

\* Mutant: the lock is asked for and a refusal is ignored.
MutLockIgnored(b) ==
    /\ starts[b].pc = "resolved" /\ brokers[b].pc = "off"
    /\ lock' = [lock EXCEPT ![LockOf(b)] = b]
    /\ Goto(b, "open")
    /\ UNCHANGED <<entry, starts>>

\* Mutant: the lock lies beside the socket.
MutLockBesideSocket(b) ==
    /\ starts[b].pc = "resolved" /\ brokers[b].pc = "off"
    /\ lock[SocketOf(b)] = "free"
    /\ lock' = [lock EXCEPT ![SocketOf(b)] = b]
    /\ Goto(b, "open")
    /\ UNCHANGED <<entry, starts>>

\* lock_single_instance; a broker that finds the lock held has touched neither
\* socket nor journal.
LockSingleInstance(b) ==
    /\ starts[b].pc = "resolved" /\ brokers[b].pc = "off"
    /\ \/ /\ lock[LockOf(b)] = "free"
          /\ lock' = [lock EXCEPT ![LockOf(b)] = b]
          /\ Goto(b, "open")
          /\ UNCHANGED starts
       \/ /\ lock[LockOf(b)] # "free"
          /\ Terminate(b)
    /\ UNCHANGED entry

\* spawn_service: the worker restricts and opens the journal and reports ready,
\* or run fails.
SpawnService(b) ==
    /\ brokers[b].pc = "open"
    /\ \/ /\ MayEnter(starts[b].journal)
          /\ brokers' = [brokers EXCEPT ![b].pc = "inspect", ![b].worker = "idle"]
          /\ UNCHANGED <<lock, starts>>
       \/ Terminate(b)
    /\ UNCHANGED entry

\* bind, symlink_metadata: only a socket may be replaced.
InspectPath(b) ==
    /\ brokers[b].pc = "inspect"
    /\ \/ /\ MayEnter(SocketOf(b)) /\ entry[SocketOf(b)].kind \in {"socket", "none"}
          /\ Goto(b, IF entry[SocketOf(b)].kind = "socket" THEN "unlink" ELSE "bind")
          /\ UNCHANGED <<lock, starts>>
       \/ /\ ~MayEnter(SocketOf(b)) \/ entry[SocketOf(b)].kind = "file"
          /\ Terminate(b)
    /\ UNCHANGED entry

\* bind, remove_file: a path that is clear by now is fine too.
UnlinkStale(b) ==
    /\ brokers[b].pc = "unlink"
    /\ SetEntry(b, NoEntry)
    /\ Goto(b, "bind")
    /\ UNCHANGED <<lock, starts>>

\* bind, UnixListener::bind: refused while the path is taken.
BindListener(b) ==
    /\ brokers[b].pc = "bind"
    /\ \/ /\ entry[SocketOf(b)] = NoEntry
          /\ \E ino \in Inodes \ Pinned :
                /\ SetEntry(b, [kind |-> "socket", ino |-> ino])
                /\ brokers' = [brokers EXCEPT ![b].pc = "identify", ![b].ino = ino]
          /\ UNCHANGED <<lock, starts>>
       \/ /\ entry[SocketOf(b)] # NoEntry
          /\ Terminate(b)
          /\ UNCHANGED entry

\* bind, SocketIdentity::of: the transport remembers the entry it finds now; if
\* there is no socket, the path is cleared and run fails.
Identify(b) ==
    /\ brokers[b].pc = "identify"
    /\ \/ /\ entry[SocketOf(b)].kind = "socket"
          /\ brokers' = [brokers EXCEPT ![b].pc = "serve",
                                        ![b].identity = entry[SocketOf(b)].ino]
          /\ UNCHANGED <<entry, lock, starts>>
       \/ /\ entry[SocketOf(b)].kind # "socket"
          /\ SetEntry(b, NoEntry)
          /\ Terminate(b)

\* The worker takes a request and drives the knob, also for a connection that
\* outlives serve.
StartLifecycle(b) ==
    /\ brokers[b].pc \in {"serve", "stat", "remove", "unlock", "exit"}
    /\ brokers[b].worker = "idle"
    /\ brokers' = [brokers EXCEPT ![b].worker = "busy"]
    /\ UNCHANGED <<entry, lock, starts>>

\* The lifecycle returns, or panics and takes the worker with it.
EndLifecycle(b) ==
    /\ brokers[b].worker = "busy"
    /\ \E worker \in {"idle", "stopped"} : brokers' = [brokers EXCEPT ![b].worker = worker]
    /\ UNCHANGED <<entry, lock, starts>>

\* Mutant: the lock file is dropped before the transport.
MutServeUnlocksFirst(b) ==
    /\ brokers[b].pc = "serve"
    /\ brokers[b].worker = "stopped" \/ ListenerFails
    /\ Goto(b, "stat")
    /\ Unlock(b)
    /\ UNCHANGED <<entry, starts>>

\* serve returns its error: the worker stopped or the listener failed.
ServeReturns(b) ==
    /\ brokers[b].pc = "serve"
    /\ brokers[b].worker = "stopped" \/ ListenerFails
    /\ Goto(b, "stat")
    /\ UNCHANGED <<entry, lock, starts>>

\* Drop for UnixSocketTransport, the identity check: the listener stays open
\* while it is made, so the inode cannot have been used again ...
DropInspects(b) ==
    /\ brokers[b].pc = "stat"
    /\ LET own == [kind |-> "socket", ino |-> brokers[b].identity]
       IN  \/ entry[SocketOf(b)] = own /\ Goto(b, "remove")
           \/ entry[SocketOf(b)] # own /\ CloseListener(b)
    /\ UNCHANGED <<entry, lock, starts>>

\* ... and the unlink, by name.
DropUnlinks(b) ==
    /\ brokers[b].pc = "remove"
    /\ SetEntry(b, NoEntry)
    /\ CloseListener(b)
    /\ UNCHANGED <<lock, starts>>

\* run returns: the lock file is closed.
DropLock(b) ==
    /\ brokers[b].pc = "unlock"
    /\ Goto(b, "exit")
    /\ Unlock(b)
    /\ UNCHANGED <<entry, starts>>

\* main: process::exit.
ProcessExit(b) ==
    /\ brokers[b].pc = "exit"
    /\ Terminate(b)
    /\ UNCHANGED entry

\* The process is killed: the kernel closes its descriptors, the path stays.
Kill(b) ==
    /\ starts[b].pc # "off"
    /\ Terminate(b)
    /\ UNCHANGED entry

Next ==
    \/ PathsNext /\ UNCHANGED instanceVars
    \/ /\ \E b \in Brokers :
            \/ LockSingleInstance(b) \/ SpawnService(b) \/ InspectPath(b) \/ UnlinkStale(b)
            \/ BindListener(b) \/ Identify(b) \/ StartLifecycle(b) \/ EndLifecycle(b)
            \/ ServeReturns(b) \/ DropInspects(b) \/ DropUnlinks(b) \/ DropLock(b)
            \/ ProcessExit(b) \/ Kill(b)
       /\ UNCHANGED <<uid, dirs, tampers>>

Spec == Init /\ [][Next]_vars

-----------------------------------------------------------------------------
\* A serving root broker is reachable, wherever its socket was put: the entry at
\* the path is the socket it listens on, never one that another start or another
\* end has unlinked or replaced (the stranded first broker of
\* lock_single_instance's comment).
ServingIsReachable ==
    \A b \in Brokers : uid = "root" /\ brokers[b].pc = "serve" =>
        entry[SocketOf(b)] = [kind |-> "socket", ino |-> brokers[b].ino]

\* A step that unlinks a root broker's socket path finds its own socket there.
UnlinksOwn ==
    \A b \in Brokers :
        uid = "root" /\ brokers[b].pc = "remove" /\ brokers'[b].pc = "unlock" =>
            entry[SocketOf(b)] \in {NoEntry, [kind |-> "socket", ino |-> brokers[b].ino]}

\* The end of a root broker's transport unlinks its own socket and no
\* successor's (Drop).
SuccessorKept == [][UnlinksOwn]_vars

\* The knob has one driver: two processes of one uid are never in a lifecycle at
\* once, each having its own ledger, wherever they were pointed at their files.
\* An unprivileged broker locks where XDG_RUNTIME_DIR puts the private directory,
\* a root broker always in /run; for it too the property needs a listener that does
\* not fail, for serve then returns and frees the lock while the worker is still
\* in its lifecycle (lock_single_instance, runtime_base, run).
OneDriver ==
    \A a, b \in Brokers : brokers[a].worker = "busy" /\ brokers[b].worker = "busy" =>
        a = b \/ (uid # "root" /\ starts[a].base # starts[b].base)
=============================================================================
