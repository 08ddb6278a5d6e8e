--------------------------- MODULE MCBrokerInstance ---------------------------
(* Two broker processes on a host whose tree other users change. *)
EXTENDS BrokerInstance, TLC

CONSTANTS b1, b2

Tree(base, private, custom) ==
    [run |-> Directory("root", "read", FALSE), runPrivate |-> Absent,
     top |-> Directory("root", "read", FALSE), base |-> base,
     basePrivate |-> private, custom |-> custom]

Session == Directory("broker", "none", FALSE)

\* The base is the session's own, a sticky shared directory or one that others
\* may write; the directory an override names is closed or shared.
Trees ==
    {Tree(Session, Absent, Session),
     Tree(Session, Session, Directory("broker", "write", TRUE)),
     Tree(Directory("root", "write", TRUE), Absent, Directory("root", "none", FALSE)),
     Tree(Directory("root", "write", FALSE), Absent, Session)}

\* A directory or a link of the other user's, or one of root's moved into place.
Intruders == {Directory("other", "none", FALSE), Symlink("other"), Directory("root", "none", FALSE)}

BrokerSymmetry == Permutations(Brokers)
=============================================================================
