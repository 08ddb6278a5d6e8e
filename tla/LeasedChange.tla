---------------------------- MODULE LeasedChange -----------------------------
(***************************************************************************)
(* What the host is promised: "every write is leased".  An experiment is   *)
(* leased, then closed, once and for good; the setting moves only while    *)
(* some lease is open.  Under ExclusiveSpec leases do not overlap and the  *)
(* setting is back at its baseline when one is closed, so that a host      *)
(* without an open lease is a host at its baseline.                        *)
(*                                                                         *)
(* How a lease is taken, who closes it and what fails on the way is left   *)
(* to the specifications that implement this one.                          *)
(***************************************************************************)
CONSTANTS
    Settings,       \* what the host may be set to
    Baseline        \* its setting before any experiment

VARIABLES
    setting,        \* the host's setting
    leased,         \* experiments with an open lease
    closed          \* experiments that are over

vars == <<setting, leased, closed>>

Init == setting = Baseline /\ leased = {} /\ closed = {}

\* A lease is opened for an experiment that never had one.
Lease(e) ==
    /\ e \notin leased \cup closed
    /\ leased' = leased \cup {e}
    /\ UNCHANGED <<setting, closed>>

Change ==
    /\ leased # {}
    /\ setting' \in Settings
    /\ UNCHANGED <<leased, closed>>

\* An experiment ends; one that failed before its lease ends without one.
Close(e) ==
    /\ e \notin closed
    /\ leased' = leased \ {e}
    /\ closed' = closed \cup {e}
    /\ UNCHANGED setting

Next ==
    \/ \E e \in leased' : Lease(e)
    \/ Change
    \/ \E e \in closed' : Close(e)

Spec == Init /\ [][Next]_vars

-----------------------------------------------------------------------------
ExclusiveNext ==
    \/ \E e \in leased' : Lease(e) /\ leased = {}
    \/ Change
    \/ \E e \in closed' : Close(e) /\ (e \in leased => setting = Baseline)

ExclusiveSpec == Init /\ [][ExclusiveNext]_vars
=============================================================================
