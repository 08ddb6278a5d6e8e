----------------------------- MODULE MCRecovery ------------------------------
(* Small instances of a host with control planes and watchdogs. *)
EXTENDS Recovery

CONSTANTS g1, daemon, sweep

Request(val, lease) == [val |-> val, lease |-> lease, reversible |-> TRUE, known |-> TRUE]

OneRequest == {Request(1, 1)}

PollPolicy == [w \in {daemon} |-> "ExpiredLeasesOnly"]

\* The daemon, and a `--recover-all` run beside it.
MixedPolicy == [w \in {daemon, sweep} |->
                   IF w = sweep THEN "AllUnclosed" ELSE "ExpiredLeasesOnly"]
=============================================================================
