------------------------------ MODULE MCBroker -------------------------------
(* Small instances of the broker: a handful of peers, one of them refused by the ACL. *)
EXTENDS Broker

CONSTANTS p1, p2, p3, p4
=============================================================================
