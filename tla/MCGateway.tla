------------------------------ MODULE MCGateway -------------------------------
(***************************************************************************)
(* Instances of Gateway for TLC.                                            *)
(***************************************************************************)
EXTENDS Gateway, TLC

CONSTANTS t1, t2, k1, k2, alice

Request(txn, key, valid) ==
    [txn |-> txn, key |-> key, user |-> alice, valid |-> valid]

\* A payment that clients may retry under its key, and a malformed one.
MCRequests == {Request(t1, k1, TRUE), Request(t2, k2, FALSE)}

=============================================================================
