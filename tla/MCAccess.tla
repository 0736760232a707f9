------------------------------- MODULE MCAccess -------------------------------
(***************************************************************************)
(* The instance of Access for TLC.  The operator rotates the secret (in the*)
(* environment, under a file that wins, or by forgetting it), takes the    *)
(* client's scope away, leaves it to the entry of everyone, and moves a    *)
(* merchant from the old list of keys to the new one.                      *)
(***************************************************************************)
EXTENDS Access, TLC

CONSTANTS u1, k1, k2

Initiator == [role |-> "payment_initiator",
              scopes |-> {"payments:write", "ledger:read"},
              roles |-> {"payment_initiator", "viewer"}]
Reader == [role |-> "viewer", scopes |-> {"ledger:read"}, roles |-> {"viewer"}]

Base == [secret |-> [file |-> Unset, env |-> "one"], insecure |-> FALSE,
         policies |-> (u1 :> Initiator @@ Anyone :> Reader),
         credentials |-> {[merchant |-> "m1", key |-> k1, role |-> "merchant",
                           scopes |-> {"payments:write"}]},
         legacy |-> {[merchant |-> "m2", key |-> k2]}]

MCConfigurations ==
    {Base,
     [Base EXCEPT !.secret.env = "two"],
     [Base EXCEPT !.secret = [file |-> "one", env |-> "two"], !.credentials = {}],
     [Base EXCEPT !.secret.env = Unset],
     [Base EXCEPT !.policies = (u1 :> Unset @@ Anyone :> Reader)],
     [Base EXCEPT !.policies = (u1 :> Unset @@ Anyone :> Unset),
                  !.insecure = TRUE, !.secret.env = Unset]}

\* The default request, one for a scope only, one that asks for too long.
MCAsks ==
    {[ttl |-> MaxTTL, scopes |-> {}, role |-> Unset],
     [ttl |-> 1, scopes |-> {"ledger:read"}, role |-> "viewer"],
     [ttl |-> MaxTTL + 1, scopes |-> {"payments:write"}, role |-> Unset]}

=============================================================================
