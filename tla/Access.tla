-------------------------------- MODULE Access --------------------------------
(***************************************************************************)
(* Who may submit a payment: auth-service issues tokens, api-gateway admits*)
(* their bearers and the holders of merchant keys.  Both read their        *)
(* configuration (shared/config.py) when the process starts and never      *)
(* again, so a change of the operator takes effect replica by replica, and *)
(* on the tokens in the hands of clients not at all: they are checked      *)
(* against their own contents, the signing secret and the clock.           *)
(***************************************************************************)
EXTENDS Naturals

CONSTANTS
    Auths, Gateways,  \* the replicas
    Clients,          \* the subjects of tokens
    Anyone,           \* the key "*" of SUBJECT_POLICIES
    Unset,            \* a setting that is absent (or empty)
    Configurations,   \* what the operator may configure
    Asks,             \* the token requests of the clients
    MaxTTL,           \* MAX_TOKEN_TTL_SECONDS
    MaxTime,          \* bound: of the clock
    MaxChanges        \* bound: changes of the configuration

\* The names of scopes and roles that the checks tell apart: "ledger:read"
\* stands for any scope that does not pay, "viewer" for any such role.
Scopes == {"payments:write", "ledger:read"}
Roles  == {"payment_initiator", "merchant", "admin", "viewer"}

\* An entry of SUBJECT_POLICIES, as subject_policy reads it.
PolicyOK(policy) == policy.scopes \subseteq Scopes /\ policy.roles \subseteq Roles

ASSUME AccessAssumption ==
    /\ Auths \cap Gateways = {}
    /\ MaxTTL \in Nat \ {0}
    /\ {MaxTime, MaxChanges} \subseteq Nat
    /\ \A c \in Configurations : \A u \in Clients \cup {Anyone} :
          c.policies[u] = Unset \/ PolicyOK(c.policies[u])

Replicas == Auths \cup Gateways

VARIABLES
    conf,     \* the configuration as the operator has it
    loaded,   \* loaded[r]: the settings of replica r; Unset: it does not run
    held,     \* held[u]: a token the client u has kept
    now,      \* the clock
    allowed,  \* history: allowed[u]: when a replica would last have issued a
              \* token for payments to u, plus one
    changes

accessVars == <<conf, loaded, held, now, allowed, changes>>

-----------------------------------------------------------------------------
(* Reading the configuration                                               *)

\* load_secret: the file wins, even over a newer environment variable; the
\* default needs the flag.
LoadSecret(source, insecure) ==
    IF source.file # Unset THEN source.file
    ELSE IF source.env # Unset THEN source.env
    ELSE IF insecure THEN "supersecret" ELSE Unset

Secret(c) == LoadSecret(c.secret, c.insecure)

\* parse_api_keys: merchant=key pairs get a fixed role and fixed scopes.
ParseApiKeys(pairs) ==
    {[merchant |-> p.merchant, key |-> p.key, role |-> "merchant",
      scopes |-> {"payments:write", "ledger:read"}] : p \in pairs}

\* merchant_credentials, the copy of auth-service and the one of the gateway:
\* the old format counts when the new one lists nobody.
AuthCredentials(c) ==
    IF c.credentials = {} THEN ParseApiKeys(c.legacy) ELSE c.credentials

GatewayCredentials(c) ==
    IF c.credentials = {} THEN ParseApiKeys(c.legacy) ELSE c.credentials

DefaultPolicy ==
    [role |-> "payment_initiator", scopes |-> {"payments:write", "ledger:read"},
     roles |-> {"payment_initiator"}]

\* subject_policy: a subject without an entry, or with an empty one, has that
\* of everyone.
SubjectPolicy(c, u) ==
    IF c.policies[u] # Unset THEN c.policies[u]
    ELSE IF c.policies[Anyone] # Unset THEN c.policies[Anyone]
    ELSE IF c.insecure THEN DefaultPolicy ELSE Unset

-----------------------------------------------------------------------------
Tokens == [role : Roles, scopes : SUBSET Scopes, exp : Nat,
           secret : {Secret(c) : c \in Configurations} \ {Unset}]

AccessTypeOK ==
    /\ conf \in Configurations
    /\ loaded \in [Replicas -> Configurations \cup {Unset}]
    /\ held \in [Clients -> Tokens \cup {Unset}]
    /\ now \in 0..MaxTime
    /\ allowed \in [Clients -> 0..(MaxTime + 1)]
    /\ changes \in 0..MaxChanges

PaymentRoles == {"payment_initiator", "merchant", "admin"}

\* Would a replica with these settings issue a token for payments to u?
Permits(c, u) ==
    /\ c # Unset
    /\ LET policy == SubjectPolicy(c, u) IN
          /\ policy # Unset
          /\ "payments:write" \in policy.scopes
          /\ policy.roles \cap PaymentRoles # {}

AccessInit ==
    /\ conf \in Configurations /\ Secret(conf) # Unset
    /\ loaded = [r \in Replicas |-> conf]
    /\ held = [u \in Clients |-> Unset]
    /\ now = 0
    /\ allowed = [u \in Clients |-> IF Permits(conf, u) THEN 1 ELSE 0]
    /\ changes = 0

\* The history variable, after a step that moves the clock or a replica.
Remember(settings, time) ==
    allowed' = [u \in Clients |->
                   IF \E a \in Auths : Permits(settings[a], u) THEN time + 1
                   ELSE allowed[u]]

-----------------------------------------------------------------------------
(* auth-service                                                            *)

\* Mutant: the time to live is not checked.
IssueAnyTime(a, u, ask) ==
    LET c == loaded[a]
        policy == SubjectPolicy(c, u)
        scopes == IF ask.scopes = {} THEN policy.scopes ELSE ask.scopes
        role == IF ask.role = Unset THEN policy.role ELSE ask.role
    IN
    /\ c # Unset
    /\ policy # Unset
    /\ scopes \subseteq policy.scopes
    /\ role \in policy.roles
    /\ held' = [held EXCEPT ![u] = [role |-> role, scopes |-> scopes,
                                    exp |-> now + ask.ttl, secret |-> Secret(c)]]
    /\ UNCHANGED <<conf, loaded, now, allowed, changes>>

\* issue_token, for an issuer that presents the key: any other is refused.
\* The client keeps the token in place of the one it had.
IssueToken(a, u, ask) ==
    LET c == loaded[a]
        policy == SubjectPolicy(c, u)
        scopes == IF ask.scopes = {} THEN policy.scopes ELSE ask.scopes
        role == IF ask.role = Unset THEN policy.role ELSE ask.role
    IN
    /\ c # Unset
    /\ ask.ttl \in 1..MaxTTL
    /\ policy # Unset
    /\ scopes \subseteq policy.scopes
    /\ role \in policy.roles
    /\ held' = [held EXCEPT ![u] = [role |-> role, scopes |-> scopes,
                                    exp |-> now + ask.ttl, secret |-> Secret(c)]]
    /\ UNCHANGED <<conf, loaded, now, allowed, changes>>

\* validate_api_key: what auth-service says of a key.
ValidateApiKey(a, key) == {k \in AuthCredentials(loaded[a]) : k.key = key}

-----------------------------------------------------------------------------
(* api-gateway                                                             *)

\* jwt.decode: the signature, and the expiry, which is inclusive.
Decodes(g, token) == token.secret = Secret(loaded[g]) /\ now <= token.exp

\* require_auth: who calls, as a set of at most one context.  A bearer header
\* decides alone: a key next to it is not looked at.
Authenticate(g, token, key) ==
    IF token # Unset
    THEN IF Decodes(g, token)
         THEN {[merchant |-> Unset, role |-> token.role, scopes |-> token.scopes]}
         ELSE {}
    ELSE {[merchant |-> k.merchant, role |-> k.role, scopes |-> k.scopes] :
             k \in {k \in GatewayCredentials(loaded[g]) : k.key = key}}

\* _ensure_scopes and _ensure_role, with what POST /v1/payments requires.
Admitted(g, token, key) ==
    /\ loaded[g] # Unset
    /\ \E caller \in Authenticate(g, token, key) :
          /\ "payments:write" \in caller.scopes
          /\ caller.role \in PaymentRoles

-----------------------------------------------------------------------------
(* The operator, the platform, the clock                                   *)

Configure(c) ==
    /\ changes < MaxChanges
    /\ changes' = changes + 1
    /\ c # conf
    /\ conf' = c
    /\ UNCHANGED <<loaded, held, now, allowed>>

\* Mutant: a gateway that was configured once keeps what it has.
RestartKeepsSettings(r) ==
    LET kept == r \in Gateways /\ loaded[r] # Unset
        settings ==
            [loaded EXCEPT ![r] = IF kept THEN @
                                  ELSE IF Secret(conf) = Unset THEN Unset ELSE conf]
    IN
    /\ loaded' = settings
    /\ Remember(settings, now)
    /\ UNCHANGED <<conf, held, now, changes>>

\* A process that crashed or is replaced reads what is configured now.  The
\* settings class raises when a secret is missing, and the process does not
\* come up (one secret stands for all a service needs).
Restart(r) ==
    LET settings ==
            [loaded EXCEPT ![r] = IF Secret(conf) = Unset THEN Unset ELSE conf]
    IN
    /\ loaded' = settings
    /\ Remember(settings, now)
    /\ UNCHANGED <<conf, held, now, changes>>

Tick ==
    /\ now < MaxTime
    /\ now' = now + 1
    /\ Remember(loaded, now + 1)
    /\ UNCHANGED <<conf, loaded, held, changes>>

AccessNext ==
    \/ \E a \in Auths, u \in Clients, ask \in Asks : IssueToken(a, u, ask)
    \/ \E c \in Configurations : Configure(c)
    \/ \E r \in Replicas : Restart(r)
    \/ Tick

GetsIn(u) == \A g \in Gateways : Admitted(g, held[u], Unset)

\* A client that is refused somewhere asks for a new token, with the defaults.
Renew(u) ==
    /\ ~GetsIn(u)
    /\ \E a \in Auths, ask \in Asks :
          /\ ask.scopes = {} /\ ask.role = Unset
          /\ IssueToken(a, u, ask)

\* The operator rolls every replica after a change.
RollOut(r) == loaded[r] # conf /\ Restart(r)

AccessFairness ==
    /\ \A u \in Clients : WF_accessVars(Renew(u))
    /\ \A r \in Replicas : WF_accessVars(RollOut(r))

AccessSafeSpec == AccessInit /\ [][AccessNext]_accessVars

AccessSpec == AccessSafeSpec /\ AccessFairness

-----------------------------------------------------------------------------
(* Properties                                                              *)

\* A client that no running auth-service would give a token for payments any
\* more is refused at the latest MAX_TOKEN_TTL_SECONDS later, whatever tokens
\* it has kept and whichever replicas were restarted in between.
RevocationTakesEffect ==
    \A u \in Clients : \A g \in Gateways :
        held[u] # Unset /\ Admitted(g, held[u], Unset)
            => allowed[u] > 0 /\ now <= allowed[u] - 1 + MaxTTL

MerchantKeys ==
    UNION {{p.key : p \in c.credentials \cup c.legacy} : c \in Configurations}

\* auth-service and the gateway read the credentials with code of their own:
\* of one configuration they read the same merchants.
ViewsAgree ==
    \A a \in Auths : \A g \in Gateways : \A key \in MerchantKeys :
        loaded[a] = loaded[g] /\ loaded[g] # Unset =>
            {k.merchant : k \in ValidateApiKey(a, key)}
                = {k.merchant : k \in Authenticate(g, Unset, key)}

\* The two, with the types of the variables.
AccessInv == AccessTypeOK /\ RevocationTakesEffect /\ ViewsAgree

\* Whatever the order in which the replicas are restarted after a rotation of
\* the secret: a client the configuration permits gets in again.
ClientGetsIn ==
    \A u \in Clients :
        <>[](Permits(conf, u) /\ Secret(conf) # Unset) => []<>GetsIn(u)

=============================================================================
