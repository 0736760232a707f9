---------------------------- MODULE GatewayProofs -----------------------------
(***************************************************************************)
(* Proofs about the two modules of POST /v1/payments.  First Access, which  *)
(* says who is admitted: for any replicas, clients, configurations and      *)
(* requests, any time to live, and any number of changes.  Then Gateway,    *)
(* which says what becomes of a call that was: for any number of calls,     *)
(* processes, users and keys, any limit and threshold, and any number of    *)
(* failures.                                                                *)
(***************************************************************************)
EXTENDS Gateway, Access, FiniteSetTheorems, TLAPS

-----------------------------------------------------------------------------
(* Access: the inductive invariant                                          *)

\* A process that runs found its secret when it started.
RunningHasSecret ==
    \A r \in Replicas : loaded[r] # Unset => Secret(loaded[r]) # Unset

\* allowed is now plus one for a client that some running auth-service would
\* give a token for payments, and never more.
Remembered ==
    \A u \in Clients :
        /\ allowed[u] <= now + 1
        /\ (\E a \in Auths : Permits(loaded[a], u)) => allowed[u] = now + 1

\* The token pays.
Pays(token) == "payments:write" \in token.scopes /\ token.role \in PaymentRoles

\* A token that pays was issued when the policy allowed it, or before, and
\* ends a time to live later.
TokensWereAllowed ==
    \A u \in Clients : held[u] # Unset /\ Pays(held[u]) =>
        /\ allowed[u] > 0
        /\ held[u].exp <= allowed[u] - 1 + MaxTTL

AccessIInv == AccessTypeOK /\ RunningHasSecret /\ Remembered /\ TokensWereAllowed

-----------------------------------------------------------------------------
(* Access: lemmas about the data                                            *)

\* The numbers of the module.
LEMMA Numbers ==
    ASSUME AccessTypeOK
    PROVE  /\ now \in Nat /\ now <= MaxTime /\ MaxTime \in Nat
           /\ MaxTTL \in Nat
           /\ \A u \in Clients : allowed[u] \in Nat
BY AccessAssumption DEF AccessTypeOK

\* The policy of a client, from whichever entry, is one the checks understand.
LEMMA PolicyType ==
    ASSUME NEW c \in Configurations, NEW u \in Clients,
           SubjectPolicy(c, u) # Unset
    PROVE  PolicyOK(SubjectPolicy(c, u))
<1>1. /\ c.policies[u] = Unset \/ PolicyOK(c.policies[u])
      /\ c.policies[Anyone] = Unset \/ PolicyOK(c.policies[Anyone])
  BY AccessAssumption
<1>2. PolicyOK(DefaultPolicy)
  BY DEF PolicyOK, DefaultPolicy, Scopes, Roles
<1>3. \/ SubjectPolicy(c, u) = c.policies[u] /\ c.policies[u] # Unset
      \/ SubjectPolicy(c, u) = c.policies[Anyone] /\ c.policies[Anyone] # Unset
      \/ SubjectPolicy(c, u) = DefaultPolicy
  BY DEF SubjectPolicy
<1>4. QED  BY <1>1, <1>2, <1>3

\* What issue_token signs: a token of the running configuration that ends
\* within the time to live, and that pays only if the policy lets it.
LEMMA IssuedToken ==
    ASSUME AccessIInv, NEW a \in Auths, NEW u \in Clients, NEW ask,
           IssueToken(a, u, ask)
    PROVE  /\ held' = [held EXCEPT ![u] = held'[u]]
           /\ held'[u] \in Tokens
           /\ held'[u].exp <= now + MaxTTL
           /\ Pays(held'[u]) => Permits(loaded[a], u)
<1> DEFINE c == loaded[a]
           policy == SubjectPolicy(c, u)
           scopes == IF ask.scopes = {} THEN policy.scopes ELSE ask.scopes
           role == IF ask.role = Unset THEN policy.role ELSE ask.role
           token == [role |-> role, scopes |-> scopes,
                     exp |-> now + ask.ttl, secret |-> Secret(c)]
<1>1. /\ c # Unset /\ policy # Unset /\ ask.ttl \in 1..MaxTTL
      /\ scopes \subseteq policy.scopes /\ role \in policy.roles
      /\ held' = [held EXCEPT ![u] = token]
  BY DEF IssueToken
<1>2. c \in Configurations /\ Secret(c) # Unset
  BY <1>1 DEF AccessIInv, AccessTypeOK, RunningHasSecret, Replicas
<1>3. PolicyOK(policy)
  BY <1>1, <1>2, PolicyType
<1>4. held'[u] = token
  BY <1>1 DEF AccessIInv, AccessTypeOK
<1>5. now \in Nat /\ MaxTTL \in Nat
  BY Numbers DEF AccessIInv
<1>6. now + ask.ttl \in Nat /\ now + ask.ttl <= now + MaxTTL
  BY <1>1, <1>5
<1> HIDE DEF c, policy, scopes, role
<1>7. role \in Roles /\ scopes \in SUBSET Scopes
  BY <1>1, <1>3 DEF PolicyOK
<1>8. Secret(c) \in {Secret(d) : d \in Configurations} \ {Unset}
  BY <1>2
<1>9. token \in Tokens
  BY <1>6, <1>7, <1>8 DEF Tokens
<1>10. Pays(token) => Permits(c, u)
  BY <1>1 DEF Pays, Permits, policy
<1>11. token.exp <= now + MaxTTL
  BY <1>6
<1>12. Pays(token) => Permits(loaded[a], u)
  BY <1>1, <1>10 DEF c
<1> HIDE DEF token
<1>13. held' = [held EXCEPT ![u] = held'[u]]
  BY <1>1, <1>4
<1>14. QED  BY <1>4, <1>9, <1>11, <1>12, <1>13

\* The history variable after a step.
LEMMA RememberedStep ==
    ASSUME NEW settings, NEW time \in Nat, allowed \in [Clients -> Nat],
           \A u \in Clients : allowed[u] <= time + 1,
           Remember(settings, time)
    PROVE  /\ allowed' \in [Clients -> Nat]
           /\ \A u \in Clients :
                 /\ allowed'[u] <= time + 1 /\ allowed'[u] >= allowed[u]
                 /\ (\E a \in Auths : Permits(settings[a], u))
                        => allowed'[u] = time + 1
BY DEF Remember

\* Tokens that were allowed are when the history grows.
LEMMA TokensStayAllowed ==
    ASSUME AccessIInv, UNCHANGED held, allowed' \in [Clients -> Nat],
           \A u \in Clients : allowed'[u] >= allowed[u]
    PROVE  TokensWereAllowed'
<1> SUFFICES ASSUME NEW u \in Clients, held[u] # Unset, Pays(held[u])
             PROVE  allowed'[u] > 0 /\ held[u].exp <= allowed'[u] - 1 + MaxTTL
  BY DEF TokensWereAllowed, Pays
<1>1. /\ allowed[u] \in Nat /\ allowed'[u] \in Nat /\ MaxTTL \in Nat
      /\ held[u].exp \in Nat
  BY Numbers DEF AccessIInv, AccessTypeOK, Tokens
<1>2. allowed[u] > 0 /\ held[u].exp <= allowed[u] - 1 + MaxTTL
  BY DEF AccessIInv, TokensWereAllowed
<1>3. allowed'[u] >= allowed[u]
  OBVIOUS
<1>4. QED  BY <1>1, <1>2, <1>3

-----------------------------------------------------------------------------
(* Access: the invariant is kept                                            *)

\* Every replica starts with the configuration, and no client has a token.
LEMMA AccessInitIInv == AccessInit => AccessIInv
<1> SUFFICES ASSUME AccessInit
             PROVE  AccessIInv
  OBVIOUS
<1>1. /\ now = 0 /\ held = [u \in Clients |-> Unset]
      /\ allowed = [u \in Clients |-> IF Permits(conf, u) THEN 1 ELSE 0]
      /\ conf \in Configurations /\ Secret(conf) # Unset /\ changes = 0
      /\ loaded = [r \in Replicas |-> conf]
  BY DEF AccessInit
<1>2. AccessTypeOK
  BY <1>1, AccessAssumption DEF AccessTypeOK
<1>3. RunningHasSecret
  BY <1>1 DEF RunningHasSecret
<1>4. Remembered
  BY <1>1 DEF Remembered, Replicas
<1>5. TokensWereAllowed
  BY <1>1 DEF TokensWereAllowed
<1>6. QED  BY <1>2, <1>3, <1>4, <1>5 DEF AccessIInv

\* Every step keeps the invariant.
LEMMA AccessIInvStep == AccessIInv /\ [AccessNext]_accessVars => AccessIInv'
<1> SUFFICES ASSUME AccessIInv, [AccessNext]_accessVars
             PROVE  AccessIInv'
  OBVIOUS
<1>0. /\ now \in Nat /\ now <= MaxTime /\ MaxTime \in Nat /\ MaxTTL \in Nat
      /\ allowed \in [Clients -> Nat]
      /\ \A u \in Clients : allowed[u] \in Nat /\ allowed[u] <= now + 1
  BY Numbers DEF AccessIInv, AccessTypeOK, Remembered
<1>1. ASSUME NEW a \in Auths, NEW u \in Clients, NEW ask \in Asks,
             IssueToken(a, u, ask)
      PROVE  AccessIInv'
  <2>1. /\ held' = [held EXCEPT ![u] = held'[u]] /\ held'[u] \in Tokens
        /\ held'[u].exp <= now + MaxTTL
        /\ Pays(held'[u]) => Permits(loaded[a], u)
    BY <1>1, IssuedToken
  <2>2. UNCHANGED <<conf, loaded, now, allowed, changes>>
    BY <1>1 DEF IssueToken
  <2>3. held' \in [Clients -> Tokens \cup {Unset}]
    BY <2>1 DEF AccessIInv, AccessTypeOK
  <2>4. AccessTypeOK'
    BY <2>2, <2>3 DEF AccessIInv, AccessTypeOK
  <2>5. RunningHasSecret' /\ Remembered'
    BY <2>2 DEF AccessIInv, RunningHasSecret, Remembered
  <2>6. TokensWereAllowed'
    <3> SUFFICES ASSUME NEW v \in Clients, held'[v] # Unset, Pays(held'[v])
                 PROVE  allowed[v] > 0 /\ held'[v].exp <= allowed[v] - 1 + MaxTTL
      BY <2>2 DEF TokensWereAllowed, Pays
    <3>1. CASE v = u
      <4>1. allowed[u] = now + 1
        BY <2>1, <3>1 DEF AccessIInv, Remembered
      <4>2. held'[u].exp \in Nat
        BY <2>1 DEF Tokens
      <4>3. QED  BY <2>1, <3>1, <4>1, <4>2, <1>0
    <3>2. CASE v # u
      <4>1. held'[v] = held[v]
        BY <2>1, <3>2 DEF AccessIInv, AccessTypeOK
      <4>2. QED  BY <4>1 DEF AccessIInv, TokensWereAllowed
    <3>3. QED  BY <3>1, <3>2
  <2>7. QED  BY <2>4, <2>5, <2>6 DEF AccessIInv
<1>2. ASSUME NEW c \in Configurations, Configure(c)
      PROVE  AccessIInv'
  <2>1. UNCHANGED <<loaded, held, now, allowed>> /\ conf' = c
    BY <1>2 DEF Configure
  <2>2. changes' \in 0..MaxChanges
    BY <1>2, AccessAssumption DEF Configure, AccessIInv, AccessTypeOK
  <2>3. AccessTypeOK'
    BY <2>1, <2>2 DEF AccessIInv, AccessTypeOK
  <2>4. QED
    BY <2>1, <2>3
       DEF AccessIInv, RunningHasSecret, Remembered, TokensWereAllowed, Pays
<1>3. ASSUME NEW r \in Replicas, Restart(r)
      PROVE  AccessIInv'
  <2>1. /\ loaded' = [loaded EXCEPT ![r] =
                          IF Secret(conf) = Unset THEN Unset ELSE conf]
        /\ Remember(loaded', now)
        /\ UNCHANGED <<conf, held, now, changes>>
    BY <1>3 DEF Restart
  <2>2. /\ allowed' \in [Clients -> Nat]
        /\ \A u \in Clients :
              /\ allowed'[u] <= now + 1 /\ allowed'[u] >= allowed[u]
              /\ (\E a \in Auths : Permits(loaded'[a], u))
                     => allowed'[u] = now + 1
    BY <2>1, <1>0, RememberedStep
  <2>3. allowed' \in [Clients -> 0..(MaxTime + 1)]
    BY <2>2, <1>0
  <2>4. loaded' \in [Replicas -> Configurations \cup {Unset}]
    BY <2>1 DEF AccessIInv, AccessTypeOK
  <2>5. AccessTypeOK'
    BY <2>1, <2>3, <2>4 DEF AccessIInv, AccessTypeOK
  <2>6. RunningHasSecret'
    BY <2>1 DEF AccessIInv, AccessTypeOK, RunningHasSecret
  <2>7. Remembered'
    BY <2>1, <2>2 DEF Remembered
  <2>8. TokensWereAllowed'
    BY <2>1, <2>2, TokensStayAllowed
  <2>9. QED  BY <2>5, <2>6, <2>7, <2>8 DEF AccessIInv
<1>4. ASSUME Tick
      PROVE  AccessIInv'
  <2>1. /\ now < MaxTime /\ now' = now + 1 /\ Remember(loaded, now + 1)
        /\ UNCHANGED <<conf, loaded, held, changes>>
    BY <1>4 DEF Tick
  <2>2. now + 1 \in Nat /\ \A u \in Clients : allowed[u] <= (now + 1) + 1
    BY <1>0
  <2>3. /\ allowed' \in [Clients -> Nat]
        /\ \A u \in Clients :
              /\ allowed'[u] <= (now + 1) + 1 /\ allowed'[u] >= allowed[u]
              /\ (\E a \in Auths : Permits(loaded[a], u))
                     => allowed'[u] = (now + 1) + 1
    BY <2>1, <2>2, <1>0, RememberedStep
  <2>4. now' \in 0..MaxTime /\ allowed' \in [Clients -> 0..(MaxTime + 1)]
    BY <2>1, <2>3, <1>0
  <2>5. AccessTypeOK'
    BY <2>1, <2>4 DEF AccessIInv, AccessTypeOK
  <2>6. RunningHasSecret' /\ Remembered'
    BY <2>1, <2>3 DEF AccessIInv, RunningHasSecret, Remembered
  <2>7. TokensWereAllowed'
    BY <2>1, <2>3, TokensStayAllowed
  <2>8. QED  BY <2>5, <2>6, <2>7 DEF AccessIInv
<1>5. CASE UNCHANGED accessVars
  BY <1>5 DEF accessVars, AccessIInv, AccessTypeOK, RunningHasSecret, Remembered,
              TokensWereAllowed, Pays
<1>6. QED  BY <1>1, <1>2, <1>3, <1>4, <1>5 DEF AccessNext

-----------------------------------------------------------------------------
(* Access: the theorems                                                     *)

\* The two copies of merchant_credentials read the same merchants out of one
\* configuration.
LEMMA CredentialsAgree == AccessTypeOK => ViewsAgree
<1> SUFFICES ASSUME NEW a \in Auths, NEW g \in Gateways, NEW key \in MerchantKeys,
                    loaded[a] = loaded[g]
             PROVE  {k.merchant : k \in ValidateApiKey(a, key)}
                        = {k.merchant : k \in Authenticate(g, Unset, key)}
  BY DEF ViewsAgree
<1> DEFINE Found == {k \in AuthCredentials(loaded[a]) : k.key = key}
<1>1. ValidateApiKey(a, key) = Found
  BY DEF ValidateApiKey
<1>2. {k \in GatewayCredentials(loaded[g]) : k.key = key} = Found
  BY DEF AuthCredentials, GatewayCredentials
<1>3. Authenticate(g, Unset, key) =
          {[merchant |-> k.merchant, role |-> k.role, scopes |-> k.scopes] :
              k \in Found}
  BY <1>2 DEF Authenticate
<1> DEFINE Context(k) ==
               [merchant |-> k.merchant, role |-> k.role, scopes |-> k.scopes]
<1> HIDE DEF Found
<1>4. \A k : Context(k).merchant = k.merchant
  OBVIOUS
<1>5. Authenticate(g, Unset, key) = {Context(k) : k \in Found}
  BY <1>3
<1> HIDE DEF Context
<1>6. {x.merchant : x \in {Context(k) : k \in Found}} = {k.merchant : k \in Found}
  BY <1>4
<1>7. QED  BY <1>1, <1>5, <1>6

\* A bearer is admitted only with a token that pays and has not ended.
LEMMA RevocationHolds == AccessIInv => RevocationTakesEffect
<1> SUFFICES ASSUME AccessIInv, NEW u \in Clients, NEW g \in Gateways,
                    held[u] # Unset, Admitted(g, held[u], Unset)
             PROVE  allowed[u] > 0 /\ now <= allowed[u] - 1 + MaxTTL
  BY DEF RevocationTakesEffect
<1>1. Pays(held[u]) /\ now <= held[u].exp
  BY DEF Admitted, Authenticate, Decodes, Pays
<1>2. allowed[u] > 0 /\ held[u].exp <= allowed[u] - 1 + MaxTTL
  BY <1>1 DEF AccessIInv, TokensWereAllowed
<1>3. /\ now \in Nat /\ MaxTTL \in Nat /\ allowed[u] \in Nat
      /\ held[u].exp \in Nat
  BY Numbers DEF AccessIInv, AccessTypeOK, Tokens
<1>4. QED  BY <1>1, <1>2, <1>3

\* The inductive invariant holds whatever is configured, restarted and issued.
THEOREM AccessInvariance == AccessSafeSpec => []AccessIInv
BY AccessInitIInv, AccessIInvStep, PTL DEF AccessSafeSpec

\* A withdrawn permission ends MAX_TOKEN_TTL_SECONDS later at the latest,
\* whatever tokens a client has kept, and of one configuration auth-service and
\* gateway read the same merchants.
THEOREM WithdrawnPermissionsEnd == AccessSafeSpec => []AccessInv
<1>1. AccessIInv => AccessInv
  BY CredentialsAgree, RevocationHolds DEF AccessIInv, AccessInv
<1>2. QED  BY <1>1, AccessInvariance, PTL
-----------------------------------------------------------------------------
(* Gateway: the inductive invariant                                         *)

Waiting(c) == pc[c] \notin {"new", "done"}

\* A call has a process and a request from the moment it is received.
Received ==
    \A c \in Calls :
        IF pc[c] = "new" THEN process[c] = None
        ELSE process[c] \in Processes /\ request[c] \in Requests

\* What is to be stored, is stored, or was answered is in the topic.
StoredIsQueued ==
    /\ \A c \in Calls : pc[c] = "cache" => c \in queued
    /\ \A k \in Keys : cache[k] # None => cache[k] \in queued

\* The calls admitted are among those counted; the one that counted first is
\* not admitted before it has set the timer, and it is alone.  A timer
\* belongs to a counter.
Limiter ==
    /\ \A u \in Users : admitted[u] <= count[u] /\ admitted[u] <= RateLimit
    /\ \A u \in timed : count[u] > 0
    /\ \A c \in Calls : pc[c] = "expire" =>
          /\ UserOf(c) \notin timed
          /\ admitted[UserOf(c)] + 1 <= count[UserOf(c)]
          /\ admitted[UserOf(c)] + 1 <= RateLimit
          /\ \A d \in Calls : pc[d] = "expire" /\ UserOf(d) = UserOf(c) => d = c

\* As long as nothing failed, no producer is closed or lost and no call is on
\* its way to a refusal.
Undamaged ==
    faults = 0 =>
        /\ \A d \in Calls : health[d] \notin {"broken", "stopped"}
        /\ \A g \in Processes : breaker[g] = "closed"
        /\ \A c \in Calls :
              /\ pc[c] \notin {"closed", "stop", "stop_timeout"}
              /\ pc[c] = "start" => producer[process[c]] # None

\* A process uses only producers it made itself.
OwnProducers ==
    \A g \in Processes : producer[g] # None => process[producer[g]] = g

\* The producers that run, or soon will, and that no process takes any more.
Dropped ==
    {d \in Calls : /\ health[d] \in {"starting", "running"}
                   /\ \A g \in Processes : producer[g] # d}
DroppedCostCalls == Cardinality(Dropped) <= Cardinality(FailedCalls)

\* Without a failure the response of an accepted call stays in the cache.
AnswersCached ==
    faults = 0 => \A d \in Calls : Done(d, "accepted") => cache[KeyOf(d)] # None

IInv ==
    /\ GatewayTypeOK
    /\ Received
    /\ StoredIsQueued /\ AcceptedIsQueued
    /\ Limiter
    /\ UntimedCostsFailures
    /\ Undamaged /\ RefusalsCostFailures
    /\ OwnProducers /\ DroppedCostCalls
    /\ BreakerMatchesCount
    /\ AnswersCached

-----------------------------------------------------------------------------
(* What the pieces of a step do.                                            *)

RedisTypes ==
    /\ count \in [Users -> Nat] /\ timed \subseteq Users
    /\ admitted \in [Users -> Nat]
    /\ cache \in [Keys -> Calls \cup {None}]

ProcessTypes ==
    /\ producer \in [Processes -> Calls \cup {None}]
    /\ health \in [Calls -> {"none", "starting", "running", "broken", "stopped"}]
    /\ failures \in [Processes -> Nat]
    /\ breaker \in [Processes -> {"closed", "open", "half_open"}]

CallTypes ==
    /\ pc \in [Calls -> Steps]
    /\ process \in [Calls -> Processes \cup {None}]
    /\ request \in [Calls -> Requests \cup {None}]
    /\ prod \in [Calls -> Calls \cup {None}]
    /\ answer \in [Calls -> (Statuses \X Calls) \cup {None}]
    /\ \A c \in Calls :
          /\ pc[c] = "done" <=> answer[c] # None
          /\ pc[c] \in {"send", "stop", "stop_timeout"} => prod[c] # None

TopicTypes ==
    /\ queued \subseteq Calls /\ late \subseteq Calls
    /\ faults \in 0..MaxFaults

\* The type invariant, by the four groups of variables.
LEMMA TypeParts ==
    GatewayTypeOK <=> RedisTypes /\ ProcessTypes /\ CallTypes /\ TopicTypes
BY DEF GatewayTypeOK, RedisTypes, ProcessTypes, CallTypes, TopicTypes

\* The literals of Steps and Statuses.
LEMMA Names ==
    /\ {"new", "incr", "expire", "lookup", "start"} \subseteq Steps
    /\ {"send", "closed", "stop", "stop_timeout", "cache", "done"} \subseteq Steps
    /\ {"accepted", "limited", "invalid", "open"} \subseteq Statuses
    /\ {"failed", "timed_out", "error", "lost"} \subseteq Statuses
<1>1. {"new", "incr", "expire", "lookup", "start"} \subseteq Steps
  BY DEF Steps
<1>2. {"send", "closed", "stop", "stop_timeout", "cache", "done"} \subseteq Steps
  BY DEF Steps
<1>3. QED  BY <1>1, <1>2 DEF Statuses

\* None is nobody, and no answer.
LEMMA NoneIsNobody ==
    /\ None \notin Calls /\ None \notin Processes /\ None \notin Requests
    /\ \A s \in Statuses, d \in Calls : <<s, d>> # None
BY GatewayAssumption

\* What is known of a call that waits.
LEMMA WaitingFacts ==
    ASSUME IInv, NEW c \in Calls, Waiting(c)
    PROVE  /\ process[c] \in Processes /\ request[c] \in Requests
           /\ UserOf(c) \in Users /\ KeyOf(c) \in Keys
           /\ answer[c] = None
<1>1. process[c] \in Processes /\ request[c] \in Requests
  BY DEF IInv, Received, Waiting
<1>2. answer[c] = None
  BY DEF IInv, GatewayTypeOK, Waiting
<1>3. QED  BY <1>1, <1>2 DEF UserOf, KeyOf, Users, Keys

\* A call that goes on keeps its types.
LEMMA GotoTypes ==
    ASSUME CallTypes, NEW c \in Calls, pc[c] # "done",
           NEW step \in Steps \ {"done", "send", "stop", "stop_timeout"},
           Goto(c, step)
    PROVE  CallTypes'
BY DEF CallTypes, Goto

\* So does one that goes on with a producer.
LEMMA TakeTypes ==
    ASSUME CallTypes, NEW c \in Calls, pc[c] # "done",
           NEW step \in Steps \ {"done"}, NEW d \in Calls,
           pc' = [pc EXCEPT ![c] = step], prod' = [prod EXCEPT ![c] = d],
           UNCHANGED <<process, request, answer>>
    PROVE  CallTypes'
BY NoneIsNobody DEF CallTypes

\* So does one that goes on without.
LEMMA LeaveTypes ==
    ASSUME CallTypes, NEW c \in Calls, pc[c] # "done",
           NEW step \in Steps \ {"done", "send", "stop", "stop_timeout"},
           pc' = [pc EXCEPT ![c] = step], prod' = [prod EXCEPT ![c] = None],
           UNCHANGED <<process, request, answer>>
    PROVE  CallTypes'
BY DEF CallTypes

\* So does one that is answered.
LEMMA AnswerTypes ==
    ASSUME CallTypes, NEW c \in Calls, NEW status \in Statuses, NEW d \in Calls,
           AnswerWith(c, status, d)
    PROVE  CallTypes'
<1>1. <<status, d>> \in Statuses \X Calls /\ <<status, d>> # None
  BY NoneIsNobody
<1> DEFINE x == <<status, d>>
<1>2. answer' = [answer EXCEPT ![c] = x] /\ x \in Statuses \X Calls /\ x # None
  BY <1>1 DEF AnswerWith
<1> HIDE DEF x
<1>3. "done" \in Steps
  BY Names
<1>4. pc' = [pc EXCEPT ![c] = "done"] /\ prod' = [prod EXCEPT ![c] = None]
      /\ UNCHANGED <<process, request>>
  BY DEF AnswerWith
<1>5. QED  BY <1>2, <1>3, <1>4 DEF CallTypes

\* A failure is counted.
LEMMA FaultTypes ==
    ASSUME faults \in 0..MaxFaults, Fault
    PROVE  faults' \in 0..MaxFaults /\ faults' > 0
BY GatewayAssumption DEF Fault

-----------------------------------------------------------------------------
(* Types.                                                                   *)

\* A send that fails or times out keeps the types.
LEMMA ResetTypes ==
    ASSUME IInv, NEW c \in Calls, Waiting(c), NEW step \in {"stop", "stop_timeout"},
           NEW status \in Statuses, FailAndReset(c, step, status)
    PROVE  RedisTypes' /\ ProcessTypes' /\ CallTypes' /\ queued' = queued
<1>1. RedisTypes /\ ProcessTypes /\ CallTypes
  BY TypeParts DEF IInv
<1>2. process[c] \in Processes /\ pc[c] # "done"
  BY WaitingFacts DEF Waiting
<1>3. RedisTypes'
  BY <1>1 DEF RedisTypes, FailAndReset, redisVars
<1>4. CallTypes'
  <2>1. CASE producer[process[c]] = None
    BY <2>1, <1>1, AnswerTypes DEF FailAndReset, Answer
  <2>2. CASE producer[process[c]] # None
    <3>1. producer[process[c]] \in Calls
      BY <2>2, <1>1, <1>2 DEF ProcessTypes
    <3>2. step \in Steps \ {"done"}
      BY Names
    <3>3. QED  BY <2>2, <3>1, <3>2, <1>1, <1>2, TakeTypes DEF FailAndReset
  <2>3. QED  BY <2>1, <2>2
<1>5. ProcessTypes'
  <2>1. failures[process[c]] + 1 \in Nat
    BY <1>1, <1>2 DEF ProcessTypes
  <2>2. failures' \in [Processes -> Nat]
    BY <2>1, <1>1, <1>2 DEF ProcessTypes, FailAndReset, RecordFailure
  <2>3. breaker' \in [Processes -> {"closed", "open", "half_open"}]
    BY <1>1, <1>2 DEF ProcessTypes, FailAndReset, RecordFailure
  <2>4. health' \in [Calls -> {"none", "starting", "running", "broken", "stopped"}]
    BY <1>1 DEF ProcessTypes, FailAndReset
  <2>5. producer' = producer
    BY DEF FailAndReset
  <2>6. QED  BY <2>2, <2>3, <2>4, <2>5, <1>1 DEF ProcessTypes
<1>6. QED  BY <1>3, <1>4, <1>5 DEF FailAndReset

\* A counted call keeps the types of Redis.
LEMMA CountTypes ==
    ASSUME IInv, NEW c \in Calls, Waiting(c), CountOne(c)
    PROVE  /\ count' \in [Users -> Nat]
           /\ count'[UserOf(c)] = count[UserOf(c)] + 1
           /\ \A u \in Users : u # UserOf(c) => count'[u] = count[u]
<1>1. UserOf(c) \in Users /\ count \in [Users -> Nat]
  BY WaitingFacts DEF IInv, GatewayTypeOK
<1>2. count[UserOf(c)] + 1 \in Nat
  BY <1>1
<1>3. QED  BY <1>1, <1>2 DEF CountOne

\* The timer is set for a user that there is.
LEMMA TimerTypes ==
    ASSUME IInv, NEW c \in Calls, Waiting(c), SetTimer(c)
    PROVE  timed' \subseteq Users /\ timed \subseteq timed'
                  /\ timed' \subseteq timed \cup {UserOf(c)}
                  /\ (count[UserOf(c)] > 0 => UserOf(c) \in timed')
BY WaitingFacts DEF IInv, GatewayTypeOK, SetTimer

\* The response is stored under a key that there is.
LEMMA StoreTypes ==
    ASSUME IInv, NEW c \in Calls, Waiting(c), StoreResponse(c)
    PROVE  /\ cache' \in [Keys -> Calls \cup {None}]
           /\ cache'[KeyOf(c)] = c
           /\ \A k \in Keys : k # KeyOf(c) => cache'[k] = cache[k]
BY WaitingFacts DEF IInv, GatewayTypeOK, StoreResponse

\* An admitted call keeps the types.
LEMMA AdmitTypes ==
    ASSUME IInv, NEW c \in Calls, Waiting(c), Admit(c)
    PROVE  /\ CallTypes'
           /\ admitted' \in [Users -> Nat]
           /\ admitted'[UserOf(c)] = admitted[UserOf(c)] + 1
           /\ \A u \in Users : u # UserOf(c) => admitted'[u] = admitted[u]
<1>1. UserOf(c) \in Users /\ admitted \in [Users -> Nat] /\ CallTypes
  BY WaitingFacts, TypeParts DEF IInv, GatewayTypeOK
<1>2. admitted[UserOf(c)] + 1 \in Nat
  BY <1>1
<1>3. CallTypes'
  <2>1. CASE Goto(c, "lookup")
    BY <2>1, <1>1, GotoTypes, Names DEF Waiting
  <2>2. CASE Answer(c, "invalid")
    BY <2>2, <1>1, AnswerTypes, Names DEF Answer
  <2>3. QED  BY <2>1, <2>2 DEF Admit
<1>4. QED  BY <1>1, <1>2, <1>3 DEF Admit

\* Every step keeps the types.
LEMMA TypeStep ==
    ASSUME IInv, Next
    PROVE  GatewayTypeOK'
<1> DEFINE Goal == RedisTypes' /\ ProcessTypes' /\ CallTypes' /\ TopicTypes'
<1>1. RedisTypes /\ ProcessTypes /\ CallTypes /\ TopicTypes
  BY TypeParts DEF IInv
<1>2. faults \in 0..MaxFaults
  BY <1>1 DEF TopicTypes
<1> USE DEF redisVars, processVars, callVars, topicVars, NoFault
<1>3. ASSUME NEW c \in Calls, NEW g \in Processes, NEW r \in Requests,
             Receive(c, g, r)
      PROVE  Goal
  BY <1>1, <1>3, Names
     DEF Receive, RedisTypes, ProcessTypes, CallTypes, TopicTypes
<1>4. ASSUME NEW c \in Calls, Incr(c)
      PROVE  Goal
  <2>1. Waiting(c) /\ pc[c] # "done"
    BY <1>4 DEF Incr, Waiting
  <2>2. count' \in [Users -> Nat]
    BY <2>1, <1>4, CountTypes DEF Incr
  <2>3. CallTypes' /\ admitted' \in [Users -> Nat]
    <3>1. CASE Goto(c, "expire") /\ UNCHANGED admitted
      BY <3>1, <2>1, <1>1, GotoTypes, Names DEF RedisTypes
    <3>2. CASE Admit(c)
      BY <3>2, <2>1, AdmitTypes
    <3>3. CASE Answer(c, "limited") /\ UNCHANGED admitted
      BY <3>3, <1>1, AnswerTypes, Names DEF Answer, RedisTypes
    <3>4. QED  BY <3>1, <3>2, <3>3, <1>4 DEF Incr
  <2>4. QED
    BY <2>2, <2>3, <1>1, <1>4 DEF Incr, RedisTypes, ProcessTypes, TopicTypes
<1>5. ASSUME NEW c \in Calls, Expire(c)
      PROVE  Goal
  <2>1. Waiting(c)
    BY <1>5 DEF Expire, Waiting
  <2>2. CallTypes' /\ admitted' \in [Users -> Nat] /\ timed' \subseteq Users
    BY <2>1, <1>5, AdmitTypes, TimerTypes DEF Expire
  <2>3. QED
    BY <2>2, <1>1, <1>5 DEF Expire, RedisTypes, ProcessTypes, TopicTypes
<1>6. ASSUME NEW c \in Calls, Lookup(c)
      PROVE  Goal
  <2>1. Waiting(c) /\ pc[c] # "done"
    BY <1>6 DEF Lookup, Waiting
  <2>2. KeyOf(c) \in Keys /\ process[c] \in Processes
    BY <2>1, WaitingFacts
  <2>3. CASE /\ cache[KeyOf(c)] # None
             /\ AnswerWith(c, "accepted", cache[KeyOf(c)])
             /\ UNCHANGED <<producer, health>>
    <3>1. cache[KeyOf(c)] \in Calls
      BY <2>2, <2>3, <1>1 DEF RedisTypes
    <3>2. CallTypes'
      BY <3>1, <2>3, <1>1, AnswerTypes, Names
    <3>3. QED
      BY <3>2, <2>3, <1>1, <1>6 DEF Lookup, RedisTypes, ProcessTypes, TopicTypes
  <2>4. CASE Answer(c, "open") /\ UNCHANGED <<producer, health>>
    <3>1. CallTypes'
      BY <2>4, <1>1, AnswerTypes, Names DEF Answer
    <3>2. QED
      BY <3>1, <2>4, <1>1, <1>6 DEF Lookup, RedisTypes, ProcessTypes, TopicTypes
  <2>5. CASE TakeProducer(c)
    <3>1. CASE producer[process[c]] = None
      <4>1. CallTypes'
        BY <3>1, <2>1, <2>5, <1>1, GotoTypes, Names DEF TakeProducer
      <4>2. QED
        BY <4>1, <3>1, <2>5, <1>1, <1>6
           DEF Lookup, TakeProducer, RedisTypes, ProcessTypes, TopicTypes
    <3>2. CASE producer[process[c]] # None
      <4>1. producer[process[c]] \in Calls
        BY <3>2, <2>2, <1>1 DEF ProcessTypes
      <4>2. PICK step \in {"closed", "send"} :
               /\ pc' = [pc EXCEPT ![c] = step]
               /\ prod' = [prod EXCEPT ![c] = producer[process[c]]]
               /\ UNCHANGED <<process, request, answer, producer, health>>
        BY <3>2, <2>5 DEF TakeProducer
      <4>3. step \in Steps \ {"done"}
        BY <4>2, Names
      <4>4. CallTypes'
        BY <4>1, <4>2, <4>3, <2>1, <1>1, TakeTypes
      <4>5. QED
        BY <4>2, <4>4, <1>1, <1>6 DEF Lookup, RedisTypes, ProcessTypes, TopicTypes
    <3>3. QED  BY <3>1, <3>2
  <2>6. QED  BY <2>3, <2>4, <2>5, <1>6 DEF Lookup
<1>7. ASSUME NEW c \in Calls, Started(c)
      PROVE  Goal
  <2>1. Waiting(c) /\ pc[c] # "done"
    BY <1>7 DEF Started, Waiting
  <2>2. CASE producer[process[c]] = None
    <3>1. CallTypes'
      BY <2>1, <2>2, <1>1, <1>7, LeaveTypes, Names DEF Started
    <3>2. QED
      BY <3>1, <1>1, <1>7 DEF Started, RedisTypes, ProcessTypes, TopicTypes
  <2>3. CASE producer[process[c]] # None
    <3>1. producer[process[c]] \in Calls
      BY <2>1, <2>3, <1>1, WaitingFacts DEF ProcessTypes
    <3>2. PICK step \in {"closed", "send"} :
             /\ pc' = [pc EXCEPT ![c] = step]
             /\ prod' = [prod EXCEPT ![c] = producer[process[c]]]
             /\ UNCHANGED <<process, request, answer>>
      BY <2>3, <1>7 DEF Started
    <3>3. step \in Steps \ {"done"}
      BY <3>2, Names
    <3>4. CallTypes'
      BY <3>1, <3>2, <3>3, <2>1, <1>1, TakeTypes
    <3>5. QED
      BY <3>4, <1>1, <1>7 DEF Started, RedisTypes, ProcessTypes, TopicTypes
  <2>4. QED  BY <2>2, <2>3
<1>8. ASSUME NEW c \in Calls, SendAcknowledged(c)
      PROVE  Goal
  <2>1. CallTypes'
    BY <1>1, <1>8, LeaveTypes, Names DEF SendAcknowledged
  <2>2. QED
    BY <2>1, <1>1, <1>8
       DEF SendAcknowledged, RecordSuccess, RedisTypes, ProcessTypes, TopicTypes
<1>9. ASSUME NEW c \in Calls, SendTimesOut(c)
      PROVE  Goal
  <2>1. Waiting(c)
    BY <1>9 DEF SendTimesOut, Waiting
  <2>2. RedisTypes' /\ ProcessTypes' /\ CallTypes' /\ queued' = queued
    BY <2>1, <1>9, ResetTypes, Names DEF SendTimesOut
  <2>3. faults' \in 0..MaxFaults
    BY <1>2, <1>9, FaultTypes DEF SendTimesOut
  <2>4. QED  BY <2>2, <2>3, <1>1, <1>9 DEF SendTimesOut, TopicTypes
<1>10. ASSUME NEW c \in Calls, SendFails(c)
      PROVE  Goal
  <2>1. Waiting(c)
    BY <1>10 DEF SendFails, Waiting
  <2>2. RedisTypes' /\ ProcessTypes' /\ CallTypes' /\ queued' = queued
    BY <2>1, <1>10, ResetTypes, Names DEF SendFails
  <2>3. faults' \in 0..MaxFaults
    BY <1>2, <1>10, FaultTypes DEF SendFails
  <2>4. QED  BY <2>2, <2>3, <1>1, <1>10 DEF SendFails, TopicTypes
<1>11. ASSUME NEW c \in Calls, Stopped(c)
      PROVE  Goal
  <2>1. CallTypes'
    BY <1>1, <1>11, AnswerTypes, Names DEF Stopped, Answer
  <2>2. QED
    BY <2>1, <1>1, <1>11 DEF Stopped, RedisTypes, ProcessTypes, TopicTypes
<1>12. ASSUME NEW c \in Calls, CacheResponse(c)
      PROVE  Goal
  <2>1. Waiting(c)
    BY <1>12 DEF CacheResponse, Waiting
  <2>2. cache' \in [Keys -> Calls \cup {None}]
    BY <2>1, <1>12, StoreTypes DEF CacheResponse
  <2>3. CallTypes'
    BY <1>1, <1>12, AnswerTypes, Names DEF CacheResponse, Answer
  <2>4. QED
    BY <2>2, <2>3, <1>1, <1>12
       DEF CacheResponse, RedisTypes, ProcessTypes, TopicTypes
<1>13. ASSUME NEW c \in Calls, StartFails(c)
      PROVE  Goal
  <2>1. CallTypes' /\ faults' \in 0..MaxFaults
    BY <1>1, <1>2, <1>13, AnswerTypes, FaultTypes, Names DEF StartFails, Answer
  <2>2. QED
    BY <2>1, <1>1, <1>13 DEF StartFails, RedisTypes, ProcessTypes, TopicTypes
<1>14. ASSUME NEW c \in Calls, StopFails(c)
      PROVE  Goal
  <2>1. CallTypes' /\ faults' \in 0..MaxFaults
    BY <1>1, <1>2, <1>14, AnswerTypes, FaultTypes, Names DEF StopFails, Answer
  <2>2. QED
    BY <2>1, <1>1, <1>14 DEF StopFails, RedisTypes, ProcessTypes, TopicTypes
<1>15. ASSUME NEW c \in Calls, RedisRaises(c)
      PROVE  Goal
  <2>1. Waiting(c)
    BY <1>15 DEF RedisRaises, Waiting
  <2>2. CallTypes' /\ faults' \in 0..MaxFaults
    BY <1>1, <1>2, <1>15, AnswerTypes, FaultTypes, Names DEF RedisRaises, Answer
  <2>3. /\ count' \in [Users -> Nat]
        /\ timed' \subseteq Users
        /\ cache' \in [Keys -> Calls \cup {None}]
    BY <2>1, <1>1, <1>15, CountTypes, TimerTypes, StoreTypes
       DEF RedisRaises, RedisTypes
  <2>4. QED
    BY <2>2, <2>3, <1>1, <1>15 DEF RedisRaises, RedisTypes, ProcessTypes, TopicTypes
<1>16. ASSUME NEW g \in Processes, HalfOpen(g)
      PROVE  Goal
  BY <1>1, <1>16 DEF HalfOpen, RedisTypes, ProcessTypes, CallTypes, TopicTypes
<1>17. ASSUME NEW g \in Processes, CrashProcess(g)
      PROVE  Goal
  <2> DEFINE mine == {c \in Calls : process[c] = g /\ pc[c] # "done"}
             lost == [c \in Calls |->
                         IF c \in mine THEN <<"lost", c>> ELSE answer[c]]
  <2>1. /\ pc' = [c \in Calls |-> IF c \in mine THEN "done" ELSE pc[c]]
        /\ prod' = [c \in Calls |-> IF c \in mine THEN None ELSE prod[c]]
        /\ answer' = lost
        /\ UNCHANGED <<process, request, redisVars, queued>>
    BY <1>17 DEF CrashProcess
  <2>2. \A c \in Calls : <<"lost", c>> \in Statuses \X Calls /\ <<"lost", c>> # None
    BY NoneIsNobody, Names
  <2>3. /\ lost \in [Calls -> (Statuses \X Calls) \cup {None}]
        /\ \A c \in mine : lost[c] # None
        /\ \A c \in Calls \ mine : lost[c] = answer[c]
    <3> HIDE DEF mine
    <3>1. mine \subseteq Calls
      BY DEF mine
    <3>2. answer \in [Calls -> (Statuses \X Calls) \cup {None}]
      BY <1>1 DEF CallTypes
    <3>3. QED  BY <2>2, <3>1, <3>2
  <2> HIDE DEF lost
  <2>4. CallTypes'
    BY <2>1, <2>3, <1>1, Names DEF CallTypes
  <2>5. ProcessTypes'
    BY <1>1, <1>17 DEF CrashProcess, ProcessTypes
  <2>6. faults' \in 0..MaxFaults /\ late' \subseteq Calls
    BY <1>1, <1>2, <1>17, FaultTypes DEF CrashProcess, TopicTypes
  <2>7. QED  BY <2>1, <2>4, <2>5, <2>6, <1>1 DEF RedisTypes, TopicTypes
<1>18. ASSUME NEW u \in Users, WindowEnds(u)
      PROVE  Goal
  BY <1>1, <1>18 DEF WindowEnds, RedisTypes, ProcessTypes, CallTypes, TopicTypes
<1>19. ASSUME NEW k \in Keys, CacheExpires(k)
      PROVE  Goal
  <2>1. faults' \in 0..MaxFaults
    BY <1>2, <1>19, FaultTypes DEF CacheExpires
  <2>2. QED
    BY <2>1, <1>1, <1>19
       DEF CacheExpires, RedisTypes, ProcessTypes, CallTypes, TopicTypes
<1>20. ASSUME NEW c \in Calls, LateAppend(c)
      PROVE  Goal
  BY <1>1, <1>20 DEF LateAppend, RedisTypes, ProcessTypes, CallTypes, TopicTypes
<1>21. Goal
  BY <1>3, <1>4, <1>5, <1>6, <1>7, <1>8, <1>9, <1>10, <1>11, <1>12, <1>13, <1>14,
     <1>15, <1>16, <1>17, <1>18, <1>19, <1>20
     DEF Next, CallStep, Failure, Environment
<1>22. QED
  BY <1>21 DEF GatewayTypeOK, RedisTypes, ProcessTypes, CallTypes, TopicTypes

-----------------------------------------------------------------------------
(* Calls, and what is queued.                                               *)

\* Every step keeps who has been received.
LEMMA ReceivedStep ==
    ASSUME IInv, Next
    PROVE  Received'
<1>1. Received /\ CallTypes
  BY TypeParts DEF IInv
<1> USE DEF callVars, Received, CallTypes
<1>2. ASSUME NEW c \in Calls, NEW g \in Processes, NEW r \in Requests,
             Receive(c, g, r)
      PROVE  Received'
  BY <1>2, <1>1 DEF Receive
<1>3. ASSUME NEW c \in Calls, Incr(c)
      PROVE  Received'
  BY <1>3, <1>1 DEF Incr, Admit, Goto, Answer, AnswerWith
<1>4. ASSUME NEW c \in Calls, Expire(c)
      PROVE  Received'
  BY <1>4, <1>1 DEF Expire, Admit, Goto, Answer, AnswerWith
<1>5. ASSUME NEW c \in Calls, Lookup(c)
      PROVE  Received'
  BY <1>5, <1>1 DEF Lookup, TakeProducer, Goto, Answer, AnswerWith
<1>6. ASSUME NEW c \in Calls, Started(c)
      PROVE  Received'
  BY <1>6, <1>1 DEF Started
<1>7. ASSUME NEW c \in Calls, SendAcknowledged(c)
      PROVE  Received'
  BY <1>7, <1>1 DEF SendAcknowledged, RecordSuccess
<1>8. ASSUME NEW c \in Calls, SendTimesOut(c)
      PROVE  Received'
  BY <1>8, <1>1
     DEF SendTimesOut, FailAndReset, RecordFailure, Answer, AnswerWith
<1>9. ASSUME NEW c \in Calls, SendFails(c)
      PROVE  Received'
  BY <1>9, <1>1 DEF SendFails, FailAndReset, RecordFailure, Answer, AnswerWith
<1>10. ASSUME NEW c \in Calls, Stopped(c)
      PROVE  Received'
  BY <1>10, <1>1 DEF Stopped, Answer, AnswerWith
<1>11. ASSUME NEW c \in Calls, CacheResponse(c)
      PROVE  Received'
  BY <1>11, <1>1 DEF CacheResponse, Answer, AnswerWith
<1>12. ASSUME NEW c \in Calls, StartFails(c)
      PROVE  Received'
  BY <1>12, <1>1 DEF StartFails, Answer, AnswerWith
<1>13. ASSUME NEW c \in Calls, StopFails(c)
      PROVE  Received'
  BY <1>13, <1>1 DEF StopFails, Answer, AnswerWith
<1>14. ASSUME NEW c \in Calls, RedisRaises(c)
      PROVE  Received'
  BY <1>14, <1>1 DEF RedisRaises, Answer, AnswerWith
<1>15. ASSUME NEW g \in Processes, HalfOpen(g)
      PROVE  Received'
  BY <1>15, <1>1 DEF HalfOpen
<1>16. ASSUME NEW g \in Processes, CrashProcess(g)
      PROVE  Received'
  BY <1>16, <1>1, NoneIsNobody DEF CrashProcess
<1>17. ASSUME NEW u \in Users, WindowEnds(u)
      PROVE  Received'
  BY <1>17, <1>1 DEF WindowEnds
<1>18. ASSUME NEW k \in Keys, CacheExpires(k)
      PROVE  Received'
  BY <1>18, <1>1 DEF CacheExpires
<1>19. ASSUME NEW c \in Calls, LateAppend(c)
      PROVE  Received'
  BY <1>19, <1>1 DEF LateAppend
<1>20. QED
  BY <1>2, <1>3, <1>4, <1>5, <1>6, <1>7, <1>8, <1>9, <1>10, <1>11, <1>12,
    <1>13, <1>14, <1>15, <1>16, <1>17, <1>18, <1>19
     DEF Next, CallStep, Failure, Environment

\* Every step keeps the stored and the accepted responses queued.
LEMMA QueuedStep ==
    ASSUME IInv, Next
    PROVE  StoredIsQueued' /\ AcceptedIsQueued'
<1> DEFINE Goal == StoredIsQueued' /\ AcceptedIsQueued'
<1>1. StoredIsQueued /\ AcceptedIsQueued /\ CallTypes
  BY TypeParts DEF IInv
<1> USE DEF redisVars, callVars, topicVars, StoredIsQueued, AcceptedIsQueued,
            Done, CallTypes
<1>2. ASSUME NEW c \in Calls, NEW g \in Processes, NEW r \in Requests,
             Receive(c, g, r)
      PROVE  Goal
  BY <1>2, <1>1, NoneIsNobody DEF Receive
<1>3. ASSUME NEW c \in Calls, Incr(c)
      PROVE  Goal
  BY <1>3, <1>1, NoneIsNobody DEF Incr, Admit, Goto, Answer, AnswerWith
<1>4. ASSUME NEW c \in Calls, Expire(c)
      PROVE  Goal
  BY <1>4, <1>1, NoneIsNobody DEF Expire, Admit, Goto, Answer, AnswerWith
<1>5. ASSUME NEW c \in Calls, Lookup(c)
      PROVE  Goal
  <2>1. KeyOf(c) \in Keys
    BY <1>5, WaitingFacts DEF Lookup, Waiting
  <2>2. CASE /\ cache[KeyOf(c)] # None
             /\ AnswerWith(c, "accepted", cache[KeyOf(c)])
    BY <1>5, <2>1, <2>2, <1>1, NoneIsNobody DEF Lookup, AnswerWith
  <2>3. CASE Answer(c, "open")
    BY <1>5, <2>3, <1>1, NoneIsNobody DEF Lookup, Answer, AnswerWith
  <2>4. CASE TakeProducer(c)
    BY <1>5, <2>4, <1>1, NoneIsNobody DEF Lookup, TakeProducer, Goto
  <2>5. QED  BY <1>5, <2>2, <2>3, <2>4 DEF Lookup
<1>6. ASSUME NEW c \in Calls, Started(c)
      PROVE  Goal
  BY <1>6, <1>1, NoneIsNobody DEF Started
<1>7. ASSUME NEW c \in Calls, SendAcknowledged(c)
      PROVE  Goal
  BY <1>7, <1>1, NoneIsNobody DEF SendAcknowledged, RecordSuccess
<1>8. ASSUME NEW c \in Calls, SendTimesOut(c)
      PROVE  Goal
  BY <1>8, <1>1, NoneIsNobody
     DEF SendTimesOut, FailAndReset, RecordFailure, Answer, AnswerWith
<1>9. ASSUME NEW c \in Calls, SendFails(c)
      PROVE  Goal
  BY <1>9, <1>1, NoneIsNobody
     DEF SendFails, FailAndReset, RecordFailure, Answer, AnswerWith
<1>10. ASSUME NEW c \in Calls, Stopped(c)
      PROVE  Goal
  BY <1>10, <1>1, NoneIsNobody DEF Stopped, Answer, AnswerWith
<1>11. ASSUME NEW c \in Calls, CacheResponse(c)
      PROVE  Goal
  <2>1. \A k \in Keys : cache'[k] = c \/ cache'[k] = cache[k]
    BY <1>11, StoreTypes DEF CacheResponse, Waiting
  <2>2. QED
    BY <1>11, <2>1, <1>1, NoneIsNobody DEF CacheResponse, Answer, AnswerWith
<1>12. ASSUME NEW c \in Calls, StartFails(c)
      PROVE  Goal
  BY <1>12, <1>1, NoneIsNobody DEF StartFails, Answer, AnswerWith
<1>13. ASSUME NEW c \in Calls, StopFails(c)
      PROVE  Goal
  BY <1>13, <1>1, NoneIsNobody DEF StopFails, Answer, AnswerWith
<1>14. ASSUME NEW c \in Calls, RedisRaises(c)
      PROVE  Goal
  <2>1. \A k \in Keys : \/ cache'[k] = cache[k]
                        \/ pc[c] = "cache" /\ cache'[k] = c
    BY <1>14, StoreTypes DEF RedisRaises, Waiting
  <2>2. QED
    BY <1>14, <2>1, <1>1, NoneIsNobody DEF RedisRaises, Answer, AnswerWith
<1>15. ASSUME NEW g \in Processes, HalfOpen(g)
      PROVE  Goal
  BY <1>15, <1>1, NoneIsNobody DEF HalfOpen
<1>16. ASSUME NEW g \in Processes, CrashProcess(g)
      PROVE  Goal
  BY <1>16, <1>1, NoneIsNobody DEF CrashProcess
<1>17. ASSUME NEW u \in Users, WindowEnds(u)
      PROVE  Goal
  BY <1>17, <1>1, NoneIsNobody DEF WindowEnds
<1>18. ASSUME NEW k \in Keys, CacheExpires(k)
      PROVE  Goal
  BY <1>18, <1>1, NoneIsNobody DEF CacheExpires
<1>19. ASSUME NEW c \in Calls, LateAppend(c)
      PROVE  Goal
  BY <1>19, <1>1, NoneIsNobody DEF LateAppend
<1>20. QED
  BY <1>2, <1>3, <1>4, <1>5, <1>6, <1>7, <1>8, <1>9, <1>10, <1>11, <1>12,
    <1>13, <1>14, <1>15, <1>16, <1>17, <1>18, <1>19
     DEF Next, CallStep, Failure, Environment

-----------------------------------------------------------------------------
(* The limiter and the breaker.                                             *)

\* A step that changes no counter and sends no call to the timer keeps
\* Limiter.
LEMMA LimiterFrame ==
    ASSUME Limiter, UNCHANGED <<count, timed, admitted>>,
           \A c \in Calls : pc'[c] = "expire" =>
              pc[c] = "expire" /\ request'[c] = request[c]
    PROVE  Limiter'
BY DEF Limiter, UserOf

\* A step that changes no counter and takes no call from the timer keeps
\* UntimedCostsFailures.
LEMMA UntimedFrame ==
    ASSUME UntimedCostsFailures, UNCHANGED <<count, timed, faults>>,
           \A c \in Calls : pc[c] = "expire" =>
              pc'[c] = "expire" /\ request'[c] = request[c]
    PROVE  UntimedCostsFailures'
BY DEF UntimedCostsFailures, UserOf

\* What a step of the call c does to the calls at the timer.
LEMMA TimerCalls ==
    ASSUME IInv, NEW c \in Calls, Waiting(c), NEW step, pc' = [pc EXCEPT ![c] = step],
           UNCHANGED request
    PROVE  \A d \in Calls : /\ UserOf(d)' = UserOf(d)
                            /\ d # c => pc'[d] = pc[d]
                            /\ pc'[c] = step
BY DEF IInv, GatewayTypeOK, UserOf

\* Every step keeps Limiter.
LEMMA LimiterStep ==
    ASSUME IInv, Next
    PROVE  Limiter'
<1>1. Limiter
  BY DEF IInv
<1>2. RedisTypes /\ CallTypes
  BY TypeParts DEF IInv
<1>3. pc \in [Calls -> Steps]
  BY <1>2 DEF CallTypes
<1>4. \A d \in Calls : pc[d] = "expire" => UserOf(d) \in Users
  BY WaitingFacts DEF Waiting
<1> USE DEF redisVars, callVars
<1>5. ASSUME NEW c \in Calls, NEW g \in Processes, NEW r \in Requests,
             Receive(c, g, r)
      PROVE  Limiter'
  BY <1>5, <1>1, <1>3, LimiterFrame DEF Receive
<1>6. ASSUME NEW c \in Calls, Incr(c)
      PROVE  Limiter'
  <2> DEFINE u == UserOf(c)
  <2>1. Waiting(c) /\ pc[c] = "incr" /\ UNCHANGED <<timed, request>>
    BY <1>6 DEF Incr, Waiting, Admit, Goto, Answer, AnswerWith
  <2>2. u \in Users
    BY <2>1, WaitingFacts
  <2>3. /\ count'[u] = count[u] + 1
        /\ \A v \in Users : v # u => count'[v] = count[v]
    BY <2>1, <1>6, CountTypes DEF Incr
  <2>4. CASE count'[u] = 1 /\ Goto(c, "expire") /\ UNCHANGED admitted
    <3>1. count[u] = 0 /\ admitted[u] = 0
      BY <2>2, <2>3, <2>4, <1>1, <1>2 DEF RedisTypes, Limiter
    <3>2. u \notin timed /\ \A d \in Calls : pc[d] = "expire" => UserOf(d) # u
      BY <3>1, <2>2, <1>1, <1>2, <1>4, GatewayAssumption DEF RedisTypes, Limiter
    <3>3. \A d \in Calls : /\ UserOf(d)' = UserOf(d)
                           /\ pc'[d] = "expire" <=> pc[d] = "expire" \/ d = c
      BY <2>1, <2>4, TimerCalls DEF Goto
    <3> HIDE DEF u
    <3>4. QED
      BY <3>1, <3>2, <3>3, <2>1, <2>2, <2>3, <2>4, <1>1, <1>2, <1>4, GatewayAssumption
         DEF RedisTypes, Limiter, u
  <2>5. CASE count'[u] \in 2..RateLimit /\ Admit(c)
    <3>1. /\ admitted'[u] = admitted[u] + 1
          /\ \A v \in Users : v # u => admitted'[v] = admitted[v]
      BY <2>1, <2>5, AdmitTypes
    <3>2. \A d \in Calls : /\ UserOf(d)' = UserOf(d)
                           /\ pc'[d] = "expire" => pc[d] = "expire"
      BY <2>1, <2>5, TimerCalls DEF Admit, Goto, Answer, AnswerWith
    <3>3. count[u] >= 1 /\ count[u] + 1 <= RateLimit /\ admitted[u] + 1 <= RateLimit
      BY <2>2, <2>3, <2>5, <1>1, <1>2, <1>4, GatewayAssumption DEF RedisTypes, Limiter
    <3> HIDE DEF u
    <3>4. QED
      BY <3>1, <3>2, <3>3, <2>1, <2>2, <2>3, <2>5, <1>1, <1>2, <1>4, GatewayAssumption
         DEF RedisTypes, Limiter
  <2>6. CASE Answer(c, "limited") /\ UNCHANGED admitted
    <3>1. \A d \in Calls : /\ UserOf(d)' = UserOf(d)
                           /\ pc'[d] = "expire" => pc[d] = "expire"
      BY <2>1, <2>6, TimerCalls DEF Answer, AnswerWith
    <3> HIDE DEF u
    <3>2. QED
      BY <3>1, <2>1, <2>2, <2>3, <2>6, <1>1, <1>2, <1>4, GatewayAssumption
         DEF RedisTypes, Limiter
  <2>7. QED  BY <2>4, <2>5, <2>6, <1>6 DEF Incr
<1>7. ASSUME NEW c \in Calls, Expire(c)
      PROVE  Limiter'
  <2> DEFINE u == UserOf(c)
  <2>1. Waiting(c) /\ pc[c] = "expire" /\ UNCHANGED <<count, request>>
    BY <1>7 DEF Expire, Waiting, Admit, Goto, Answer, AnswerWith
  <2>2. u \in Users
    BY <2>1, WaitingFacts
  <2>3. timed' \subseteq timed \cup {u}
    BY <2>1, <1>7, TimerTypes DEF Expire
  <2>4. /\ admitted'[u] = admitted[u] + 1
        /\ \A v \in Users : v # u => admitted'[v] = admitted[v]
    BY <2>1, <1>7, AdmitTypes DEF Expire
  <2>5. /\ admitted[u] + 1 <= count[u] /\ admitted[u] + 1 <= RateLimit
        /\ \A d \in Calls : pc[d] = "expire" /\ UserOf(d) = u => d = c
    BY <2>1, <1>1 DEF Limiter
  <2>6. \A d \in Calls : /\ UserOf(d)' = UserOf(d)
                         /\ pc'[d] = "expire" => pc[d] = "expire" /\ d # c
    BY <2>1, <1>7, TimerCalls DEF Expire, Admit, Goto, Answer, AnswerWith
  <2> HIDE DEF u
  <2>7. \A v \in timed' : count'[v] > 0
    BY <2>1, <2>2, <2>3, <2>5, <1>1, <1>2 DEF Limiter, RedisTypes
  <2>8. QED
    BY <2>1, <2>2, <2>3, <2>4, <2>5, <2>6, <2>7, <1>1, <1>2, <1>4, GatewayAssumption
       DEF RedisTypes, Limiter
<1>8. ASSUME NEW c \in Calls, Lookup(c)
      PROVE  Limiter'
  BY <1>8, <1>1, <1>3, LimiterFrame
     DEF Lookup, TakeProducer, Goto, Answer, AnswerWith
<1>9. ASSUME NEW c \in Calls, Started(c)
      PROVE  Limiter'
  BY <1>9, <1>1, <1>3, LimiterFrame DEF Started
<1>10. ASSUME NEW c \in Calls, SendAcknowledged(c)
      PROVE  Limiter'
  BY <1>10, <1>1, <1>3, LimiterFrame DEF SendAcknowledged, RecordSuccess
<1>11. ASSUME NEW c \in Calls, SendTimesOut(c)
      PROVE  Limiter'
  BY <1>11, <1>1, <1>3, LimiterFrame
     DEF SendTimesOut, FailAndReset, RecordFailure, Answer, AnswerWith
<1>12. ASSUME NEW c \in Calls, SendFails(c)
      PROVE  Limiter'
  BY <1>12, <1>1, <1>3, LimiterFrame
     DEF SendFails, FailAndReset, RecordFailure, Answer, AnswerWith
<1>13. ASSUME NEW c \in Calls, Stopped(c)
      PROVE  Limiter'
  BY <1>13, <1>1, <1>3, LimiterFrame DEF Stopped, Answer, AnswerWith
<1>14. ASSUME NEW c \in Calls, CacheResponse(c)
      PROVE  Limiter'
  BY <1>14, <1>1, <1>3, LimiterFrame DEF CacheResponse, Answer, AnswerWith
<1>15. ASSUME NEW c \in Calls, StartFails(c)
      PROVE  Limiter'
  BY <1>15, <1>1, <1>3, LimiterFrame DEF StartFails, Answer, AnswerWith
<1>16. ASSUME NEW c \in Calls, StopFails(c)
      PROVE  Limiter'
  BY <1>16, <1>1, <1>3, LimiterFrame DEF StopFails, Answer, AnswerWith
<1>17. ASSUME NEW c \in Calls, RedisRaises(c)
      PROVE  Limiter'
  <2>1. Waiting(c) /\ UNCHANGED <<admitted, request>>
    BY <1>17 DEF RedisRaises, Waiting, Answer, AnswerWith
  <2>2. \A d \in Calls : /\ UserOf(d)' = UserOf(d)
                         /\ pc'[d] = "expire" => pc[d] = "expire" /\ d # c
    BY <2>1, <1>17, TimerCalls DEF RedisRaises, Answer, AnswerWith
  <2>3. CASE UNCHANGED <<count, timed>>
    BY <2>1, <2>2, <2>3, <1>1 DEF Limiter
  <2>4. CASE pc[c] = "incr" /\ CountOne(c) /\ UNCHANGED timed
    <3>1. /\ UserOf(c) \in Users /\ count'[UserOf(c)] = count[UserOf(c)] + 1
          /\ \A u \in Users : u # UserOf(c) => count'[u] = count[u]
      BY <2>1, <2>4, WaitingFacts, CountTypes
    <3>2. \A u \in Users : count'[u] >= count[u] /\ count'[u] \in Nat
      BY <3>1, <1>2 DEF RedisTypes
    <3>3. timed \subseteq Users
      BY <1>2 DEF RedisTypes
    <3>4. QED
      BY <3>2, <3>3, <2>1, <2>2, <2>4, <1>1, <1>2, <1>4, GatewayAssumption
         DEF RedisTypes, Limiter
  <2>5. CASE pc[c] = "expire" /\ SetTimer(c) /\ UNCHANGED count
    <3>1. timed' \subseteq timed \cup {UserOf(c)}
      BY <2>1, <2>5, TimerTypes
    <3>2. \A d \in Calls : pc'[d] = "expire" => UserOf(d) # UserOf(c)
      BY <2>2, <2>5, <1>1 DEF Limiter
    <3>3. \A u \in timed' : count[u] > 0
      BY <2>5, <1>1, <1>2 DEF SetTimer, Limiter
    <3>4. QED
      BY <3>1, <3>2, <3>3, <2>1, <2>2, <2>5, <1>1 DEF Limiter
  <2>6. QED  BY <2>3, <2>4, <2>5, <1>17 DEF RedisRaises
<1>18. ASSUME NEW g \in Processes, HalfOpen(g)
      PROVE  Limiter'
  BY <1>18, <1>1, <1>3, LimiterFrame DEF HalfOpen
<1>19. ASSUME NEW g \in Processes, CrashProcess(g)
      PROVE  Limiter'
  BY <1>19, <1>1, <1>3, LimiterFrame DEF CrashProcess
<1>20. ASSUME NEW u \in Users, WindowEnds(u)
      PROVE  Limiter'
  <2>1. /\ timed' = timed \ {u} /\ count'[u] = 0 /\ admitted'[u] = 0
        /\ \A v \in Users : v # u => count'[v] = count[v] /\ admitted'[v] = admitted[v]
    BY <1>20, <1>2 DEF WindowEnds, RedisTypes
  <2>2. \A d \in Calls : pc[d] = "expire" => UserOf(d) # u
    BY <1>20, <1>1 DEF WindowEnds, Limiter
  <2>3. UNCHANGED <<pc, request>>
    BY <1>20 DEF WindowEnds
  <2>4. \A d \in Calls : UserOf(d)' = UserOf(d)
    BY <2>3 DEF UserOf
  <2>5. QED
    BY <2>1, <2>2, <2>3, <2>4, <1>1, <1>2, <1>4, GatewayAssumption
       DEF RedisTypes, Limiter
<1>21. ASSUME NEW k \in Keys, CacheExpires(k)
      PROVE  Limiter'
  BY <1>21, <1>1, <1>3, LimiterFrame DEF CacheExpires
<1>22. ASSUME NEW c \in Calls, LateAppend(c)
      PROVE  Limiter'
  BY <1>22, <1>1, <1>3, LimiterFrame DEF LateAppend
<1>23. QED
  BY <1>5, <1>6, <1>7, <1>8, <1>9, <1>10, <1>11, <1>12, <1>13, <1>14, <1>15,
    <1>16, <1>17, <1>18, <1>19, <1>20, <1>21, <1>22
     DEF Next, CallStep, Failure, Environment

\* Every step keeps UntimedCostsFailures.
LEMMA UntimedStep ==
    ASSUME IInv, Next
    PROVE  UntimedCostsFailures'
<1>1. UntimedCostsFailures
  BY DEF IInv
<1>2. pc \in [Calls -> Steps]
  BY TypeParts DEF IInv, CallTypes
<1>3. faults \in 0..MaxFaults /\ faults \in Nat
  BY TypeParts, GatewayAssumption DEF IInv, TopicTypes
<1>4. RedisTypes
  BY TypeParts DEF IInv
<1> USE DEF redisVars, callVars, NoFault
<1>5. ASSUME NEW c \in Calls, NEW g \in Processes, NEW r \in Requests,
             Receive(c, g, r)
      PROVE  UntimedCostsFailures'
  BY <1>5, <1>1, <1>2, UntimedFrame DEF Receive
<1>6. ASSUME NEW c \in Calls, Incr(c)
      PROVE  UntimedCostsFailures'
  <2> DEFINE u == UserOf(c)
  <2>1. Waiting(c) /\ pc[c] = "incr" /\ UNCHANGED <<timed, request, faults>>
    BY <1>6 DEF Incr, Waiting, Admit, Goto, Answer, AnswerWith
  <2>2. /\ u \in Users
        /\ count'[u] = count[u] + 1
        /\ \A v \in Users : v # u => count'[v] = count[v]
    BY <2>1, <1>6, WaitingFacts, CountTypes DEF Incr
  <2>3. \A d \in Calls : /\ UserOf(d)' = UserOf(d)
                         /\ pc[d] = "expire" => pc'[d] = "expire"
    BY <2>1, <1>6, TimerCalls DEF Incr, Admit, Goto, Answer, AnswerWith
  <2>4. count[u] = 0 => pc'[c] = "expire"
    BY <2>1, <2>2, <1>6, <1>2, <1>4, GatewayAssumption DEF Incr, Goto, RedisTypes
  <2> HIDE DEF u
  <2>5. QED
    <3> SUFFICES ASSUME NEW v \in Users \ timed, count'[v] > 0, faults = 0
                 PROVE  \E d \in Calls : pc'[d] = "expire" /\ UserOf(d) = v
      BY <2>1, <2>3, <1>3 DEF UntimedCostsFailures
    <3>1. CASE v # u \/ count[u] > 0
      BY <3>1, <2>2, <2>3, <1>1, <1>3 DEF UntimedCostsFailures
    <3>2. CASE v = u /\ count[u] = 0
      BY <3>2, <2>4 DEF u
    <3>3. QED  BY <3>1, <3>2, <2>2, <1>4 DEF RedisTypes
<1>7. ASSUME NEW c \in Calls, Expire(c)
      PROVE  UntimedCostsFailures'
  <2> DEFINE u == UserOf(c)
  <2>1. Waiting(c) /\ pc[c] = "expire" /\ UNCHANGED <<count, request, faults>>
    BY <1>7 DEF Expire, Waiting, Admit, Goto, Answer, AnswerWith
  <2>2. u \in timed' /\ timed \subseteq timed'
    <3>1. count[u] > 0
      BY <2>1, <1>4, WaitingFacts DEF IInv, Limiter, RedisTypes
    <3>2. QED  BY <3>1, <2>1, <1>7, TimerTypes DEF Expire
  <2>3. \A d \in Calls : /\ UserOf(d)' = UserOf(d)
                         /\ pc[d] = "expire" => pc'[d] = "expire" \/ d = c
    BY <2>1, <1>7, TimerCalls DEF Expire, Admit, Goto, Answer, AnswerWith
  <2> HIDE DEF u
  <2>4. QED
    <3> SUFFICES ASSUME NEW v \in Users \ timed', count[v] > 0, faults = 0
                 PROVE  \E d \in Calls : pc'[d] = "expire" /\ UserOf(d) = v
      BY <2>1, <2>3, <1>3 DEF UntimedCostsFailures
    <3>1. PICK d \in Calls : pc[d] = "expire" /\ UserOf(d) = v
      BY <2>2, <1>1 DEF UntimedCostsFailures
    <3>2. d # c
      BY <3>1, <2>2 DEF u
    <3>3. QED  BY <3>1, <3>2, <2>3
<1>8. ASSUME NEW c \in Calls, Lookup(c)
      PROVE  UntimedCostsFailures'
  BY <1>8, <1>1, <1>2, UntimedFrame
     DEF Lookup, TakeProducer, Goto, Answer, AnswerWith
<1>9. ASSUME NEW c \in Calls, Started(c)
      PROVE  UntimedCostsFailures'
  BY <1>9, <1>1, <1>2, UntimedFrame DEF Started
<1>10. ASSUME NEW c \in Calls, SendAcknowledged(c)
      PROVE  UntimedCostsFailures'
  BY <1>10, <1>1, <1>2, UntimedFrame DEF SendAcknowledged, RecordSuccess
<1>11. ASSUME NEW c \in Calls, SendTimesOut(c)
      PROVE  UntimedCostsFailures'
  <2>1. CASE Fault
    BY <2>1, <1>3, FaultTypes DEF UntimedCostsFailures
  <2>2. CASE UNCHANGED faults
    BY <1>11, <2>2, <1>1, <1>2, UntimedFrame
       DEF SendTimesOut, FailAndReset, RecordFailure, Answer, AnswerWith
  <2>3. QED  BY <2>1, <2>2, <1>11 DEF SendTimesOut
<1>12. ASSUME NEW c \in Calls, SendFails(c)
      PROVE  UntimedCostsFailures'
  <2>1. CASE Fault
    BY <2>1, <1>3, FaultTypes DEF UntimedCostsFailures
  <2>2. CASE UNCHANGED faults
    BY <1>12, <2>2, <1>1, <1>2, UntimedFrame
       DEF SendFails, FailAndReset, RecordFailure, Answer, AnswerWith
  <2>3. QED  BY <2>1, <2>2, <1>12 DEF SendFails
<1>13. ASSUME NEW c \in Calls, Stopped(c)
      PROVE  UntimedCostsFailures'
  BY <1>13, <1>1, <1>2, UntimedFrame DEF Stopped, Answer, AnswerWith
<1>14. ASSUME NEW c \in Calls, CacheResponse(c)
      PROVE  UntimedCostsFailures'
  BY <1>14, <1>1, <1>2, UntimedFrame DEF CacheResponse, Answer, AnswerWith
<1>15. ASSUME NEW c \in Calls, StartFails(c)
      PROVE  UntimedCostsFailures'
  BY <1>15, <1>3, FaultTypes DEF StartFails, UntimedCostsFailures
<1>16. ASSUME NEW c \in Calls, StopFails(c)
      PROVE  UntimedCostsFailures'
  BY <1>16, <1>3, FaultTypes DEF StopFails, UntimedCostsFailures
<1>17. ASSUME NEW c \in Calls, RedisRaises(c)
      PROVE  UntimedCostsFailures'
  BY <1>17, <1>3, FaultTypes DEF RedisRaises, UntimedCostsFailures
<1>18. ASSUME NEW g \in Processes, HalfOpen(g)
      PROVE  UntimedCostsFailures'
  BY <1>18, <1>1, <1>2, UntimedFrame DEF HalfOpen
<1>19. ASSUME NEW g \in Processes, CrashProcess(g)
      PROVE  UntimedCostsFailures'
  BY <1>19, <1>3, FaultTypes DEF CrashProcess, UntimedCostsFailures
<1>20. ASSUME NEW u \in Users, WindowEnds(u)
      PROVE  UntimedCostsFailures'
  <2>1. /\ timed' = timed \ {u} /\ count'[u] = 0
        /\ \A v \in Users : v # u => count'[v] = count[v]
        /\ UNCHANGED <<pc, request, faults>>
    BY <1>20, <1>4 DEF WindowEnds, RedisTypes
  <2>2. QED
    BY <2>1, <1>1 DEF UntimedCostsFailures, UserOf
<1>21. ASSUME NEW k \in Keys, CacheExpires(k)
      PROVE  UntimedCostsFailures'
  BY <1>21, <1>3, FaultTypes DEF CacheExpires, UntimedCostsFailures
<1>22. ASSUME NEW c \in Calls, LateAppend(c)
      PROVE  UntimedCostsFailures'
  BY <1>22, <1>1, <1>2, UntimedFrame DEF LateAppend
<1>23. QED
  BY <1>5, <1>6, <1>7, <1>8, <1>9, <1>10, <1>11, <1>12, <1>13, <1>14, <1>15,
    <1>16, <1>17, <1>18, <1>19, <1>20, <1>21, <1>22
     DEF Next, CallStep, Failure, Environment

\* A failure more opens the breaker exactly at the threshold.
LEMMA BreakerOpens ==
    ASSUME ProcessTypes, BreakerMatchesCount, NEW g \in Processes,
           RecordFailure(g)
    PROVE  BreakerMatchesCount'
BY GatewayAssumption DEF ProcessTypes, BreakerMatchesCount, RecordFailure

\* Every step keeps breaker and count together.
LEMMA BreakerStep ==
    ASSUME IInv, Next
    PROVE  BreakerMatchesCount'
<1>1. BreakerMatchesCount /\ ProcessTypes
  BY TypeParts DEF IInv
<1> USE DEF processVars, BreakerMatchesCount, ProcessTypes
<1>2. ASSUME NEW c \in Calls, NEW g \in Processes, NEW r \in Requests,
             Receive(c, g, r)
      PROVE  BreakerMatchesCount'
  BY <1>2, <1>1 DEF Receive
<1>3. ASSUME NEW c \in Calls, Incr(c)
      PROVE  BreakerMatchesCount'
  BY <1>3, <1>1 DEF Incr
<1>4. ASSUME NEW c \in Calls, Expire(c)
      PROVE  BreakerMatchesCount'
  BY <1>4, <1>1 DEF Expire
<1>5. ASSUME NEW c \in Calls, Lookup(c)
      PROVE  BreakerMatchesCount'
  BY <1>5, <1>1 DEF Lookup
<1>6. ASSUME NEW c \in Calls, Started(c)
      PROVE  BreakerMatchesCount'
  BY <1>6, <1>1 DEF Started
<1>7. ASSUME NEW c \in Calls, SendAcknowledged(c)
      PROVE  BreakerMatchesCount'
  <2>1. process[c] \in Processes
    BY <1>7, WaitingFacts DEF SendAcknowledged, Waiting
  <2>2. QED
    BY <2>1, <1>1, <1>7, GatewayAssumption DEF SendAcknowledged, RecordSuccess
<1>8. ASSUME NEW c \in Calls, SendTimesOut(c)
      PROVE  BreakerMatchesCount'
  <2>1. process[c] \in Processes
    BY <1>8, WaitingFacts DEF SendTimesOut, Waiting
  <2>2. QED
    BY <2>1, <1>1, <1>8, BreakerOpens DEF SendTimesOut, FailAndReset
<1>9. ASSUME NEW c \in Calls, SendFails(c)
      PROVE  BreakerMatchesCount'
  <2>1. process[c] \in Processes
    BY <1>9, WaitingFacts DEF SendFails, Waiting
  <2>2. QED
    BY <2>1, <1>1, <1>9, BreakerOpens DEF SendFails, FailAndReset
<1>10. ASSUME NEW c \in Calls, Stopped(c)
      PROVE  BreakerMatchesCount'
  BY <1>10, <1>1 DEF Stopped
<1>11. ASSUME NEW c \in Calls, CacheResponse(c)
      PROVE  BreakerMatchesCount'
  BY <1>11, <1>1 DEF CacheResponse
<1>12. ASSUME NEW c \in Calls, StartFails(c)
      PROVE  BreakerMatchesCount'
  BY <1>12, <1>1 DEF StartFails
<1>13. ASSUME NEW c \in Calls, StopFails(c)
      PROVE  BreakerMatchesCount'
  BY <1>13, <1>1 DEF StopFails
<1>14. ASSUME NEW c \in Calls, RedisRaises(c)
      PROVE  BreakerMatchesCount'
  BY <1>14, <1>1 DEF RedisRaises
<1>15. ASSUME NEW g \in Processes, HalfOpen(g)
      PROVE  BreakerMatchesCount'
  BY <1>15, <1>1 DEF HalfOpen
<1>16. ASSUME NEW g \in Processes, CrashProcess(g)
      PROVE  BreakerMatchesCount'
  BY <1>16, <1>1, GatewayAssumption DEF CrashProcess
<1>17. ASSUME NEW u \in Users, WindowEnds(u)
      PROVE  BreakerMatchesCount'
  BY <1>17, <1>1 DEF WindowEnds
<1>18. ASSUME NEW k \in Keys, CacheExpires(k)
      PROVE  BreakerMatchesCount'
  BY <1>18, <1>1 DEF CacheExpires
<1>19. ASSUME NEW c \in Calls, LateAppend(c)
      PROVE  BreakerMatchesCount'
  BY <1>19, <1>1 DEF LateAppend
<1>20. QED
  BY <1>2, <1>3, <1>4, <1>5, <1>6, <1>7, <1>8, <1>9, <1>10, <1>11, <1>12,
    <1>13, <1>14, <1>15, <1>16, <1>17, <1>18, <1>19
     DEF Next, CallStep, Failure, Environment

-----------------------------------------------------------------------------
(* Damage: refusals and leaked producers.                                   *)

\* Every step keeps a process undamaged as long as nothing failed.
LEMMA UndamagedStep ==
    ASSUME IInv, Next
    PROVE  Undamaged' /\ RefusalsCostFailures'
<1> DEFINE Goal == Undamaged' /\ RefusalsCostFailures'
<1>1. Undamaged /\ RefusalsCostFailures
  BY DEF IInv
<1>2. ProcessTypes /\ CallTypes
  BY TypeParts DEF IInv
<1>3. faults \in 0..MaxFaults /\ faults \in Nat
  BY TypeParts, GatewayAssumption DEF IInv, TopicTypes
<1> USE DEF processVars, callVars, NoFault, Undamaged, RefusalsCostFailures,
            ProcessTypes, CallTypes
<1>4. ASSUME NEW c \in Calls, NEW g \in Processes, NEW r \in Requests,
             Receive(c, g, r)
      PROVE  Goal
  BY <1>4, <1>1, <1>2, NoneIsNobody DEF Receive
<1>5. ASSUME NEW c \in Calls, Incr(c)
      PROVE  Goal
  BY <1>5, <1>1, <1>2, NoneIsNobody DEF Incr, Admit, Goto, Answer, AnswerWith
<1>6. ASSUME NEW c \in Calls, Expire(c)
      PROVE  Goal
  BY <1>6, <1>1, <1>2, NoneIsNobody DEF Expire, Admit, Goto, Answer, AnswerWith
<1>7. ASSUME NEW c \in Calls, Lookup(c)
      PROVE  Goal
  <2>1. process[c] \in Processes
    BY <1>7, WaitingFacts DEF Lookup, Waiting
  <2>2. CASE AnswerWith(c, "accepted", cache[KeyOf(c)]) /\ UNCHANGED <<producer, health>>
    BY <1>7, <2>2, <1>1, <1>2 DEF Lookup, AnswerWith
  <2>3. CASE breaker[process[c]] = "open" /\ Answer(c, "open")
             /\ UNCHANGED <<producer, health>>
    BY <1>7, <2>1, <2>3, <1>1, <1>2 DEF Lookup, Answer, AnswerWith
  <2>4. CASE TakeProducer(c)
    <3>1. CASE producer[process[c]] = None
      <4>1. /\ producer' = [producer EXCEPT ![process[c]] = c]
            /\ health' = [health EXCEPT ![c] = "starting"]
            /\ pc' = [pc EXCEPT ![c] = "start"]
            /\ UNCHANGED <<process, answer, breaker, faults>>
        BY <1>7, <3>1, <2>4 DEF Lookup, TakeProducer, Goto
      <4>2. \A g \in Processes : producer'[g] = c \/ producer'[g] = producer[g]
        BY <4>1, <2>1, <1>2
      <4>3. producer'[process[c]] = c /\ c # None
        BY <4>1, <2>1, <1>2, NoneIsNobody
      <4>4. \A d \in Calls : pc'[d] = "start" /\ d # c => pc[d] = "start"
        BY <4>1, <1>2
      <4>5. \A d \in Calls : pc[d] = "start" /\ faults = 0 => producer'[process[d]] # None
        <5>1. \A d \in Calls : pc[d] = "start" => process[d] \in Processes
          BY WaitingFacts DEF Waiting
        <5>2. QED  BY <5>1, <4>2, <4>3, <1>1
      <4>6. Undamaged'
        BY <4>1, <4>3, <4>4, <4>5, <1>1, <1>2
      <4>7. QED  BY <4>1, <4>6, <1>1, <1>2
    <3>2. CASE producer[process[c]] # None
      BY <1>7, <3>2, <2>1, <2>4, <1>1, <1>2 DEF Lookup, TakeProducer
    <3>3. QED  BY <3>1, <3>2
  <2>5. QED  BY <2>2, <2>3, <2>4, <1>7 DEF Lookup
<1>8. ASSUME NEW c \in Calls, Started(c)
      PROVE  Goal
  <2>1. process[c] \in Processes /\ pc[c] = "start"
    BY <1>8, WaitingFacts DEF Started, Waiting
  <2>2. faults = 0 => producer[process[c]] \in Calls /\ pc'[c] = "send"
    BY <1>8, <2>1, <1>1, <1>2 DEF Started
  <2>3. QED
    BY <1>8, <2>1, <2>2, <1>1, <1>2 DEF Started
<1>9. ASSUME NEW c \in Calls, SendAcknowledged(c)
      PROVE  Goal
  BY <1>9, <1>1, <1>2, NoneIsNobody DEF SendAcknowledged, RecordSuccess
<1>10. ASSUME NEW c \in Calls, SendTimesOut(c)
      PROVE  Goal
  <2>1. CASE Fault
    BY <2>1, <1>3, FaultTypes
  <2>2. CASE UNCHANGED faults
    <3>1. faults = 0 => FALSE
      BY <1>10, <2>2, <1>1, <1>2, <1>3 DEF SendTimesOut, Unanswered, Fault
    <3>2. QED  BY <3>1, <2>2
  <2>3. QED  BY <2>1, <2>2, <1>10 DEF SendTimesOut
<1>11. ASSUME NEW c \in Calls, SendFails(c)
      PROVE  Goal
  <2>1. CASE Fault
    BY <2>1, <1>3, FaultTypes
  <2>2. CASE UNCHANGED faults
    <3>1. faults = 0 => FALSE
      BY <1>11, <2>2, <1>1, <1>2, <1>3 DEF SendFails, Fault
    <3>2. QED  BY <3>1, <2>2
  <2>3. QED  BY <2>1, <2>2, <1>11 DEF SendFails
<1>12. ASSUME NEW c \in Calls, Stopped(c)
      PROVE  Goal
  BY <1>12, <1>1, <1>2, NoneIsNobody DEF Stopped, Answer, AnswerWith
<1>13. ASSUME NEW c \in Calls, CacheResponse(c)
      PROVE  Goal
  BY <1>13, <1>1, <1>2, NoneIsNobody DEF CacheResponse, Answer, AnswerWith
<1>14. ASSUME NEW c \in Calls, StartFails(c)
      PROVE  Goal
  BY <1>14, <1>3, FaultTypes DEF StartFails
<1>15. ASSUME NEW c \in Calls, StopFails(c)
      PROVE  Goal
  BY <1>15, <1>3, FaultTypes DEF StopFails
<1>16. ASSUME NEW c \in Calls, RedisRaises(c)
      PROVE  Goal
  BY <1>16, <1>3, FaultTypes DEF RedisRaises
<1>17. ASSUME NEW g \in Processes, HalfOpen(g)
      PROVE  Goal
  BY <1>17, <1>1, <1>2, NoneIsNobody DEF HalfOpen
<1>18. ASSUME NEW g \in Processes, CrashProcess(g)
      PROVE  Goal
  BY <1>18, <1>3, FaultTypes DEF CrashProcess
<1>19. ASSUME NEW u \in Users, WindowEnds(u)
      PROVE  Goal
  BY <1>19, <1>1, <1>2, NoneIsNobody DEF WindowEnds
<1>20. ASSUME NEW k \in Keys, CacheExpires(k)
      PROVE  Goal
  BY <1>20, <1>3, FaultTypes DEF CacheExpires
<1>21. ASSUME NEW c \in Calls, LateAppend(c)
      PROVE  Goal
  BY <1>21, <1>1, <1>2, NoneIsNobody DEF LateAppend
<1>22. QED
  BY <1>4, <1>5, <1>6, <1>7, <1>8, <1>9, <1>10, <1>11, <1>12, <1>13, <1>14,
    <1>15, <1>16, <1>17, <1>18, <1>19, <1>20, <1>21
     DEF Next, CallStep, Failure, Environment

\* Every step leaves a process its own producers.
LEMMA OwnStep ==
    ASSUME IInv, Next
    PROVE  OwnProducers'
<1>1. OwnProducers
  BY DEF IInv
<1>2. ProcessTypes /\ CallTypes /\ Received
  BY TypeParts DEF IInv
<1> USE DEF processVars, callVars, OwnProducers, ProcessTypes, CallTypes
<1>3. ASSUME NEW c \in Calls, NEW g \in Processes, NEW r \in Requests,
             Receive(c, g, r)
      PROVE  OwnProducers'
  BY <1>3, <1>1, <1>2, NoneIsNobody DEF Receive, Received
<1>4. ASSUME NEW c \in Calls, Incr(c)
      PROVE  OwnProducers'
  BY <1>4, <1>1 DEF Incr, Admit, Goto, Answer, AnswerWith
<1>5. ASSUME NEW c \in Calls, Expire(c)
      PROVE  OwnProducers'
  BY <1>5, <1>1 DEF Expire, Admit, Goto, Answer, AnswerWith
<1>6. ASSUME NEW c \in Calls, Lookup(c)
      PROVE  OwnProducers'
  BY <1>6, <1>1, <1>2, NoneIsNobody
     DEF Lookup, TakeProducer, Goto, Answer, AnswerWith
<1>7. ASSUME NEW c \in Calls, Started(c)
      PROVE  OwnProducers'
  BY <1>7, <1>1 DEF Started
<1>8. ASSUME NEW c \in Calls, SendAcknowledged(c)
      PROVE  OwnProducers'
  BY <1>8, <1>1 DEF SendAcknowledged, RecordSuccess
<1>9. ASSUME NEW c \in Calls, SendTimesOut(c)
      PROVE  OwnProducers'
  BY <1>9, <1>1
     DEF SendTimesOut, FailAndReset, RecordFailure, Answer, AnswerWith
<1>10. ASSUME NEW c \in Calls, SendFails(c)
      PROVE  OwnProducers'
  BY <1>10, <1>1 DEF SendFails, FailAndReset, RecordFailure, Answer, AnswerWith
<1>11. ASSUME NEW c \in Calls, Stopped(c)
      PROVE  OwnProducers'
  BY <1>11, <1>1, <1>2, NoneIsNobody DEF Stopped, Answer, AnswerWith
<1>12. ASSUME NEW c \in Calls, CacheResponse(c)
      PROVE  OwnProducers'
  BY <1>12, <1>1 DEF CacheResponse, Answer, AnswerWith
<1>13. ASSUME NEW c \in Calls, StartFails(c)
      PROVE  OwnProducers'
  BY <1>13, <1>1 DEF StartFails, Answer, AnswerWith
<1>14. ASSUME NEW c \in Calls, StopFails(c)
      PROVE  OwnProducers'
  BY <1>14, <1>1, <1>2, NoneIsNobody DEF StopFails, Answer, AnswerWith
<1>15. ASSUME NEW c \in Calls, RedisRaises(c)
      PROVE  OwnProducers'
  BY <1>15, <1>1 DEF RedisRaises, Answer, AnswerWith
<1>16. ASSUME NEW g \in Processes, HalfOpen(g)
      PROVE  OwnProducers'
  BY <1>16, <1>1 DEF HalfOpen
<1>17. ASSUME NEW g \in Processes, CrashProcess(g)
      PROVE  OwnProducers'
  BY <1>17, <1>1, <1>2 DEF CrashProcess
<1>18. ASSUME NEW u \in Users, WindowEnds(u)
      PROVE  OwnProducers'
  BY <1>18, <1>1 DEF WindowEnds
<1>19. ASSUME NEW k \in Keys, CacheExpires(k)
      PROVE  OwnProducers'
  BY <1>19, <1>1 DEF CacheExpires
<1>20. ASSUME NEW c \in Calls, LateAppend(c)
      PROVE  OwnProducers'
  BY <1>20, <1>1 DEF LateAppend
<1>21. QED
  BY <1>3, <1>4, <1>5, <1>6, <1>7, <1>8, <1>9, <1>10, <1>11, <1>12, <1>13,
    <1>14, <1>15, <1>16, <1>17, <1>18, <1>19, <1>20
     DEF Next, CallStep, Failure, Environment

\* An answer is final.
LEMMA AnswersStay ==
    ASSUME IInv, Next
    PROVE  \A d \in Calls : answer[d] # None => answer'[d] = answer[d]
<1> DEFINE Goal == \A d \in Calls : answer[d] # None => answer'[d] = answer[d]
<1>1. CallTypes
  BY TypeParts DEF IInv
<1> USE DEF callVars, CallTypes
<1>2. ASSUME NEW c \in Calls, NEW g \in Processes, NEW r \in Requests,
             Receive(c, g, r)
      PROVE  Goal
  BY <1>2, <1>1 DEF Receive
<1>3. ASSUME NEW c \in Calls, Incr(c)
      PROVE  Goal
  BY <1>3, <1>1 DEF Incr, Admit, Goto, Answer, AnswerWith
<1>4. ASSUME NEW c \in Calls, Expire(c)
      PROVE  Goal
  BY <1>4, <1>1 DEF Expire, Admit, Goto, Answer, AnswerWith
<1>5. ASSUME NEW c \in Calls, Lookup(c)
      PROVE  Goal
  BY <1>5, <1>1 DEF Lookup, TakeProducer, Goto, Answer, AnswerWith
<1>6. ASSUME NEW c \in Calls, Started(c)
      PROVE  Goal
  BY <1>6, <1>1 DEF Started
<1>7. ASSUME NEW c \in Calls, SendAcknowledged(c)
      PROVE  Goal
  BY <1>7, <1>1 DEF SendAcknowledged, RecordSuccess
<1>8. ASSUME NEW c \in Calls, SendTimesOut(c)
      PROVE  Goal
  BY <1>8, <1>1
     DEF SendTimesOut, FailAndReset, RecordFailure, Answer, AnswerWith
<1>9. ASSUME NEW c \in Calls, SendFails(c)
      PROVE  Goal
  BY <1>9, <1>1 DEF SendFails, FailAndReset, RecordFailure, Answer, AnswerWith
<1>10. ASSUME NEW c \in Calls, Stopped(c)
      PROVE  Goal
  BY <1>10, <1>1 DEF Stopped, Answer, AnswerWith
<1>11. ASSUME NEW c \in Calls, CacheResponse(c)
      PROVE  Goal
  BY <1>11, <1>1 DEF CacheResponse, Answer, AnswerWith
<1>12. ASSUME NEW c \in Calls, StartFails(c)
      PROVE  Goal
  BY <1>12, <1>1 DEF StartFails, Answer, AnswerWith
<1>13. ASSUME NEW c \in Calls, StopFails(c)
      PROVE  Goal
  BY <1>13, <1>1 DEF StopFails, Answer, AnswerWith
<1>14. ASSUME NEW c \in Calls, RedisRaises(c)
      PROVE  Goal
  BY <1>14, <1>1 DEF RedisRaises, Answer, AnswerWith
<1>15. ASSUME NEW g \in Processes, HalfOpen(g)
      PROVE  Goal
  BY <1>15, <1>1 DEF HalfOpen
<1>16. ASSUME NEW g \in Processes, CrashProcess(g)
      PROVE  Goal
  BY <1>16, <1>1 DEF CrashProcess
<1>17. ASSUME NEW u \in Users, WindowEnds(u)
      PROVE  Goal
  BY <1>17, <1>1 DEF WindowEnds
<1>18. ASSUME NEW k \in Keys, CacheExpires(k)
      PROVE  Goal
  BY <1>18, <1>1 DEF CacheExpires
<1>19. ASSUME NEW c \in Calls, LateAppend(c)
      PROVE  Goal
  BY <1>19, <1>1 DEF LateAppend
<1>20. QED
  BY <1>2, <1>3, <1>4, <1>5, <1>6, <1>7, <1>8, <1>9, <1>10, <1>11, <1>12,
    <1>13, <1>14, <1>15, <1>16, <1>17, <1>18, <1>19
     DEF Next, CallStep, Failure, Environment

\* Calls that failed remain, and are no more than there are calls.
LEMMA FailedCallsGrow ==
    ASSUME IInv, Next
    PROVE  /\ FailedCalls \subseteq FailedCalls'
           /\ IsFiniteSet(FailedCalls) /\ IsFiniteSet(FailedCalls')
<1>1. FailedCalls \subseteq FailedCalls'
  BY AnswersStay DEF FailedCalls, Done
<1>2. FailedCalls \in SUBSET Calls /\ FailedCalls' \in SUBSET Calls
  BY DEF FailedCalls
<1>3. QED  BY <1>1, <1>2, FS_Subset, GatewayAssumption

\* A step that drops no producer keeps DroppedCostCalls.
LEMMA NothingDropped ==
    ASSUME IInv, Next, Dropped' \subseteq Dropped
    PROVE  DroppedCostCalls'
<1>1. /\ IsFiniteSet(Dropped) /\ Cardinality(Dropped) \in Nat
      /\ Cardinality(Dropped') \in Nat /\ Cardinality(Dropped') <= Cardinality(Dropped)
  <2>1. Dropped \in SUBSET Calls /\ Dropped' \in SUBSET Dropped
    BY DEF Dropped
  <2>2. IsFiniteSet(Dropped)
    BY <2>1, FS_Subset, GatewayAssumption
  <2>3. QED  BY <2>1, <2>2, FS_Subset, FS_CardinalityType
<1>2. /\ Cardinality(FailedCalls) \in Nat /\ Cardinality(FailedCalls') \in Nat
      /\ Cardinality(FailedCalls) <= Cardinality(FailedCalls')
  BY FailedCallsGrow, FS_Subset, FS_CardinalityType
<1>3. Cardinality(Dropped) <= Cardinality(FailedCalls)
  BY DEF IInv, DroppedCostCalls
<1>4. QED  BY <1>1, <1>2, <1>3 DEF DroppedCostCalls

\* A step that drops one producer keeps it when it fails a call.
LEMMA OneDropped ==
    ASSUME IInv, Next, NEW c \in Calls, answer[c] = None, c \in FailedCalls',
           NEW d, Dropped' \subseteq Dropped \cup {d}
    PROVE  DroppedCostCalls'
<1>1. /\ Cardinality(Dropped) \in Nat /\ Cardinality(Dropped') \in Nat
      /\ Cardinality(Dropped') <= Cardinality(Dropped) + 1
  <2>1. Dropped \in SUBSET Calls /\ Dropped' \in SUBSET (Dropped \cup {d})
    BY DEF Dropped
  <2>2. IsFiniteSet(Dropped)
    BY <2>1, FS_Subset, GatewayAssumption
  <2>3. /\ IsFiniteSet(Dropped \cup {d}) /\ Cardinality(Dropped) \in Nat
        /\ Cardinality(Dropped \cup {d}) <= Cardinality(Dropped) + 1
    <3>1. Cardinality(Dropped) \in Nat
      BY <2>2, FS_CardinalityType
    <3>2. /\ IsFiniteSet(Dropped \cup {d})
          /\ Cardinality(Dropped \cup {d}) =
                IF d \in Dropped THEN Cardinality(Dropped) ELSE Cardinality(Dropped) + 1
      BY <2>2, FS_AddElement
    <3>3. QED  BY <3>1, <3>2
  <2>4. /\ IsFiniteSet(Dropped') /\ Cardinality(Dropped') \in Nat
        /\ Cardinality(Dropped \cup {d}) \in Nat
        /\ Cardinality(Dropped') <= Cardinality(Dropped \cup {d})
    BY <2>1, <2>3, FS_Subset, FS_CardinalityType
  <2>5. QED  BY <2>3, <2>4
<1>2. /\ Cardinality(FailedCalls) \in Nat /\ Cardinality(FailedCalls') \in Nat
      /\ Cardinality(FailedCalls) + 1 <= Cardinality(FailedCalls')
  <2>1. c \notin FailedCalls
    BY DEF FailedCalls, Done
  <2>2. FailedCalls \cup {c} \in SUBSET FailedCalls'
    BY FailedCallsGrow
  <2>3. /\ Cardinality(FailedCalls) \in Nat /\ Cardinality(FailedCalls') \in Nat
    BY FailedCallsGrow, FS_CardinalityType
  <2>4. Cardinality(FailedCalls \cup {c}) = Cardinality(FailedCalls) + 1
    BY <2>1, FailedCallsGrow, FS_AddElement
  <2>5. Cardinality(FailedCalls \cup {c}) <= Cardinality(FailedCalls')
    BY <2>2, FailedCallsGrow, FS_Subset
  <2>6. QED  BY <2>3, <2>4, <2>5
<1>3. Cardinality(Dropped) <= Cardinality(FailedCalls)
  BY DEF IInv, DroppedCostCalls
<1>4. QED  BY <1>1, <1>2, <1>3 DEF DroppedCostCalls

\* Every step keeps DroppedCostCalls.
LEMMA DroppedStep ==
    ASSUME IInv, Next
    PROVE  DroppedCostCalls'
<1>1. ProcessTypes /\ CallTypes /\ OwnProducers
  BY TypeParts DEF IInv
<1> USE DEF processVars, ProcessTypes, CallTypes
<1>2. ASSUME NEW c \in Calls, NEW g \in Processes, NEW r \in Requests,
             Receive(c, g, r)
      PROVE  DroppedCostCalls'
  <2>1. Dropped' \subseteq Dropped
    BY <1>2, <1>1 DEF Receive, Dropped
  <2>2. QED  BY <2>1, NothingDropped
<1>3. ASSUME NEW c \in Calls, Incr(c)
      PROVE  DroppedCostCalls'
  <2>1. Dropped' \subseteq Dropped
    BY <1>3, <1>1 DEF Incr, Dropped
  <2>2. QED  BY <2>1, NothingDropped
<1>4. ASSUME NEW c \in Calls, Expire(c)
      PROVE  DroppedCostCalls'
  <2>1. Dropped' \subseteq Dropped
    BY <1>4, <1>1 DEF Expire, Dropped
  <2>2. QED  BY <2>1, NothingDropped
<1>5. ASSUME NEW c \in Calls, Lookup(c)
      PROVE  DroppedCostCalls'
  <2>1. process[c] \in Processes
    BY <1>5, WaitingFacts DEF Lookup, Waiting
  <2>2. \/ UNCHANGED <<producer, health>>
        \/ /\ producer[process[c]] = None
           /\ producer' = [producer EXCEPT ![process[c]] = c]
           /\ health' = [health EXCEPT ![c] = "starting"]
    BY <1>5 DEF Lookup, TakeProducer
  <2>3. Dropped' \subseteq Dropped
    BY <2>1, <2>2, <1>1, NoneIsNobody DEF Dropped
  <2>4. QED  BY <2>3, NothingDropped
<1>6. ASSUME NEW c \in Calls, Started(c)
      PROVE  DroppedCostCalls'
  <2>1. Dropped' \subseteq Dropped
    BY <1>6, <1>1 DEF Started, Dropped
  <2>2. QED  BY <2>1, NothingDropped
<1>7. ASSUME NEW c \in Calls, SendAcknowledged(c)
      PROVE  DroppedCostCalls'
  <2>1. Dropped' \subseteq Dropped
    BY <1>7, <1>1 DEF SendAcknowledged, Dropped
  <2>2. QED  BY <2>1, NothingDropped
<1>8. ASSUME NEW c \in Calls, SendTimesOut(c)
      PROVE  DroppedCostCalls'
  <2>1. Dropped' \subseteq Dropped
    BY <1>8, <1>1 DEF SendTimesOut, FailAndReset, Dropped
  <2>2. QED  BY <2>1, NothingDropped
<1>9. ASSUME NEW c \in Calls, SendFails(c)
      PROVE  DroppedCostCalls'
  <2>1. Dropped' \subseteq Dropped
    BY <1>9, <1>1 DEF SendFails, FailAndReset, Dropped
  <2>2. QED  BY <2>1, NothingDropped
<1>10. ASSUME NEW c \in Calls, Stopped(c)
      PROVE  DroppedCostCalls'
  <2>1. process[c] \in Processes /\ answer[c] = None
    BY <1>10, WaitingFacts DEF Stopped, Waiting
  <2>2. c \in FailedCalls'
    BY <1>10, <1>1, NoneIsNobody, Names DEF Stopped, Answer, AnswerWith, FailedCalls, Done
  <2>3. Dropped' \subseteq Dropped \cup {producer[process[c]]}
    BY <1>10, <2>1, <1>1 DEF Stopped, Dropped
  <2>4. QED  BY <2>1, <2>2, <2>3, OneDropped
<1>11. ASSUME NEW c \in Calls, CacheResponse(c)
      PROVE  DroppedCostCalls'
  <2>1. Dropped' \subseteq Dropped
    BY <1>11, <1>1 DEF CacheResponse, Dropped
  <2>2. QED  BY <2>1, NothingDropped
<1>12. ASSUME NEW c \in Calls, StartFails(c)
      PROVE  DroppedCostCalls'
  <2>1. Dropped' \subseteq Dropped
    BY <1>12, <1>1 DEF StartFails, Dropped
  <2>2. QED  BY <2>1, NothingDropped
<1>13. ASSUME NEW c \in Calls, StopFails(c)
      PROVE  DroppedCostCalls'
  <2>1. process[c] \in Processes /\ answer[c] = None
    BY <1>13, WaitingFacts DEF StopFails, Waiting
  <2>2. c \in FailedCalls'
    BY <1>13, <1>1, NoneIsNobody, Names DEF StopFails, Answer, AnswerWith, FailedCalls, Done
  <2>3. Dropped' \subseteq Dropped \cup {producer[process[c]]}
    BY <1>13, <2>1, <1>1 DEF StopFails, Dropped
  <2>4. QED  BY <2>1, <2>2, <2>3, OneDropped
<1>14. ASSUME NEW c \in Calls, RedisRaises(c)
      PROVE  DroppedCostCalls'
  <2>1. Dropped' \subseteq Dropped
    BY <1>14, <1>1 DEF RedisRaises, Dropped
  <2>2. QED  BY <2>1, NothingDropped
<1>15. ASSUME NEW g \in Processes, HalfOpen(g)
      PROVE  DroppedCostCalls'
  <2>1. Dropped' \subseteq Dropped
    BY <1>15, <1>1 DEF HalfOpen, Dropped
  <2>2. QED  BY <2>1, NothingDropped
<1>16. ASSUME NEW g \in Processes, CrashProcess(g)
      PROVE  DroppedCostCalls'
  <2>1. Dropped' \subseteq Dropped
    BY <1>16, <1>1, NoneIsNobody DEF CrashProcess, OwnProducers, Dropped
  <2>2. QED  BY <2>1, NothingDropped
<1>17. ASSUME NEW u \in Users, WindowEnds(u)
      PROVE  DroppedCostCalls'
  <2>1. Dropped' \subseteq Dropped
    BY <1>17, <1>1 DEF WindowEnds, Dropped
  <2>2. QED  BY <2>1, NothingDropped
<1>18. ASSUME NEW k \in Keys, CacheExpires(k)
      PROVE  DroppedCostCalls'
  <2>1. Dropped' \subseteq Dropped
    BY <1>18, <1>1 DEF CacheExpires, Dropped
  <2>2. QED  BY <2>1, NothingDropped
<1>19. ASSUME NEW c \in Calls, LateAppend(c)
      PROVE  DroppedCostCalls'
  <2>1. Dropped' \subseteq Dropped
    BY <1>19, <1>1 DEF LateAppend, Dropped
  <2>2. QED  BY <2>1, NothingDropped
<1>20. QED
  BY <1>2, <1>3, <1>4, <1>5, <1>6, <1>7, <1>8, <1>9, <1>10, <1>11, <1>12,
    <1>13, <1>14, <1>15, <1>16, <1>17, <1>18, <1>19
     DEF Next, CallStep, Failure, Environment

-----------------------------------------------------------------------------
(* Replays.                                                                 *)

\* A step that accepts nobody and leaves the cache keeps AnswersCached.
LEMMA CachedFrame ==
    ASSUME AnswersCached, UNCHANGED <<cache, faults>>,
           \A d \in Calls : (Done(d, "accepted"))' =>
              Done(d, "accepted") /\ request'[d] = request[d]
    PROVE  AnswersCached'
BY DEF AnswersCached, KeyOf

\* Every step keeps the responses of the accepted calls in the cache.
LEMMA CachedStep ==
    ASSUME IInv, Next
    PROVE  AnswersCached'
<1>1. AnswersCached
  BY DEF IInv
<1>2. CallTypes
  BY TypeParts DEF IInv
<1>3. faults \in 0..MaxFaults /\ faults \in Nat
  BY TypeParts, GatewayAssumption DEF IInv, TopicTypes
<1>4. \A d \in Calls : Done(d, "accepted") => pc[d] = "done" /\ request[d] \in Requests
  <2>1. \A d \in Calls : answer[d] # None => pc[d] = "done"
    BY <1>2 DEF CallTypes
  <2>2. QED  BY <2>1 DEF IInv, Received, Done
<1> USE DEF redisVars, callVars, NoFault, CallTypes, Done
<1>5. ASSUME NEW c \in Calls, NEW g \in Processes, NEW r \in Requests,
             Receive(c, g, r)
      PROVE  AnswersCached'
  BY <1>5, <1>1, <1>2, <1>4, CachedFrame DEF Receive
<1>6. ASSUME NEW c \in Calls, Incr(c)
      PROVE  AnswersCached'
  BY <1>6, <1>1, <1>2, <1>4, CachedFrame
     DEF Incr, Admit, Goto, Answer, AnswerWith
<1>7. ASSUME NEW c \in Calls, Expire(c)
      PROVE  AnswersCached'
  BY <1>7, <1>1, <1>2, <1>4, CachedFrame
     DEF Expire, Admit, Goto, Answer, AnswerWith
<1>8. ASSUME NEW c \in Calls, Lookup(c)
      PROVE  AnswersCached'
  <2>1. UNCHANGED <<cache, request, faults>>
    BY <1>8 DEF Lookup, TakeProducer, Goto, Answer, AnswerWith
  <2>2. \A d \in Calls : (Done(d, "accepted"))' =>
           Done(d, "accepted") \/ cache[KeyOf(d)] # None
    BY <1>8, <1>2, NoneIsNobody
       DEF Lookup, TakeProducer, Goto, Answer, AnswerWith, Done
  <2>3. QED
    BY <2>1, <2>2, <1>1 DEF AnswersCached, KeyOf
<1>9. ASSUME NEW c \in Calls, Started(c)
      PROVE  AnswersCached'
  BY <1>9, <1>1, <1>2, <1>4, CachedFrame DEF Started
<1>10. ASSUME NEW c \in Calls, SendAcknowledged(c)
      PROVE  AnswersCached'
  BY <1>10, <1>1, <1>2, <1>4, CachedFrame DEF SendAcknowledged, RecordSuccess
<1>11. ASSUME NEW c \in Calls, SendTimesOut(c)
      PROVE  AnswersCached'
  <2>1. CASE Fault
    BY <2>1, <1>3, FaultTypes DEF AnswersCached
  <2>2. CASE UNCHANGED faults
    BY <1>11, <2>2, <1>1, <1>2, <1>4, CachedFrame
       DEF SendTimesOut, FailAndReset, Answer, AnswerWith
  <2>3. QED  BY <2>1, <2>2, <1>11 DEF SendTimesOut
<1>12. ASSUME NEW c \in Calls, SendFails(c)
      PROVE  AnswersCached'
  <2>1. CASE Fault
    BY <2>1, <1>3, FaultTypes DEF AnswersCached
  <2>2. CASE UNCHANGED faults
    BY <1>12, <2>2, <1>1, <1>2, <1>4, CachedFrame
       DEF SendFails, FailAndReset, Answer, AnswerWith
  <2>3. QED  BY <2>1, <2>2, <1>12 DEF SendFails
<1>13. ASSUME NEW c \in Calls, Stopped(c)
      PROVE  AnswersCached'
  BY <1>13, <1>1, <1>2, <1>4, CachedFrame DEF Stopped, Answer, AnswerWith
<1>14. ASSUME NEW c \in Calls, CacheResponse(c)
      PROVE  AnswersCached'
  <2>1. UNCHANGED <<request, faults>> /\ Waiting(c)
    BY <1>14 DEF CacheResponse, Answer, AnswerWith, Waiting
  <2>2. /\ cache'[KeyOf(c)] = c
        /\ \A k \in Keys : k # KeyOf(c) => cache'[k] = cache[k]
    BY <1>14, <2>1, StoreTypes DEF CacheResponse
  <2>3. \A d \in Calls : (Done(d, "accepted"))' => Done(d, "accepted") \/ d = c
    BY <1>14, <1>2 DEF CacheResponse, Answer, AnswerWith, Done
  <2>4. \A d \in Calls : Done(d, "accepted") => KeyOf(d) \in Keys
    BY <1>4 DEF KeyOf, Keys
  <2>5. QED
    BY <2>1, <2>2, <2>3, <2>4, <1>1, NoneIsNobody DEF AnswersCached, KeyOf
<1>15. ASSUME NEW c \in Calls, StartFails(c)
      PROVE  AnswersCached'
  BY <1>15, <1>3, FaultTypes DEF StartFails, AnswersCached
<1>16. ASSUME NEW c \in Calls, StopFails(c)
      PROVE  AnswersCached'
  BY <1>16, <1>3, FaultTypes DEF StopFails, AnswersCached
<1>17. ASSUME NEW c \in Calls, RedisRaises(c)
      PROVE  AnswersCached'
  BY <1>17, <1>3, FaultTypes DEF RedisRaises, AnswersCached
<1>18. ASSUME NEW g \in Processes, HalfOpen(g)
      PROVE  AnswersCached'
  BY <1>18, <1>1, <1>2, <1>4, CachedFrame DEF HalfOpen
<1>19. ASSUME NEW g \in Processes, CrashProcess(g)
      PROVE  AnswersCached'
  BY <1>19, <1>3, FaultTypes DEF CrashProcess, AnswersCached
<1>20. ASSUME NEW u \in Users, WindowEnds(u)
      PROVE  AnswersCached'
  BY <1>20, <1>1, <1>2, <1>4, CachedFrame DEF WindowEnds
<1>21. ASSUME NEW k \in Keys, CacheExpires(k)
      PROVE  AnswersCached'
  BY <1>21, <1>3, FaultTypes DEF CacheExpires, AnswersCached
<1>22. ASSUME NEW c \in Calls, LateAppend(c)
      PROVE  AnswersCached'
  BY <1>22, <1>1, <1>2, <1>4, CachedFrame DEF LateAppend
<1>23. QED
  BY <1>5, <1>6, <1>7, <1>8, <1>9, <1>10, <1>11, <1>12, <1>13, <1>14, <1>15,
    <1>16, <1>17, <1>18, <1>19, <1>20, <1>21, <1>22
     DEF Next, CallStep, Failure, Environment

\* A call whose key is cached leaves its lookup only with an answer.
LEMMA LookupEnds ==
    ASSUME IInv, Next, NEW e \in Calls, pc[e] = "lookup", cache[KeyOf(e)] # None
    PROVE  pc'[e] = "lookup" \/ answer'[e] # None
<1> DEFINE Goal == pc'[e] = "lookup" \/ answer'[e] # None
<1>1. CallTypes
  BY TypeParts DEF IInv
<1>2. pc[e] = "lookup" /\ cache[KeyOf(e)] # None
  OBVIOUS
<1> USE DEF callVars, CallTypes
<1>3. ASSUME NEW c \in Calls, NEW g \in Processes, NEW r \in Requests,
             Receive(c, g, r)
      PROVE  Goal
  BY <1>3, <1>1, <1>2, Names, NoneIsNobody DEF Receive
<1>4. ASSUME NEW c \in Calls, Incr(c)
      PROVE  Goal
  BY <1>4, <1>1, <1>2, Names, NoneIsNobody
     DEF Incr, Admit, Goto, Answer, AnswerWith
<1>5. ASSUME NEW c \in Calls, Expire(c)
      PROVE  Goal
  BY <1>5, <1>1, <1>2, Names, NoneIsNobody
     DEF Expire, Admit, Goto, Answer, AnswerWith
<1>6. ASSUME NEW c \in Calls, Lookup(c)
      PROVE  Goal
  <2>1. CASE c = e
    <3>1. KeyOf(e) \in Keys /\ RedisTypes
      BY <1>2, WaitingFacts, TypeParts DEF Waiting, IInv
    <3>2. cache[KeyOf(e)] \in Calls
      BY <3>1, <1>2 DEF RedisTypes
    <3>3. <<"accepted", cache[KeyOf(e)]>> # None
      BY <3>2, NoneIsNobody, Names
    <3>4. answer' = [answer EXCEPT ![e] = <<"accepted", cache[KeyOf(e)]>>]
      BY <1>6, <2>1, <1>2 DEF Lookup, AnswerWith
    <3>5. QED  BY <3>3, <3>4, <1>1
  <2>2. CASE c # e
    <3>1. PICK step : pc' = [pc EXCEPT ![c] = step]
      BY <1>6 DEF Lookup, TakeProducer, Goto, Answer, AnswerWith
    <3>2. QED  BY <3>1, <2>2, <1>1, <1>2
  <2>3. QED  BY <2>1, <2>2
<1>7. ASSUME NEW c \in Calls, Started(c)
      PROVE  Goal
  BY <1>7, <1>1, <1>2, Names, NoneIsNobody DEF Started
<1>8. ASSUME NEW c \in Calls, SendAcknowledged(c)
      PROVE  Goal
  BY <1>8, <1>1, <1>2, Names, NoneIsNobody DEF SendAcknowledged, RecordSuccess
<1>9. ASSUME NEW c \in Calls, SendTimesOut(c)
      PROVE  Goal
  BY <1>9, <1>1, <1>2, Names, NoneIsNobody
     DEF SendTimesOut, FailAndReset, RecordFailure, Answer, AnswerWith
<1>10. ASSUME NEW c \in Calls, SendFails(c)
      PROVE  Goal
  BY <1>10, <1>1, <1>2, Names, NoneIsNobody
     DEF SendFails, FailAndReset, RecordFailure, Answer, AnswerWith
<1>11. ASSUME NEW c \in Calls, Stopped(c)
      PROVE  Goal
  BY <1>11, <1>1, <1>2, Names, NoneIsNobody DEF Stopped, Answer, AnswerWith
<1>12. ASSUME NEW c \in Calls, CacheResponse(c)
      PROVE  Goal
  BY <1>12, <1>1, <1>2, Names, NoneIsNobody
     DEF CacheResponse, Answer, AnswerWith
<1>13. ASSUME NEW c \in Calls, StartFails(c)
      PROVE  Goal
  BY <1>13, <1>1, <1>2, Names, NoneIsNobody DEF StartFails, Answer, AnswerWith
<1>14. ASSUME NEW c \in Calls, StopFails(c)
      PROVE  Goal
  BY <1>14, <1>1, <1>2, Names, NoneIsNobody DEF StopFails, Answer, AnswerWith
<1>15. ASSUME NEW c \in Calls, RedisRaises(c)
      PROVE  Goal
  BY <1>15, <1>1, <1>2, Names, NoneIsNobody DEF RedisRaises, Answer, AnswerWith
<1>16. ASSUME NEW g \in Processes, HalfOpen(g)
      PROVE  Goal
  BY <1>16, <1>1, <1>2, Names, NoneIsNobody DEF HalfOpen
<1>17. ASSUME NEW g \in Processes, CrashProcess(g)
      PROVE  Goal
  BY <1>17, <1>1, <1>2, Names, NoneIsNobody DEF CrashProcess
<1>18. ASSUME NEW u \in Users, WindowEnds(u)
      PROVE  Goal
  BY <1>18, <1>1, <1>2, Names, NoneIsNobody DEF WindowEnds
<1>19. ASSUME NEW k \in Keys, CacheExpires(k)
      PROVE  Goal
  BY <1>19, <1>1, <1>2, Names, NoneIsNobody DEF CacheExpires
<1>20. ASSUME NEW c \in Calls, LateAppend(c)
      PROVE  Goal
  BY <1>20, <1>1, <1>2, Names, NoneIsNobody DEF LateAppend
<1>21. QED
  BY <1>3, <1>4, <1>5, <1>6, <1>7, <1>8, <1>9, <1>10, <1>11, <1>12, <1>13,
    <1>14, <1>15, <1>16, <1>17, <1>18, <1>19, <1>20
     DEF Next, CallStep, Failure, Environment

-----------------------------------------------------------------------------
(* The theorems.                                                            *)

\* The initial states satisfy the invariant.
LEMMA InitInvariant ==
    ASSUME Init
    PROVE  IInv
<1>1. RedisTypes /\ ProcessTypes /\ TopicTypes
  BY GatewayAssumption DEF Init, RedisTypes, ProcessTypes, TopicTypes
<1>2. CallTypes
  BY Names DEF Init, CallTypes
<1>3. GatewayTypeOK
  BY <1>1, <1>2, TypeParts
<1>4. Received /\ StoredIsQueued /\ AcceptedIsQueued
  BY DEF Init, Received, StoredIsQueued, AcceptedIsQueued, Done
<1>5. Limiter /\ UntimedCostsFailures
  BY GatewayAssumption DEF Init, Limiter, UntimedCostsFailures
<1>6. Undamaged /\ RefusalsCostFailures /\ OwnProducers
  BY DEF Init, Undamaged, RefusalsCostFailures, OwnProducers
<1>7. DroppedCostCalls
  <2>1. Dropped = {} /\ FailedCalls = {}
    BY DEF Init, Dropped, FailedCalls, Done
  <2>2. QED  BY <2>1, FS_EmptySet DEF DroppedCostCalls
<1>8. BreakerMatchesCount /\ AnswersCached
  BY GatewayAssumption DEF Init, BreakerMatchesCount, AnswersCached, Done
<1>9. QED  BY <1>3, <1>4, <1>5, <1>6, <1>7, <1>8 DEF IInv

\* So does every state a step leads to.
LEMMA StepInvariant ==
    ASSUME IInv, [Next]_vars
    PROVE  IInv'
<1>1. CASE Next
  BY <1>1, TypeStep, ReceivedStep, QueuedStep, LimiterStep, UntimedStep,
     BreakerStep, UndamagedStep, OwnStep, DroppedStep, CachedStep DEF IInv
<1>2. CASE UNCHANGED vars
  <2>1. UNCHANGED <<count, timed, admitted, cache, producer, health, failures,
                    breaker, pc, process, request, prod, answer, queued, late,
                    faults>>
    BY <1>2 DEF vars, redisVars, processVars, callVars, topicVars
  <2>2. GatewayTypeOK'
    BY <2>1 DEF IInv, GatewayTypeOK
  <2>3. Received' /\ StoredIsQueued' /\ AcceptedIsQueued'
    BY <2>1 DEF IInv, Received, StoredIsQueued, AcceptedIsQueued, Done
  <2>4. Limiter' /\ UntimedCostsFailures'
    BY <2>1 DEF IInv, Limiter, UntimedCostsFailures, UserOf
  <2>5. Undamaged' /\ RefusalsCostFailures' /\ OwnProducers'
    BY <2>1 DEF IInv, Undamaged, RefusalsCostFailures, OwnProducers
  <2>6. DroppedCostCalls'
    <3>1. Dropped' = Dropped /\ FailedCalls' = FailedCalls
      BY <2>1 DEF Dropped, FailedCalls, Done
    <3>2. QED  BY <3>1 DEF IInv, DroppedCostCalls
  <2>7. BreakerMatchesCount' /\ AnswersCached'
    BY <2>1 DEF IInv, BreakerMatchesCount, AnswersCached, Done, KeyOf
  <2>8. QED  BY <2>2, <2>3, <2>4, <2>5, <2>6, <2>7 DEF IInv
<1>3. QED  BY <1>1, <1>2

\* The inductive invariant holds whatever the calls, processes and failures.
THEOREM Invariance == SafeSpec => []IInv
<1>1. Init => IInv
  BY InitInvariant
<1>2. IInv /\ [Next]_vars => IInv'
  BY StepInvariant
<1>3. QED  BY <1>1, <1>2, PTL DEF SafeSpec

\* Every variable keeps its type; a call that sends or stops has a producer,
\* and a call is done exactly when it is answered.
THEOREM TypeCorrect == SafeSpec => []GatewayTypeOK
<1>1. IInv => GatewayTypeOK
  BY DEF IInv
<1>2. QED  BY <1>1, Invariance, PTL

\* A client that reads "accepted" has an event in payment-initiated.
THEOREM AcceptedPaymentsAreQueued == SafeSpec => []AcceptedIsQueued
<1>1. IInv => AcceptedIsQueued
  BY DEF IInv
<1>2. QED  BY <1>1, Invariance, PTL

\* No user gets more calls past the limiter in a window than the limit.
THEOREM LimitHolds == SafeSpec => []RateLimited
<1>1. IInv => RateLimited
  BY DEF IInv, Limiter, RateLimited
<1>2. QED  BY <1>1, Invariance, PTL

\* The breaker is closed exactly below the threshold.
THEOREM BreakerFollowsCount == SafeSpec => []BreakerMatchesCount
<1>1. IInv => BreakerMatchesCount
  BY DEF IInv
<1>2. QED  BY <1>1, Invariance, PTL

\* A leaked producer is a dropped one.
LEMMA LeaksAreDropped ==
    ASSUME IInv
    PROVE  LeaksCostCalls
<1>1. Leaked \in SUBSET Dropped /\ Dropped \in SUBSET Calls
  BY DEF Leaked, Dropped
<1>2. FailedCalls \in SUBSET Calls
  BY DEF FailedCalls
<1>3. IsFiniteSet(Dropped) /\ IsFiniteSet(FailedCalls)
  BY <1>1, <1>2, FS_Subset, GatewayAssumption
<1>4. IsFiniteSet(Leaked) /\ Cardinality(Leaked) <= Cardinality(Dropped)
  BY <1>1, <1>3, FS_Subset
<1>5. /\ Cardinality(Leaked) \in Nat /\ Cardinality(Dropped) \in Nat
      /\ Cardinality(FailedCalls) \in Nat
  BY <1>3, <1>4, FS_CardinalityType
<1>6. Cardinality(Dropped) <= Cardinality(FailedCalls)
  BY DEF IInv, DroppedCostCalls
<1>7. QED  BY <1>4, <1>5, <1>6 DEF LeaksCostCalls

\* Counters without an end and refusals cost a failure, and every leaked
\* producer cost a call of its own.
THEOREM DamageIsBounded == SafeSpec => []DamageCostsFailures
<1>1. IInv => DamageCostsFailures
  BY LeaksAreDropped DEF IInv, DamageCostsFailures
<1>2. QED  BY <1>1, Invariance, PTL

\* A retry that looks its key up after another call of the key was accepted is
\* answered from the cache, unless something failed.
THEOREM ReplaysAreAnswered == SafeSpec => ReplaysHitCache
<1>1. IInv /\ [Next]_vars =>
          [\A c, d \in Calls :
              /\ faults = 0
              /\ pc[c] = "lookup" /\ pc'[c] # "lookup"
              /\ Done(d, "accepted") /\ KeyOf(d) = KeyOf(c)
              => answer'[c] # None]_vars
  <2> SUFFICES ASSUME IInv, Next, NEW c \in Calls, NEW d \in Calls,
                      faults = 0, pc[c] = "lookup", pc'[c] # "lookup",
                      Done(d, "accepted"), KeyOf(d) = KeyOf(c)
               PROVE  answer'[c] # None
    OBVIOUS
  <2>1. cache[KeyOf(c)] # None
    BY DEF IInv, AnswersCached
  <2>2. QED  BY <2>1, LookupEnds
<1>2. QED  BY <1>1, Invariance, PTL DEF SafeSpec, ReplaysHitCache

=============================================================================
