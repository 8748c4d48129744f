--------------------------- MODULE StartupProofs ---------------------------
(***************************************************************************)
(* What Startup guarantees for every configuration, RPC outage and number  *)
(* of Relay deployments, checked by TLAPS.                                 *)
(***************************************************************************)
EXTENDS Startup, SequenceTheorems, TLAPS

-----------------------------------------------------------------------------
(* The lists                                                               *)

\* A given variable is a list.
LEMMA GivenIsList ==
    ASSUME env \in Environments, NEW p \in Protocols, IsGiven(p),
           NEW v \in ListVariables
    PROVE  /\ env[p][v] \in Seq(Texts)
           /\ Len(env[p][v]) \in Nat
           /\ DOMAIN env[p][v] = 1 .. Len(env[p][v])
<1>1. env[p][v] \in Seq(Texts)
  BY EnvironmentsAssumption DEF IsGiven
<1> QED BY <1>1, LenProperties

\* Lists that zip(strict=True) accepts have one length.
LEMMA AcceptedSameLength ==
    ASSUME NEW p \in Protocols, IsGiven(p), Parses(p)
    PROVE  SameLength(p)
  BY DEF Parses, ZipAccepts, Lengths, SameLength

\* The providers of such lists are as many, each with the items at its place.
LEMMA ProvidersMatchLists ==
    ASSUME env \in Environments, NEW p \in Protocols, IsGiven(p), Parses(p)
    PROVE  /\ \A v \in ListVariables : Len(Providers(p)) = Len(env[p][v])
           /\ \A i \in DOMAIN Providers(p) :
                 Providers(p)[i] = [name    |-> env[p]["LOGGING_NAMES"][i],
                                    url     |-> env[p]["URLS"][i],
                                    api_key |-> ApiKey(env[p]["API_KEYS"][i])]
<1> DEFINE n == Len(env[p]["URLS"])
<1>1. "URLS" \in ListVariables
  BY DEF ListVariables
<1>2. \A v \in ListVariables : Len(env[p][v]) = n
  BY <1>1, AcceptedSameLength DEF SameLength
<1>3. n \in Nat /\ \A v \in ListVariables : DOMAIN env[p][v] = 1 .. n
  BY <1>1, <1>2, GivenIsList
<1>4. Positions(p) = 1 .. n
  BY <1>1, <1>3 DEF Positions
<1> DEFINE provider(i) == [name    |-> env[p]["LOGGING_NAMES"][i],
                           url     |-> env[p]["URLS"][i],
                           api_key |-> ApiKey(env[p]["API_KEYS"][i])]
<1>5. Providers(p) = [i \in 1 .. n |-> provider(i)]
  BY <1>4 DEF Providers
<1> HIDE DEF provider, n
<1>6. Len(Providers(p)) = n
  BY <1>3, <1>5
<1>7. \A i \in DOMAIN Providers(p) : Providers(p)[i] = provider(i)
  BY <1>5
<1> QED BY <1>2, <1>6, <1>7 DEF provider, n

\* Every provider read from the lists is one.
LEMMA ProvidersAreProviders ==
    ASSUME NEW p \in Protocols, NEW i \in DOMAIN Providers(p)
    PROVE  IsProtocolProvider(Providers(p)[i])
<1>1. CASE ~IsGiven(p)
  BY <1>1 DEF Providers
<1>2. CASE IsGiven(p)
  <2>1. Providers(p)[i] = [name    |-> env[p]["LOGGING_NAMES"][i],
                           url     |-> env[p]["URLS"][i],
                           api_key |-> ApiKey(env[p]["API_KEYS"][i])]
    BY <1>2 DEF Providers
  <2> QED BY <2>1, EnvironmentsAssumption DEF IsProtocolProvider, ApiKey
<1> QED BY <1>1, <1>2

-----------------------------------------------------------------------------
(* The inductive invariant                                                 *)

\* A service whose get_config has succeeded; gunicorn runs without that.
HasConfig(s) == pc[s] = "handling" \/ (pc[s] = "running" /\ s # "django")

\* Something is there that takes a configuration.
ConfigInUse ==
    \/ \E s \in Services : HasConfig(s)
    \/ loaded # {}
    \/ health = "healthy"
    \/ compose = "done"

\* A configuration comes only of lists that are accepted, of both protocols.
ListsAccepted == ConfigInUse => \A p \in Protocols : Parses(p)

\* A running indexer has the providers of its own protocol.
HasItsProviders ==
    \A s \in Indexers : pc[s] = "running"
        => /\ IsGiven(ProtocolOf(s))
           /\ clients[s] = Providers(ProtocolOf(s))

\* An indexer knows no Relay newer than the registry's.
SinceInThePast == \A s \in Indexers : since[s] <= relay

IInv ==
    /\ TypeOK
    /\ ListsAccepted
    /\ HasItsProviders
    /\ SinceInThePast
    /\ RestartFollowsRelay

LEMMA InitInv == Init => IInv
<1> SUFFICES ASSUME Init
             PROVE  IInv
  OBVIOUS
<1> USE EnvironmentsAssumption
<1>1. TypeOK
  BY DEF Init, TypeOK
<1>2. \A s \in Services : pc[s] \in {"down", "created"}
  BY DEF Init
<1>3. Indexers \subseteq Services
  BY DEF Indexers, Services
<1>4. SinceInThePast
  BY DEF Init, SinceInThePast
<1>5. ~ConfigInUse
  BY <1>2 DEF Init, ConfigInUse, HasConfig
<1> QED BY <1>1, <1>2, <1>3, <1>4, <1>5
        DEF IInv, ListsAccepted, HasItsProviders, RestartFollowsRelay

\* What the lists say depends on .env alone, and that stays.
LEMMA ListsStay ==
    ASSUME env' = env, NEW p \in Protocols
    PROVE  /\ Parses(p)' = Parses(p)
           /\ IsGiven(p)' = IsGiven(p)
           /\ Providers(p)' = Providers(p)
           /\ SameLength(p)' = SameLength(p)
  BY DEF Parses, IsGiven, Providers, Positions, SameLength, LengthsDiffer,
         ZipAccepts, Lengths

LEMMA NextInv == IInv /\ [Next]_vars => IInv'
<1> SUFFICES ASSUME IInv, [Next]_vars
             PROVE  IInv'
  OBVIOUS
<1>0. /\ TypeOK /\ ListsAccepted /\ HasItsProviders
      /\ SinceInThePast /\ RestartFollowsRelay
  BY DEF IInv
<1>e. env' = env
  BY DEF Next, vars, world, Boot, Start, Connect, Configure, HandleIndexer,
         HandleDeleteHistory, MigrateDjango, Dies, Answer, ServeRequest,
         CheckPasses, CheckFails, WorkerDies, ComposeStartsDependents,
         ComposeFails, ComposeUp, RpcChanges, RelayIsRedeployed
<1>p. \A s \in Services : ProtocolOf(s) \in Protocols
  BY DEF ProtocolOf, Protocols
<1>i. Indexers \subseteq Services /\ "django" \notin Indexers
  BY DEF Indexers, Services
<1> USE EnvironmentsAssumption DEF IInv, world, deployment, indexers
<1>1. ASSUME NEW s \in Services, Start(s)
      PROVE  IInv'
  <2>1. TypeOK'
    BY <1>0, <1>1 DEF TypeOK, Start, Goes
  <2>2. ListsAccepted'
    BY <1>0, <1>1, <1>e, ListsStay
       DEF TypeOK, ListsAccepted, ConfigInUse, HasConfig, Start, Goes
  <2>3. HasItsProviders'
    BY <1>0, <1>1, <1>e, <1>p, <1>i, ListsStay
       DEF TypeOK, HasItsProviders, Start, Goes
  <2>4. SinceInThePast' /\ RestartFollowsRelay'
    BY <1>0, <1>1, <1>i
       DEF TypeOK, SinceInThePast, RestartFollowsRelay, Start, Goes
  <2> QED BY <2>1, <2>2, <2>3, <2>4
<1>2. ASSUME NEW s \in Services, Connect(s)
      PROVE  IInv'
  <2>1. TypeOK'
    BY <1>0, <1>2 DEF TypeOK, Connect, ConfigError, Goes
  <2>2. ListsAccepted'
    BY <1>0, <1>2, <1>e, ListsStay
       DEF TypeOK, ListsAccepted, ConfigInUse, HasConfig, Connect, ConfigError, Goes
  <2>3. HasItsProviders'
    BY <1>0, <1>2, <1>e, <1>p, <1>i, ListsStay
       DEF TypeOK, HasItsProviders, Connect, ConfigError, Goes
  <2>4. SinceInThePast' /\ RestartFollowsRelay'
    BY <1>0, <1>2, <1>i
       DEF TypeOK, SinceInThePast, RestartFollowsRelay, Connect, ConfigError, Goes
  <2> QED BY <2>1, <2>2, <2>3, <2>4
<1>3. ASSUME NEW s \in Services, Configure(s)
      PROVE  IInv'
  <2>1. TypeOK'
    BY <1>0, <1>3 DEF TypeOK, Configure, ConfigError, Goes, RelayAddress
  <2>2. ListsAccepted'
    BY <1>0, <1>3, <1>e, ListsStay
       DEF TypeOK, ListsAccepted, ConfigInUse, HasConfig, Configure, Configures,
           ConfigError, Goes
  <2>3. HasItsProviders'
    BY <1>0, <1>3, <1>e, <1>p, <1>i, ListsStay
       DEF TypeOK, HasItsProviders, Configure, ConfigError, Goes, RelayAddress
  <2>4. SinceInThePast' /\ RestartFollowsRelay'
    BY <1>0, <1>3, <1>i
       DEF TypeOK, SinceInThePast, RestartFollowsRelay, Configure, ConfigError, Goes,
           RelayAddress
  <2> QED BY <2>1, <2>2, <2>3, <2>4
<1>4. ASSUME NEW s \in Services, HandleIndexer(s)
      PROVE  IInv'
  <2>1. TypeOK'
    <3>1. \A i \in DOMAIN Providers(ProtocolOf(s)) :
             IsProtocolProvider(Providers(ProtocolOf(s))[i])
      BY <1>p, ProvidersAreProviders
    <3> QED BY <1>0, <1>4, <3>1 DEF TypeOK, HandleIndexer, Goes
  <2>2. ListsAccepted'
    BY <1>0, <1>4, <1>e, ListsStay
       DEF TypeOK, ListsAccepted, ConfigInUse, HasConfig, HandleIndexer, Goes
  <2>3. HasItsProviders'
    <3>1. Providers(ProtocolOf(s)) # <<>> => IsGiven(ProtocolOf(s))
      BY DEF Providers
    <3> QED BY <1>0, <1>4, <1>e, <1>p, <1>i, <3>1, ListsStay
            DEF TypeOK, HasItsProviders, HandleIndexer, Goes
  <2>4. SinceInThePast' /\ RestartFollowsRelay'
    BY <1>0, <1>4, <1>i
       DEF TypeOK, SinceInThePast, RestartFollowsRelay, HandleIndexer, Goes
  <2> QED BY <2>1, <2>2, <2>3, <2>4
<1>5. ASSUME NEW s \in Services, HandleDeleteHistory(s) \/ MigrateDjango(s)
      PROVE  IInv'
  <2>1. s \notin Indexers
    BY <1>5 DEF HandleDeleteHistory, MigrateDjango, Indexers
  <2>2. TypeOK'
    BY <1>0, <1>5 DEF TypeOK, HandleDeleteHistory, MigrateDjango, Goes
  <2>3. ListsAccepted'
    BY <1>0, <1>5, <1>e, ListsStay
       DEF TypeOK, ListsAccepted, ConfigInUse, HasConfig, HandleDeleteHistory,
           MigrateDjango, Goes
  <2>4. HasItsProviders'
    BY <1>0, <1>5, <1>e, <1>p, <1>i, <2>1, ListsStay
       DEF TypeOK, HasItsProviders, HandleDeleteHistory, MigrateDjango, Goes
  <2>5. SinceInThePast' /\ RestartFollowsRelay'
    BY <1>0, <1>5, <1>i, <2>1
       DEF TypeOK, SinceInThePast, RestartFollowsRelay, HandleDeleteHistory,
           MigrateDjango, Goes
  <2> QED BY <2>2, <2>3, <2>4, <2>5
<1>6. ASSUME NEW s \in Services, Dies(s)
      PROVE  IInv'
  <2>1. TypeOK'
    BY <1>0, <1>6 DEF TypeOK, Dies, Goes
  <2>2. ListsAccepted'
    BY <1>0, <1>6, <1>e, ListsStay
       DEF TypeOK, ListsAccepted, ConfigInUse, HasConfig, Dies, Goes
  <2>3. HasItsProviders'
    BY <1>0, <1>6, <1>e, <1>p, <1>i, ListsStay
       DEF TypeOK, HasItsProviders, Dies, Goes
  <2>4. SinceInThePast' /\ RestartFollowsRelay'
    BY <1>0, <1>6, <1>i
       DEF TypeOK, SinceInThePast, RestartFollowsRelay, Dies, Goes
  <2> QED BY <2>1, <2>2, <2>3, <2>4
<1>7. ASSUME NEW w \in Workers, ServeRequest(w) \/ CheckPasses(w)
      PROVE  IInv'
  <2>1. Answer(w)
    BY <1>7 DEF ServeRequest, CheckPasses
  <2>2. TypeOK'
    BY <1>0, <1>7, <2>1 DEF TypeOK, ServeRequest, CheckPasses, Answer
  <2>3. ListsAccepted'
    <3>1. \A p \in Protocols : Parses(p)
      BY <1>0, <2>1 DEF ListsAccepted, ConfigInUse, Answer, CanAnswer, Configures
    <3> QED BY <1>e, <3>1, ListsStay DEF ListsAccepted
  <2>4. HasItsProviders'
    BY <1>0, <1>e, <1>p, <1>i, <2>1, ListsStay DEF HasItsProviders, Answer
  <2>5. SinceInThePast' /\ RestartFollowsRelay'
    BY <1>0, <2>1 DEF SinceInThePast, RestartFollowsRelay, Answer
  <2> QED BY <2>2, <2>3, <2>4, <2>5
<1>8. ASSUME \/ \E w \in Workers : WorkerDies(w)
             \/ CheckFails \/ ComposeFails \/ ComposeUp
      PROVE  IInv'
  <2>1. TypeOK'
    BY <1>0, <1>8 DEF TypeOK, WorkerDies, CheckFails, ComposeFails, ComposeUp
  <2>2. UNCHANGED <<pc, world, indexers>>
    BY <1>8 DEF WorkerDies, CheckFails, ComposeFails, ComposeUp
  <2>3. ListsAccepted'
    <3>1. ConfigInUse' => ConfigInUse
      BY <1>8, <2>2
         DEF ConfigInUse, HasConfig, WorkerDies, CheckFails, ComposeFails, ComposeUp
    <3> QED BY <1>0, <1>e, <3>1, ListsStay DEF ListsAccepted
  <2>4. HasItsProviders'
    BY <1>0, <1>e, <1>p, <1>i, <2>2, ListsStay DEF HasItsProviders
  <2>5. SinceInThePast' /\ RestartFollowsRelay'
    BY <1>0, <2>2 DEF SinceInThePast, RestartFollowsRelay
  <2> QED BY <2>1, <2>3, <2>4, <2>5
<1>9. ASSUME ComposeStartsDependents
      PROVE  IInv'
  <2>1. TypeOK'
    BY <1>0, <1>9 DEF TypeOK, ComposeStartsDependents
  <2>2. ListsAccepted'
    <3>1. \A p \in Protocols : Parses(p)
      BY <1>0, <1>9 DEF ListsAccepted, ConfigInUse, ComposeStartsDependents
    <3> QED BY <1>e, <3>1, ListsStay DEF ListsAccepted
  <2>3. \A s \in Indexers : pc'[s] = "down"
    BY <1>9, <1>i DEF ComposeStartsDependents, Dependents
  <2>4. HasItsProviders' /\ SinceInThePast' /\ RestartFollowsRelay'
    BY <1>0, <1>9, <2>3
       DEF HasItsProviders, SinceInThePast, RestartFollowsRelay,
           ComposeStartsDependents
  <2> QED BY <2>1, <2>2, <2>4
<1>10. CASE RpcChanges \/ RelayIsRedeployed
  <2>1. TypeOK'
    BY <1>0, <1>10 DEF TypeOK, RpcChanges, RelayIsRedeployed
  <2>2. ListsAccepted' /\ HasItsProviders'
    BY <1>0, <1>10, <1>e, <1>p, <1>i, ListsStay
       DEF ListsAccepted, ConfigInUse, HasConfig, HasItsProviders, RpcChanges,
           RelayIsRedeployed
  <2>3. SinceInThePast' /\ RestartFollowsRelay'
    BY <1>0, <1>10
       DEF TypeOK, SinceInThePast, RestartFollowsRelay, RpcChanges, RelayIsRedeployed
  <2> QED BY <2>1, <2>2, <2>3
<1>11. CASE UNCHANGED vars
  <2>1. TypeOK' /\ SinceInThePast' /\ RestartFollowsRelay'
    BY <1>0, <1>11 DEF vars, TypeOK, SinceInThePast, RestartFollowsRelay
  <2>2. ListsAccepted' /\ HasItsProviders'
    BY <1>0, <1>11, <1>e, <1>p, <1>i, ListsStay
       DEF vars, ListsAccepted, ConfigInUse, HasConfig, HasItsProviders
  <2> QED BY <2>1, <2>2
<1> QED BY <1>1, <1>2, <1>3, <1>4, <1>5, <1>6, <1>7, <1>8, <1>9, <1>10, <1>11
        DEF Next, Boot

-----------------------------------------------------------------------------
(* The results                                                             *)

\* The services' variables stay within their types.
THEOREM StartupTypeCorrect == Spec => []TypeOK
<1>1. IInv => TypeOK
  BY DEF IInv
<1> QED BY <1>1, InitInv, NextInv, PTL DEF Spec

\* Whatever is in .env, an indexer runs with all of its providers, each with
\* its own URL and key, or not at all; and with a bad list django answers
\* nothing, no other service runs and the deployment is not done.
THEOREM ServicesRunAsConfigured == Spec => []RunsAsConfigured
<1>1. IInv => RunsAsConfigured
  <2> SUFFICES ASSUME IInv
               PROVE  RunsAsConfigured
    OBVIOUS
  <2>1. InUse => \A p \in Protocols : Parses(p)
    <3>1. InUse => ConfigInUse
      BY DEF InUse, ConfigInUse, HasConfig, Dependents
    <3> QED BY <3>1 DEF IInv, ListsAccepted
  <2>2. InUse => ListsMatch
    BY <2>1, AcceptedSameLength DEF ListsMatch
  <2>3. ASSUME NEW s \in Indexers, pc[s] = "running"
        PROVE  LET given == env[ProtocolOf(s)]
               IN  /\ \A v \in ListVariables :
                         given[v] # Unset /\ Len(given[v]) = Len(clients[s])
                   /\ \A i \in DOMAIN clients[s] :
                         /\ clients[s][i].name = given["LOGGING_NAMES"][i]
                         /\ clients[s][i].url = given["URLS"][i]
                         /\ clients[s][i].api_key =
                              IF given["API_KEYS"][i] = Blank THEN None
                              ELSE given["API_KEYS"][i]
    <3>1. ProtocolOf(s) \in Protocols
      BY DEF ProtocolOf, Protocols
    <3>2. IsGiven(ProtocolOf(s)) /\ clients[s] = Providers(ProtocolOf(s))
      BY <2>3 DEF IInv, HasItsProviders
    <3>3. env \in Environments /\ \A p \in Protocols : Parses(p)
      BY <2>1, <2>3 DEF IInv, TypeOK, InUse, Dependents, Indexers, Services
    <3>4. /\ \A v \in ListVariables :
                Len(Providers(ProtocolOf(s))) = Len(env[ProtocolOf(s)][v])
          /\ \A i \in DOMAIN Providers(ProtocolOf(s)) :
                Providers(ProtocolOf(s))[i] =
                    [name    |-> env[ProtocolOf(s)]["LOGGING_NAMES"][i],
                     url     |-> env[ProtocolOf(s)]["URLS"][i],
                     api_key |-> ApiKey(env[ProtocolOf(s)]["API_KEYS"][i])]
      BY <3>1, <3>2, <3>3, ProvidersMatchLists
    <3> QED BY <3>2, <3>4 DEF IsGiven, ApiKey
  <2> QED BY <2>2, <2>3 DEF RunsAsConfigured
<1> QED BY <1>1, InitInv, NextInv, PTL DEF Spec

\* However often Relay is deployed anew, an indexer started after that never
\* follows an older one.
THEOREM RestartsFollowRelay == Spec => []RestartFollowsRelay
<1>1. IInv => RestartFollowsRelay
  BY DEF IInv
<1> QED BY <1>1, InitInv, NextInv, PTL DEF Spec

=============================================================================
