------------------------------ MODULE Startup ------------------------------
(***************************************************************************)
(* How the four services of docker-compose.yaml come up and stay up:       *)
(* get_config (src/configuration/config_parser.py), the commands of the    *)
(* services, and what docker does with their containers.                   *)
(*                                                                         *)
(* Only the commands of the other three import the configuration; django   *)
(* gets it with its URLconf (project/urls.py, fsp/views.py).  Its script   *)
(* docker/bin/django-gunicorn first runs `manage.py migrate`, whose checks *)
(* import the URLconf, and then gunicorn, whatever came of that; a worker  *)
(* imports the URLconf with the first request that it can answer.  The     *)
(* other services are first started when django is healthy.                *)
(*                                                                         *)
(* Abstractions                                                            *)
(*  - A comma separated variable is the sequence that split(",") gives, or *)
(*    Unset.  It has at least one item: "".split(",") is [""].             *)
(*  - get_config is two steps, before and after the registry is asked for  *)
(*    Relay; an RPC call between two others fails like its neighbour.  In a*)
(*    request it is one step.                                              *)
(*  - Five failed health checks are one step, and none fails that could    *)
(*    have been answered.  Docker compose alone asks for the verdict, so   *)
(*    it is kept up to date only until that is done.                       *)
(*  - Addresses of Relay are numbered in the order of their deployment.    *)
(*  - Database and redis are up: their outages are in other modules.  Where*)
(*    indexing starts is in DataProcessor, deletion in ProtocolStore.      *)
(***************************************************************************)
EXTENDS Integers, Sequences

CONSTANTS
    Environments,          \* what .env may hold
    Texts,                 \* what may stand between two commas
    Unset,                 \* a variable that is not there
    Blank,                 \* the empty text between two commas
    None,                  \* Python's None
    Workers,               \* gunicorn's processes
    MaxRelay               \* bound: deployments of Relay after the first

Protocols == {"FTSO", "FDC"}
Services == {"django", "process-ftso-data", "process-fdc-data", "delete-history"}
Indexers == {"process-ftso-data", "process-fdc-data"}

\* depends_on django: service_healthy.
Dependents == Services \ {"django"}

\* Chain ids of flare, coston2, songbird and coston.
KnownChains == {14, 114, 19, 16}

ListVariables == {"LOGGING_NAMES", "URLS", "API_KEYS"}

ASSUME EnvironmentsAssumption ==
    /\ MaxRelay \in Nat
    /\ None # Blank
    /\ \A e \in Environments, p \in Protocols, v \in ListVariables :
          \/ e[p][v] = Unset
          \/ e[p][v] \in Seq(Texts) /\ e[p][v] # <<>>

VARIABLES
    env,                   \* .env
    rpc,                   \* the RPC node: "up" or "down"
    relay,                 \* Relay's address in FlareContractRegistry
    compose,               \* docker compose up: "waiting" for django, "done"
                           \* when the others are started, or "failed"
    health,                \* docker's verdict on django
    migrated,              \* whether the tables exist
    pc,                    \* where each service is
    loaded,                \* the workers of django that have a configuration
    following,             \* the Relay address an indexer configured
    clients,               \* the providers an indexer was given
    since                  \* history: Relay's address when the process began

world == <<env, rpc, relay>>
deployment == <<compose, health, migrated>>
indexers == <<following, clients, since>>

vars == <<world, deployment, pc, loaded, indexers>>

\* An API key is never the empty text.
IsProtocolProvider(p) ==
    DOMAIN p = {"name", "url", "api_key"} /\ p.api_key # Blank

TypeOK ==
    /\ env \in Environments
    /\ rpc \in {"up", "down"}
    /\ relay \in 0 .. MaxRelay
    /\ compose \in {"waiting", "done", "failed"}
    /\ health \in {"starting", "healthy", "unhealthy"}
    /\ migrated \in BOOLEAN
    /\ pc \in [Services -> {"created", "down", "connecting", "configuring",
                            "handling", "running"}]
    /\ loaded \in SUBSET Workers
    /\ following \in [Indexers -> 0 .. MaxRelay]
    /\ DOMAIN clients = Indexers
    /\ \A s \in Indexers : \A i \in DOMAIN clients[s] :
          IsProtocolProvider(clients[s][i])
    /\ since \in [Indexers -> 0 .. MaxRelay]

Init ==
    /\ env \in Environments
    /\ rpc \in {"up", "down"}
    /\ relay = 0
    /\ compose = "waiting"
    /\ health = "starting"
    /\ migrated \in BOOLEAN
    /\ pc = [s \in Services |-> IF s = "django" THEN "down" ELSE "created"]
    /\ loaded = {}
    /\ following = [s \in Indexers |-> 0]
    /\ clients = [s \in Indexers |-> <<>>]
    /\ since = [s \in Indexers |-> 0]

-----------------------------------------------------------------------------
(* parse_protocol_providers                                                *)

\* Any one of the three variables missing turns the protocol off.
IsGiven(protocol) == \A v \in ListVariables : env[protocol][v] # Unset

\* len(urls) != len(keys) != len(names) is two comparisons, not three.
LengthsDiffer(protocol) ==
    /\ Len(env[protocol]["URLS"]) # Len(env[protocol]["API_KEYS"])
    /\ Len(env[protocol]["API_KEYS"]) # Len(env[protocol]["LOGGING_NAMES"])

Lengths(protocol) == {Len(env[protocol][v]) : v \in ListVariables}

\* Mutant: zip without strict=True stops at the shortest list.
ZipTruncates(protocol) == TRUE

\* zip(strict=True) raises a ValueError unless all lengths are equal.
ZipAccepts(protocol) == \A m, n \in Lengths(protocol) : m = n

\* Mutant: a protocol that is commented out is an error.
ParsesOnlyGiven(protocol) ==
    IsGiven(protocol) /\ ~LengthsDiffer(protocol) /\ ZipAccepts(protocol)

Parses(protocol) ==
    IsGiven(protocol) => ~LengthsDiffer(protocol) /\ ZipAccepts(protocol)

\* Mutant: the key is taken as it is.
ApiKeyAsIs(key) == key

ApiKey(key) == IF key = Blank THEN None ELSE key

\* zip stops at the end of the shortest list.
Positions(protocol) ==
    {i \in DOMAIN env[protocol]["URLS"] :
        \A v \in ListVariables : i \in DOMAIN env[protocol][v]}

Providers(protocol) ==
    IF ~IsGiven(protocol) THEN <<>>
    ELSE [i \in Positions(protocol) |->
            [name    |-> env[protocol]["LOGGING_NAMES"][i],
             url     |-> env[protocol]["URLS"][i],
             api_key |-> ApiKey(env[protocol]["API_KEYS"][i])]]

-----------------------------------------------------------------------------
(* get_config                                                              *)

\* RPC_URL is set, is_connected, and the chain's id, read twice, is known.
Connects ==
    /\ env.rpc_url # Unset
    /\ rpc = "up"
    /\ env.chain \in KnownChains

\* The registry, the lists of both protocols, and the settings of indexing:
\* int() raises for what is not a number, and the latest block is read although
\* the start height may be configured.
Configures ==
    /\ rpc = "up"
    /\ \A p \in Protocols : Parses(p)
    /\ env.indexing_in_numbers

-----------------------------------------------------------------------------
(* A service                                                               *)

Goes(s, to) == pc' = [pc EXCEPT ![s] = to]

\* restart: unless-stopped.  django-gunicorn may be told not to migrate.
Start(s) ==
    /\ pc[s] = "down"
    /\ Goes(s, IF s = "django" /\ ~env.auto_migrate THEN "running"
                                                    ELSE "connecting")
    /\ since' = IF s \in Indexers THEN [since EXCEPT ![s] = relay] ELSE since
    /\ UNCHANGED <<world, deployment, loaded, following, clients>>

\* An exception out of get_config ends the process.  It ends only migrate in
\* django-gunicorn, which has no `set -e` and goes on with exec gunicorn.
ConfigError(s) == Goes(s, IF s = "django" THEN "running" ELSE "down")

Connect(s) ==
    /\ pc[s] = "connecting"
    /\ IF Connects THEN Goes(s, "configuring") ELSE ConfigError(s)
    /\ UNCHANGED <<world, deployment, loaded, indexers>>

\* Mutant: the address is hard-coded, as that of the registry is.
RelayAddressFixed == 0

RelayAddress == relay

Configure(s) ==
    /\ pc[s] = "configuring"
    /\ IF Configures THEN Goes(s, "handling") ELSE ConfigError(s)
    /\ following' = IF Configures /\ s \in Indexers
                    THEN [following EXCEPT ![s] = RelayAddress]
                    ELSE following
    /\ UNCHANGED <<world, deployment, loaded, clients, since>>

ProtocolOf(s) == IF s = "process-ftso-data" THEN "FTSO" ELSE "FDC"

\* Command.handle of process_ftso_data and process_fdc_data returns when there
\* are no providers; the first query of run() raises when there are no tables.
\* An irresponsive provider is only logged.
HandleIndexer(s) ==
    /\ s \in Indexers
    /\ pc[s] = "handling"
    /\ IF Providers(ProtocolOf(s)) = <<>> \/ ~migrated
       THEN Goes(s, "down") /\ UNCHANGED clients
       ELSE /\ Goes(s, "running")
            /\ clients' = [clients EXCEPT ![s] = Providers(ProtocolOf(s))]
    /\ UNCHANGED <<world, deployment, loaded, following, since>>

\* delete_history returns when HISTORY_KEEP_ROUNDS is not a number.
HandleDeleteHistory(s) ==
    /\ s = "delete-history"
    /\ pc[s] = "handling"
    /\ Goes(s, IF env.history = Unset THEN "down" ELSE "running")
    /\ UNCHANGED <<world, deployment, loaded, indexers>>

\* manage.py migrate has passed its checks; gunicorn follows.
MigrateDjango(s) ==
    /\ s = "django"
    /\ pc[s] = "handling"
    /\ migrated' = TRUE
    /\ Goes(s, "running")
    /\ UNCHANGED <<world, compose, health, loaded, indexers>>

Boot(s) ==
    \/ Start(s)
    \/ Connect(s)
    \/ Configure(s)
    \/ HandleIndexer(s)
    \/ HandleDeleteHistory(s)
    \/ MigrateDjango(s)

\* An exception that nothing catches (an RPC error in run(), for one), a kill.
Dies(s) ==
    /\ pc[s] = "running"
    /\ Goes(s, "down")
    /\ loaded' = IF s = "django" THEN {} ELSE loaded
    /\ health' = IF s = "django" /\ compose # "done" THEN "starting" ELSE health
    /\ following' = IF s \in Indexers THEN [following EXCEPT ![s] = 0] ELSE following
    /\ clients' = IF s \in Indexers THEN [clients EXCEPT ![s] = <<>>] ELSE clients
    /\ UNCHANGED <<world, compose, migrated, since>>

-----------------------------------------------------------------------------
(* Requests to django                                                      *)

\* Every other request is answered 500, and the next one tries again.
CanAnswer(w) == w \in loaded \/ (Connects /\ Configures)

Answer(w) ==
    /\ pc["django"] = "running"
    /\ CanAnswer(w)
    /\ loaded' = loaded \cup {w}
    /\ UNCHANGED <<world, pc, indexers>>

ServeRequest(w) == Answer(w) /\ UNCHANGED deployment

CheckPasses(w) ==
    /\ Answer(w)
    /\ health' = "healthy"
    /\ UNCHANGED <<compose, migrated>>

\* Five times in a row: gunicorn does not listen yet, or a worker answers 500.
CheckFails ==
    /\ compose # "done"
    /\ pc["django"] # "down"
    /\ pc["django"] = "running" => \E w \in Workers : ~CanAnswer(w)
    /\ health' = "unhealthy"
    /\ UNCHANGED <<world, compose, migrated, pc, loaded, indexers>>

\* gunicorn replaces it.
WorkerDies(w) ==
    /\ loaded' = loaded \ {w}
    /\ UNCHANGED <<world, deployment, pc, indexers>>

-----------------------------------------------------------------------------
(* docker compose up                                                       *)

ComposeStartsDependents ==
    /\ compose = "waiting"
    /\ health = "healthy"
    /\ compose' = "done"
    /\ pc' = [s \in Services |-> IF s \in Dependents THEN "down" ELSE pc[s]]
    /\ UNCHANGED <<world, health, migrated, loaded, indexers>>

\* "dependency failed to start": the other services stay as they are.
ComposeFails ==
    /\ compose = "waiting"
    /\ health = "unhealthy"
    /\ compose' = "failed"
    /\ UNCHANGED <<world, health, migrated, pc, loaded, indexers>>

\* Somebody runs it again.
ComposeUp ==
    /\ compose = "failed"
    /\ compose' = "waiting"
    /\ UNCHANGED <<world, health, migrated, pc, loaded, indexers>>

-----------------------------------------------------------------------------
(* The environment                                                         *)

RpcChanges ==
    /\ rpc' = IF rpc = "up" THEN "down" ELSE "up"
    /\ UNCHANGED <<env, relay, deployment, pc, loaded, indexers>>

RelayIsRedeployed ==
    /\ relay < MaxRelay
    /\ relay' = relay + 1
    /\ UNCHANGED <<env, rpc, deployment, pc, loaded, indexers>>

Next ==
    \/ \E s \in Services : Boot(s) \/ Dies(s)
    \/ \E w \in Workers : ServeRequest(w) \/ CheckPasses(w) \/ WorkerDies(w)
    \/ CheckFails
    \/ ComposeStartsDependents \/ ComposeFails \/ ComposeUp
    \/ RpcChanges
    \/ RelayIsRedeployed

Spec == Init /\ [][Next]_vars

\* docker restarts what ended and checks django every ten seconds, docker
\* compose looks at what it waits for, and a process that starts gets on with
\* it.  Nothing is assumed of the RPC node and of the operator.
FairSpec ==
    /\ Spec
    /\ \A s \in Services : WF_vars(Boot(s))
    /\ WF_vars(\E w \in Workers : CheckPasses(w))
    /\ WF_vars(ComposeStartsDependents)

-----------------------------------------------------------------------------
(* Properties                                                              *)

SameLength(protocol) ==
    \A v, w \in ListVariables :
        Len(env[protocol][v]) = Len(env[protocol][w])

\* No list that is given has another length than the others of its protocol.
ListsMatch == \A p \in Protocols : IsGiven(p) => SameLength(p)

\* Some service works with the configuration, or the deployment is done.
InUse ==
    \/ compose = "done"
    \/ loaded # {}
    \/ \E s \in Dependents : pc[s] = "running"

\* An indexer runs with all of its own providers, each with the name, URL and
\* key at its place, or not at all; and a bad list of either protocol does not
\* pass unnoticed: no other service runs with it, django answers nothing but
\* 500, and docker compose up does not get done (config_parser.py:84, which
\* compares only two pairs of lengths, and 89-92).
RunsAsConfigured ==
    /\ InUse => ListsMatch
    /\ \A s \in Indexers : pc[s] = "running" =>
          LET given == env[ProtocolOf(s)]
              keyless(i) == given["API_KEYS"][i] = Blank
          IN  /\ \A v \in ListVariables :
                    given[v] # Unset /\ Len(given[v]) = Len(clients[s])
              /\ \A i \in DOMAIN clients[s] :
                    /\ clients[s][i].name = given["LOGGING_NAMES"][i]
                    /\ clients[s][i].url = given["URLS"][i]
                    /\ clients[s][i].api_key =
                          IF keyless(i) THEN None ELSE given["API_KEYS"][i]

\* An indexer never follows a Relay contract that had been replaced when its
\* process began: a restart is all that a new deployment of Relay asks for
\* (config_parser.py:18-21 on the registry).
RestartFollowsRelay ==
    \A s \in Indexers : pc[s] \in {"handling", "running"}
        => following[s] >= since[s]

\* What the configuration asks to run.
Wanted(s) ==
    /\ env.rpc_url # Unset
    /\ env.chain \in KnownChains
    /\ env.indexing_in_numbers
    /\ ListsMatch
    /\ s \in Indexers => IsGiven(ProtocolOf(s))
    /\ s = "delete-history" => env.history # Unset

\* django's container runs whatever happens: it is up when it can answer.
Up(s) == IF s = "django" THEN loaded # {} ELSE pc[s] = "running"

\* However the RPC node failed while services started and ran, once it stays
\* up every service the configuration asks for comes up, again after every
\* crash; also with one protocol commented out (README.md:44).  The outage may
\* leave two things behind that nothing in the deployment repairs, so it is
\* said of them that somebody did: a docker compose up that failed because
\* django was unhealthy is repeated, and the migrations that a failed migrate
\* skipped were made at some time.
HealsAfterOutage ==
    (/\ <>[](rpc = "up")
     /\ <>[](pc["django"] = "running")
     /\ []<>(compose # "failed")
     /\ <>[]migrated)
        => \A s \in Services : Wanted(s) => []<>Up(s)

=============================================================================
