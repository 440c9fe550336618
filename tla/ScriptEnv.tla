------------------------------ MODULE ScriptEnv ------------------------------
(***************************************************************************)
(* The environment variables of a script: project_setup.sh keeps the        *)
(* secrets of the project and branch (stdci_libs/secrets_resolvers.py),     *)
(* gen_environ_conf of mock_runner.sh and run_code.sh serves what the       *)
(* project requests from them and from the environment of the job           *)
(* (ci_env_client.py, gdbm_db_resolvers.py).                                *)
(***************************************************************************)
EXTENDS Integers, SequencesExt, Maps, Picks

CONSTANTS SecretsFile,   \* a sequence of [projects, branches, names, data]; a
                         \* pattern is the set of what it matches
          HwVars         \* a sequence of variables that every script requests

\* A request: its name, perhaps, and value, or provider, secret and key or
\* variable; perhaps optional and default.
Missing == [missing |-> TRUE]   \* ResolverKeyError
Invalid == [error |-> TRUE]     \* any other exception
Value(v) == [value |-> v]

\* Secrets are data.
ASSUME SecretsAssumption ==
  /\ SecretsFile \in Seq(ToSet(SecretsFile)) /\ \A s \in ToSet(SecretsFile) : s.data # Missing
  /\ HwVars \in Seq(ToSet(HwVars))

Get(r, field, default) == IF field \in DOMAIN r THEN r[field] ELSE default

\* A slip: a secret of the project, or of the branch.
MutFilter(secrets, project, branch) ==
  Picked(secrets, {i \in DOMAIN secrets : \/ project \in secrets[i].projects
                                          \/ branch \in secrets[i].branches})

\* filter_secret_data
FilteredSecrets(secrets, project, branch) ==
  Picked(secrets, {i \in DOMAIN secrets : /\ project \in secrets[i].projects
                                          /\ branch \in secrets[i].branches})

\* gen_gdbm_from_dict: functions of the shell and private variables stay out.
Database(runtime) == [v \in {v \in DOMAIN runtime : runtime[v].safe} |-> runtime[v].value]

\* ci_secrets_file_resolver: the first secret whose pattern matches the name.
ResolvedSecret(secrets, name) ==
  LET matching == {i \in DOMAIN secrets : name \in secrets[i].names}
  IN IF matching = {} THEN Missing ELSE secrets[Min(matching)].data

\* secret_key_ref_provider: that the secret has no such key is no reason to
\* take the default.
SecretKeyRef(secrets, request) ==
  LET data == ResolvedSecret(secrets, request.secret)
  IN IF data = Missing THEN Missing
     ELSE IF request.key \in DOMAIN data THEN Value(data[request.key]) ELSE Invalid

\* gdbm_resolver.__call__
RuntimeEnv(database, request) ==
  IF request.variable \in DOMAIN database THEN Value(database[request.variable]) ELSE Missing

\* load_providers and the provider the request asks for.
Provided(request, secrets, database) ==
  CASE request.provider = "secretKeyRef" -> SecretKeyRef(secrets, request)
    [] request.provider = "runtimeEnv" -> RuntimeEnv(database, request)
    [] OTHER -> Invalid

\* serve_request
Served(request, secrets, database) ==
  CASE "name" \notin DOMAIN request -> Invalid
    [] "name" \in DOMAIN request /\ "value" \in DOMAIN request -> Value(request.value)
    [] "name" \in DOMAIN request /\ DOMAIN request \cap {"value", "provider"} = {} -> Invalid
    [] OTHER ->
         LET provided == Provided(request, secrets, database)
         IN IF provided # Missing THEN provided
            ELSE IF ~Get(request, "optional", "default" \in DOMAIN request) THEN Invalid
            ELSE IF "default" \in DOMAIN request THEN Value(request.default) ELSE Missing

\* gen_env_vars_from_requests: a later request for the same variable wins,
\* unless it is optional and there is nothing to serve it with.
EnvVars(requests, secrets, database) ==
  LET served == [i \in DOMAIN requests |-> Served(requests[i], secrets, database)]
      given == {i \in DOMAIN requests : "value" \in DOMAIN served[i]}
  IN IF Invalid \in Range(served) THEN Invalid
     ELSE [v \in {requests[i].name : i \in given} |->
             served[CHOOSE i \in given : requests[i].name = v
                      /\ \A k \in given : requests[k].name = v => k <= i].value]

\* gen_environ_conf
Environment(requests, secrets, runtime) ==
  LET database == Database(runtime)
      hardware == [i \in DOMAIN HwVars |-> [name |-> HwVars[i], provider |-> "runtimeEnv",
                                            variable |-> HwVars[i], optional |-> TRUE]]
      user == EnvVars(requests, secrets, database)
  IN IF user = Invalid THEN Invalid ELSE Over(EnvVars(hardware, secrets, database), user)
=============================================================================
