---------------------------- MODULE RequestAuth ----------------------------
(***************************************************************************)
(* Which handlers authenticate a request to an endpoint, and what each of  *)
(* them says (auth, cloudtasks/auth, get_auth_handlers of backend and      *)
(* broker).  All of it is computed from the configuration and the request; *)
(* HttpEndpoints has the state.                                            *)
(*                                                                         *)
(* A secret, a token and a signature are modelled by whether they are      *)
(* there and match, a time by how long ago it was.  A handler answers      *)
(* Accepts, or the status of its rejection, or ServerError when it raises. *)
(* An operator whose name ends in Mutant is a plausible slip in the code   *)
(* the operator after it models; no definition uses it.                    *)
(***************************************************************************)
EXTENDS Integers, Sequences

AUTH_ENDPOINTS == {"run", "run_one", "status", "execute", "purge"}

Accepts == 200
ServerError == 500

-----------------------------------------------------------------------------
(* The configuration of a backend.                                         *)

\* Where a secret may come from: the options, a setting, the environment.
Secret == [value: {"empty", "given"}, setting: {"unnamed", "empty", "given"},
           env: {"unnamed", "empty", "given"}]

Entry == [target: {"SharedSecretAuth", "HMACAuth", "StaffOnlyAuth",
                   "not importable", "not callable"},
          endpoints: SUBSET (AUTH_ENDPOINTS \cup {"misspelt"}),   \* all without ENDPOINTS
          secret: Secret, max_age: Nat]

\* broker: none, or the Cloud Tasks broker without a service account, with
\* one but no audience to be found, or with both.
Config == [broker: {"none", "no account", "no audience", "oidc"}, entries: Seq(Entry)]

Loads(entry) ==
  /\ entry.target \notin {"not importable", "not callable"}
  /\ entry.endpoints \subseteq AUTH_ENDPOINTS

\* All entries are loaded, whichever endpoint is called.
HandlersLoad(config) == \A i \in DOMAIN config.entries : Loads(config.entries[i])

\* The list of handlers, by position: that of the broker is at 0, before those
\* of the entries.
HandlerAt(config, i) == IF i = 0 THEN [target |-> "oidc"] ELSE config.entries[i]

BrokerHandlers(config) == IF config.broker = "oidc" THEN {0} ELSE {}

ConfiguredHandlers(config, endpoint) ==
  {i \in DOMAIN config.entries : endpoint \in config.entries[i].endpoints}

HandlersMutant(config, endpoint) == BrokerHandlers(config) \cup DOMAIN config.entries
Handlers(config, endpoint) ==
  BrokerHandlers(config) \cup ConfiguredHandlers(config, endpoint)

-----------------------------------------------------------------------------
(* What a request carries, and what a handler makes of it.                 *)

Credentials ==
  [authorization: {"none", "another scheme", "unknown token", "secret", "oidc token"},
   signature: {"none", "wrong", "right"},
   timestamp: {"none", "garbled", "number"},
   age: Int,       \* seconds since the timestamp, negative if it is ahead
   user: {"no middleware", "anonymous", "user", "staff"}]

\* A setting that is named and empty raises: the environment is not asked.
Resolves(secret) ==
  \/ secret.value = "given"
  \/ secret.setting = "given"
  \/ secret.setting = "unnamed" /\ secret.env = "given"

SharedSecretAuth(secret, c) ==
  IF ~Resolves(secret) THEN ServerError
  ELSE IF c.authorization = "secret" THEN Accepts ELSE 401

Expired(max_age, c) ==
  max_age # 0 /\ (c.timestamp # "number" \/ c.age > max_age \/ -c.age > max_age)

HMACAuth(secret, max_age, c) ==
  IF ~Resolves(secret) THEN ServerError
  ELSE IF c.signature = "right" /\ c.timestamp # "none" /\ ~Expired(max_age, c)
       THEN Accepts ELSE 401

StaffOnlyAuth(c) ==
  CASE c.user = "no middleware" -> ServerError
    [] c.user = "anonymous" -> 401
    [] c.user = "user" -> 403
    [] c.user = "staff" -> Accepts

\* An error of the verification is a rejection.
OIDC(c) == IF c.authorization = "oidc token" THEN Accepts ELSE 401

Verdict(handler, c) ==
  CASE handler.target = "SharedSecretAuth" -> SharedSecretAuth(handler.secret, c)
    [] handler.target = "HMACAuth" -> HMACAuth(handler.secret, handler.max_age, c)
    [] handler.target = "StaffOnlyAuth" -> StaffOnlyAuth(c)
    [] handler.target = "oidc" -> OIDC(c)
=============================================================================
