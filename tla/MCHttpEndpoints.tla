-------------------------- MODULE MCHttpEndpoints --------------------------
(* Instances of HttpEndpoints for TLC.                                     *)
EXTENDS HttpEndpoints, TLC

CONSTANTS t1, t2, r1, r2, r3, default, other

Nothing == [value |-> "empty", setting |-> "unnamed", env |-> "unnamed"]
FromSetting == [Nothing EXCEPT !.setting = "given", !.env = "empty"]
EmptySetting == [Nothing EXCEPT !.setting = "empty", !.env = "given"]

Handler(target, secret) ==
  [target |-> target, endpoints |-> AUTH_ENDPOINTS, secret |-> secret, max_age |-> 300]
Open == [broker |-> "none", entries |-> <<>>]

Stranger == [authorization |-> "none", signature |-> "none", timestamp |-> "none", age |-> 0,
             user |-> "anonymous"]

Run == [endpoint |-> "run", allowed_method |-> TRUE, credentials |-> Stranger,
        backend |-> default, body |-> "object", max_tasks |-> 2, task |-> NoTask,
        allow_retry |-> FALSE, fail_on_error |-> FALSE,
        days |-> 0, batch_size |-> 1, statuses |-> Completed, dry_run |-> FALSE]
Execute(t) == [Run EXCEPT !.endpoint = "execute", !.task = t]
Purge == [Run EXCEPT !.endpoint = "purge"]

AllOpen == [b \in Backends |-> Open]
Ready == [t \in Tasks |-> "READY"]
Calls(a, b, c) == r1 :> a @@ r2 :> b @@ r3 :> c

Busy ==
  [auth |-> AllOpen, requests |-> Requests,
   calls |-> Calls(Run, [Run EXCEPT !.endpoint = "run_one"], Run),
   backend_of |-> [t \in Tasks |-> default], table |-> Ready,
   others |-> TRUE, raises |-> FALSE]

\* Two batches and another worker over two tasks, three batches while a task
\* is enqueued; a batch, a retry and a purge; two purges and a retry, with
\* statements that fail; an execution of a task and another that may retry it.
Crowded ==
  {[Busy EXCEPT !.requests = {r1, r2}],
   [Busy EXCEPT !.table = t1 :> "READY" @@ t2 :> "NONE", !.others = FALSE],
   [Busy EXCEPT !.table = t1 :> "FAILED" @@ t2 :> "READY",
                !.calls = Calls(Run, [Execute(t1) EXCEPT !.allow_retry = TRUE], Purge)],
   [Busy EXCEPT !.table = t1 :> "FAILED" @@ t2 :> "SUCCESSFUL", !.raises = TRUE,
                !.calls = Calls(Purge, [Purge EXCEPT !.batch_size = 2],
                                [Execute(t1) EXCEPT !.allow_retry = TRUE])],
   [Busy EXCEPT !.calls = Calls([Execute(t1) EXCEPT !.fail_on_error = TRUE],
                                [Execute(t1) EXCEPT !.allow_retry = TRUE],
                                [Purge EXCEPT !.dry_run = TRUE])]}

(* Whoever may be let in, and what may be wrong with a request, one at a    *)
(* time, beside a request to the other backend.                             *)

Bodies == {Run, [Run EXCEPT !.max_tasks = 0], [Run EXCEPT !.max_tasks = -1],
           [Run EXCEPT !.max_tasks = 101],
           [Run EXCEPT !.body = "other JSON"], [Run EXCEPT !.body = "not JSON"],
           [Run EXCEPT !.backend = "unknown"], [Run EXCEPT !.backend = "not text"],
           [Run EXCEPT !.backend = other], [Run EXCEPT !.allowed_method = FALSE],
           [Purge EXCEPT !.days = -1], [Purge EXCEPT !.batch_size = 10001],
           [Purge EXCEPT !.statuses = {"READY", "Failed?"}], [Purge EXCEPT !.body = "not JSON"],
           [Purge EXCEPT !.body = "other JSON"], [Run EXCEPT !.endpoint = "status"]}

SharedThenStaff ==
  [broker |-> "none", entries |-> <<Handler("SharedSecretAuth", FromSetting),
                                   Handler("StaffOnlyAuth", Nothing)>>]
Signed == [Open EXCEPT !.entries = <<Handler("HMACAuth", FromSetting)>>]
Configs ==
  {SharedThenStaff, Signed,
   [SharedThenStaff EXCEPT !.broker = "oidc"],
   [SharedThenStaff EXCEPT !.broker = "no audience", !.entries[1].endpoints = {"purge"}],
   [SharedThenStaff EXCEPT !.entries[1].secret = EmptySetting, !.broker = "oidc"],
   [SharedThenStaff EXCEPT !.entries[2].endpoints = {"misspelt"}],
   [SharedThenStaff EXCEPT !.entries[1].target = "not importable"],
   [Signed EXCEPT !.entries[1].max_age = 0]}

Callers ==
  {Stranger, [Stranger EXCEPT !.authorization = "secret"],
   [Stranger EXCEPT !.authorization = "oidc token"],
   [Stranger EXCEPT !.authorization = "another scheme", !.user = "staff"],
   [Stranger EXCEPT !.user = "user"], [Stranger EXCEPT !.user = "no middleware"]}
  \cup {[Stranger EXCEPT !.signature = s, !.timestamp = t, !.age = a] :
          s \in {"wrong", "right"}, t \in {"garbled", "number"}, a \in {-301, -300, 300, 301}}

Gate(config, call_) ==
  [Busy EXCEPT !.auth = (default :> config @@ other :> Open), !.others = FALSE,
               !.backend_of = (t1 :> default @@ t2 :> other),
               !.requests = {r1, r2},
               !.calls = Calls(call_, [Run EXCEPT !.backend = other], Run)]

Usual ==
  Crowded
  \cup {Gate(Open, call_) : call_ \in Bodies}
  \cup {Gate(config, [Run EXCEPT !.credentials = c]) : config \in Configs, c \in Callers}
=============================================================================
