--------------------------- MODULE HttpEndpoints ---------------------------
(***************************************************************************)
(* The HTTP endpoints (views), served at the same time beside other        *)
(* workers on the same table: /run/, /run-one/, /execute/<id>/, /status/   *)
(* and /purge/, each behind the authentication handlers of a backend       *)
(* (BackendAuthMixin, RequestAuth).                                        *)
(*                                                                         *)
(* Rows can be locked; a locked row is one that a request has just         *)
(* selected.  The order of the queue and the age of completed tasks are    *)
(* left out: DatabaseTasks has the first.  What Cloud Tasks makes of an    *)
(* answer is in PushDelivery.  An operator whose name ends in Mutant is a  *)
(* plausible slip in the code the operator after it models; no definition  *)
(* uses it.                                                                *)
(***************************************************************************)
EXTENDS RequestAuth, FiniteSetsExt

CONSTANTS
  Tasks, Requests, Backends, NoTask,
  Default,       \* the backend of a request that names none
  Deployments    \* the configurations, tables and requests that are looked at

\* What a client sends.  A backend that is "unknown" is a name of none, one
\* that is "not text" is some other JSON value.
Call == [endpoint: AUTH_ENDPOINTS, allowed_method: BOOLEAN, credentials: Credentials,
         backend: Backends \cup {"unknown", "not text"},
         body: {"object", "other JSON", "not JSON"},
         max_tasks: Int, task: Tasks \cup {NoTask}, allow_retry: BOOLEAN,
         fail_on_error: BOOLEAN,
         days: Int, batch_size: Int, statuses: SUBSET STRING, dry_run: BOOLEAN]

Completed == {"SUCCESSFUL", "FAILED"}
Stored == {"READY", "RUNNING"} \cup Completed
Status == {"NONE", "DELETED"} \cup Stored

ASSUME EndpointsAssumption ==
  /\ NoTask \notin Tasks
  /\ Default \in Backends /\ Backends \cap {"unknown", "not text"} = {}
  /\ Deployments \subseteq
       [auth: [Backends -> Config], calls: [Requests -> Call],
        requests: SUBSET Requests,     \* those that are sent
        backend_of: [Tasks -> Backends],
        table: [Tasks -> Status \ {"DELETED"}],   \* the rows there are at first
        others: BOOLEAN,               \* do other workers poll the table?
        raises: BOOLEAN]               \* may a statement of a request fail?
  \* The URL of /execute/ names a task, if not always one that is there.
  /\ \A d \in Deployments : \A r \in Requests :
       d.calls[r].endpoint = "execute" => d.calls[r].task \in Tasks

VARIABLES
  options,    \* the deployment: it never changes
  status,     \* the status of each row, as committed
  others,     \* tasks that other workers run
  request,    \* what each request that is served does
  claims      \* how many rows each request has claimed

vars == <<options, status, others, request, claims>>

Request == [pc: {"sent", "auth", "method", "fetch", "selected", "claim", "run",
                 "succeeded", "failed", "purge", "delete", "answered"},
            tried: SUBSET Nat, refusal: {Accepts, 401, 403},   \* handlers, first rejection
            task: Tasks \cup {NoTask}, results: Seq(Stored),
            doomed: SUBSET Tasks,
            deleted: [Tasks -> Nat],   \* how often each row is in the count of the answer
            code: {0, 200, 400, 401, 403, 404, 405, 500}]

Sent == [pc |-> "sent", tried |-> {}, refusal |-> Accepts, task |-> NoTask,
         results |-> <<>>, doomed |-> {}, deleted |-> [t \in Tasks |-> 0], code |-> 0]

Served == options.requests
call(r) == options.calls[r]

Init ==
  /\ options \in Deployments
  /\ status = options.table
  /\ others = {}
  /\ request = [r \in Served |-> Sent]
  /\ claims = [r \in Served |-> 0]

Set(r, x) == request' = [request EXCEPT ![r] = x]
Goto(r, pc) == Set(r, [request[r] EXCEPT !.pc = pc])
Answer(r, code) == Set(r, [request[r] EXCEPT !.pc = "answered", !.code = code])

-----------------------------------------------------------------------------
(* The rest of the world: tasks are enqueued, and other workers run some.  *)

Locked(t) == \E r \in Served : request[r].pc = "selected" /\ request[r].task = t

Enqueue(t) ==
  /\ status[t] = "NONE"
  /\ status' = [status EXCEPT ![t] = "READY"]
  /\ UNCHANGED <<options, others, request, claims>>

OtherClaims(t) ==
  /\ options.others
  /\ status[t] = "READY" /\ ~Locked(t)
  /\ status' = [status EXCEPT ![t] = "RUNNING"]
  /\ others' = others \cup {t}
  /\ UNCHANGED <<options, request, claims>>

OtherFinishes(t) ==
  /\ t \in others /\ status[t] \in Stored
  /\ \E outcome \in Completed : status' = [status EXCEPT ![t] = outcome]
  /\ others' = others \ {t}
  /\ UNCHANGED <<options, request, claims>>

-----------------------------------------------------------------------------
(* dispatch: the handlers of the backend the request names are tried in    *)
(* order before its method is.                                             *)

\* Two of the views read it from the JSON body, without failing.
BackendNameMutant(c) == Default
BackendName(c) ==
  IF c.backend = "not text" \/ (c.endpoint \in {"run", "run_one"} /\ c.body # "object")
  THEN Default ELSE c.backend

Named(r) == options.auth[BackendName(call(r))]
Untried(r) == Handlers(Named(r), call(r).endpoint) \ request[r].tried

Dispatch(r) ==
  LET name == BackendName(call(r))
  IN /\ request[r].pc = "sent"
     /\ IF name \notin Backends THEN Answer(r, 400)
        ELSE IF ~HandlersLoad(Named(r)) THEN Answer(r, 500)
        ELSE Goto(r, "auth")
     /\ UNCHANGED <<options, status, others, claims>>

FirstRefusalMutant(refusal, verdict) == verdict
FirstRefusal(refusal, verdict) == IF refusal = Accepts THEN verdict ELSE refusal

TryHandler(r) ==
  /\ request[r].pc = "auth"
  /\ \E i \in Untried(r) :
       /\ \A j \in Untried(r) : i <= j
       /\ LET verdict == Verdict(HandlerAt(Named(r), i), call(r).credentials)
          IN CASE verdict = Accepts -> Goto(r, "method")
               [] verdict = ServerError -> Answer(r, 500)
               [] OTHER -> Set(r, [request[r] EXCEPT !.tried = @ \cup {i},
                                                     !.refusal = FirstRefusal(@, verdict)])
  /\ UNCHANGED <<options, status, others, claims>>

NoHandlerLeft(r) ==
  /\ request[r].pc = "auth" /\ Untried(r) = {}
  /\ IF request[r].refusal = Accepts THEN Goto(r, "method")
     ELSE Answer(r, request[r].refusal)
  /\ UNCHANGED <<options, status, others, claims>>

-----------------------------------------------------------------------------
(* The methods, up to where they look at the table.                        *)

Enters(r, endpoint) ==
  /\ request[r].pc = "method" /\ call(r).endpoint = endpoint
  /\ call(r).allowed_method

MethodNotAllowed(r) ==
  /\ request[r].pc = "method" /\ ~call(r).allowed_method
  /\ Answer(r, 405)
  /\ UNCHANGED <<options, status, others, claims>>

MayPost(c) ==
  IF c.body = "not JSON" THEN 400
  ELSE IF c.body = "other JSON" THEN 500
  ELSE IF c.endpoint = "run" /\ c.max_tasks \notin 1 .. 100 THEN 400
  ELSE IF c.backend \notin Backends THEN 500
  ELSE Accepts

PostRun(r) ==
  /\ Enters(r, "run") \/ Enters(r, "run_one")
  /\ IF MayPost(call(r)) = Accepts THEN Goto(r, "fetch") ELSE Answer(r, MayPost(call(r)))
  /\ UNCHANGED <<options, status, others, claims>>

\* One aggregate query answers it.
GetStatus(r) ==
  /\ Enters(r, "status")
  /\ Answer(r, 200)
  /\ UNCHANGED <<options, status, others, claims>>

\* run_task_by_id up to the answer of its select.
PostExecute(r) ==
  LET c == call(r)
      allowed == IF c.allow_retry THEN {"READY", "FAILED"} ELSE {"READY"}
  IN /\ Enters(r, "execute")
     /\ CASE status[c.task] \notin Stored -> Answer(r, 404)
          [] status[c.task] \in allowed /\ ~Locked(c.task) ->
               Set(r, [request[r] EXCEPT !.pc = "selected", !.task = c.task])
          [] OTHER -> Answer(r, 200)
     /\ UNCHANGED <<options, status, others, claims>>

\* _parse_purge_statuses drops what no purge may take.
Statuses(c) == c.statuses \cap Completed
Purgeable(c) == {t \in Tasks : status[t] \in Statuses(c)}

MayPurge(c) ==
  IF c.body = "not JSON" THEN 400
  ELSE IF c.body = "other JSON" THEN 500
  ELSE IF c.days < 0 \/ c.batch_size \notin 1 .. 10000 THEN 400
  ELSE IF Statuses(c) = {} THEN 400
  ELSE Accepts

\* With a count of what there is to delete.
GetOrPostPurge(r) ==
  LET c == call(r)
  IN /\ Enters(r, "purge")
     /\ IF MayPurge(c) # Accepts THEN Answer(r, MayPurge(c))
        ELSE IF c.dry_run \/ Purgeable(c) = {} THEN Answer(r, 200)
        ELSE Goto(r, "purge")
     /\ UNCHANGED <<options, status, others, claims>>

-----------------------------------------------------------------------------
(* Running tasks: process_tasks, process_one_task, run_task_by_id.         *)

Batch(r) == call(r).endpoint \in {"run", "run_one"}
Limit(r) == IF call(r).endpoint = "run" THEN call(r).max_tasks ELSE 1

FetchableMutant(r, t) ==
  status[t] \in {"READY", "RUNNING"} /\ options.backend_of[t] = call(r).backend /\ ~Locked(t)
Fetchable(r, t) ==
  status[t] = "READY" /\ options.backend_of[t] = call(r).backend /\ ~Locked(t)

Fetch(r) ==
  /\ request[r].pc = "fetch"
  /\ \/ \E t \in Tasks :
          /\ Fetchable(r, t)
          /\ Set(r, [request[r] EXCEPT !.pc = "selected", !.task = t])
     \/ /\ \A t \in Tasks : ~Fetchable(r, t)
        /\ Answer(r, 200)
  /\ UNCHANGED <<options, status, others, claims>>

\* The transaction of the select ends; a task that has failed is READY again.
Unlock(r) ==
  LET t == request[r].task
  IN /\ request[r].pc = "selected"
     /\ status' = [status EXCEPT ![t] = IF @ = "FAILED" THEN "READY" ELSE @]
     /\ Goto(r, "claim")
     /\ UNCHANGED <<options, others, claims>>

Claimable(r) ==
  request[r].pc = "claim" /\ status[request[r].task] = "READY" /\ ~Locked(request[r].task)

\* "That task is taken care of; this worker is not done".
LostClaimMutant(r) == Answer(r, 200)
LostClaim(r) == IF Batch(r) THEN Goto(r, "fetch") ELSE Answer(r, 200)

Claim(r) ==
  LET t == request[r].task
  IN /\ request[r].pc = "claim"
     /\ \/ /\ Claimable(r)
           /\ status' = [status EXCEPT ![t] = "RUNNING"]
           /\ claims' = [claims EXCEPT ![r] = @ + 1]
           /\ Goto(r, "run")
        \/ /\ ~Claimable(r)
           /\ LostClaim(r) /\ UNCHANGED <<status, claims>>
     /\ UNCHANGED <<options, others>>

CodeMutant(r, read) == IF read = "FAILED" /\ call(r).fail_on_error THEN 503 ELSE 200
Code(r, read) == IF read = "FAILED" /\ call(r).fail_on_error THEN 500 ELSE 200

\* The save of the outcome.
Finish(r) ==
  LET t == request[r].task
  IN /\ request[r].pc = "run" /\ status[t] \in Stored
     /\ \/ /\ status' = [status EXCEPT ![t] = "SUCCESSFUL"]
           /\ Goto(r, "succeeded")
        \/ /\ status' = [status EXCEPT ![t] = "FAILED"]
           /\ Goto(r, "failed")
     /\ UNCHANGED <<options, others, claims>>

\* An error after a success was saved is recorded as one of the task.
RecordError(r) ==
  /\ options.raises
  /\ request[r].pc = "succeeded" /\ status[request[r].task] \in Stored
  /\ status' = [status EXCEPT ![request[r].task] = "FAILED"]
  /\ Goto(r, "failed")
  /\ UNCHANGED <<options, others, claims>>

\* What is reported is what refresh_from_db reads: in the meantime somebody
\* else may have begun to retry the task.
Report(r) ==
  LET x == request[r]
      read == status[x.task]
      reported == [x EXCEPT !.results = Append(@, read)]
  IN /\ x.pc \in {"succeeded", "failed"} /\ read \in Stored
     /\ Set(r, IF Batch(r) /\ Len(x.results) + 1 < Limit(r)
               THEN [reported EXCEPT !.pc = "fetch"]
               ELSE [reported EXCEPT !.pc = "answered", !.code = Code(r, read)])
     /\ UNCHANGED <<options, status, others, claims>>

\* A task that has failed and been deleted is not found, which /execute/
\* takes for one that was never there.
NotFound(r) ==
  /\ request[r].pc = "failed" /\ status[request[r].task] \notin Stored
  /\ Answer(r, IF Batch(r) THEN 500 ELSE 404)
  /\ UNCHANGED <<options, status, others, claims>>

\* Saving to a row that was deleted raises, be it the outcome or, once a
\* success cannot be read back, the error: it leaves the view, whatever it
\* had run before.
Raise(r) ==
  /\ \/ /\ request[r].pc \in {"run", "succeeded"}
        /\ status[request[r].task] \notin Stored
     \/ /\ request[r].pc \in {"fetch", "selected", "claim", "run", "succeeded", "failed",
                               "purge", "delete"}
        /\ options.raises
  /\ Answer(r, 500)
  /\ UNCHANGED <<options, status, others, claims>>

-----------------------------------------------------------------------------
(* Deleting tasks: _delete_in_batches.                                     *)

PurgeSelect(r) ==
  /\ request[r].pc = "purge"
  /\ \/ /\ Purgeable(call(r)) = {}
        /\ Answer(r, 200)
     \/ \E S \in SUBSET Purgeable(call(r)) :
          /\ Cardinality(S) = Min({call(r).batch_size, Cardinality(Purgeable(call(r)))})
          /\ S # {}
          /\ Set(r, [request[r] EXCEPT !.pc = "delete", !.doomed = S])
  /\ UNCHANGED <<options, status, others, claims>>

\* The DELETE says how many rows it found.
DeletedMutant(doomed) == doomed
Deleted(doomed) == {t \in doomed : status[t] \in Stored}
Counted(n, S) == [t \in Tasks |-> IF t \in S THEN n[t] + 1 ELSE n[t]]

PurgeDelete(r) ==
  LET doomed == request[r].doomed
  IN /\ request[r].pc = "delete" /\ \A t \in doomed : ~Locked(t)
     /\ status' = [t \in Tasks |-> IF t \in doomed THEN "DELETED" ELSE status[t]]
     /\ Set(r, [request[r] EXCEPT !.pc = "purge", !.doomed = {},
                                  !.deleted = Counted(@, Deleted(doomed))])
     /\ UNCHANGED <<options, others, claims>>

-----------------------------------------------------------------------------

Serve(r) ==
  \/ Dispatch(r) \/ TryHandler(r) \/ NoHandlerLeft(r) \/ MethodNotAllowed(r)
  \/ PostRun(r) \/ GetStatus(r) \/ PostExecute(r) \/ GetOrPostPurge(r)
  \/ Fetch(r) \/ Unlock(r) \/ Claim(r)
  \/ Finish(r) \/ RecordError(r) \/ Report(r) \/ NotFound(r) \/ Raise(r)
  \/ PurgeSelect(r) \/ PurgeDelete(r)

Quiet == (\A r \in Served : request[r].pc = "answered") /\ UNCHANGED vars

Next ==
  \/ \E t \in Tasks : Enqueue(t) \/ OtherClaims(t) \/ OtherFinishes(t)
  \/ \E r \in Served : Serve(r)
  \/ Quiet

Spec == Init /\ [][Next]_vars

\* A server goes on with its requests.  A claim that the lock of another
\* request turns away is not turned away for ever.
FairSpec ==
  /\ Spec
  /\ \A r \in Requests : /\ WF_vars(r \in Served /\ Serve(r))
                          /\ SF_vars(r \in Served /\ Claimable(r) /\ Claim(r))

-----------------------------------------------------------------------------

\* Every variable has its type, and a request waits for its answer exactly
\* until it has a code.
TypeOK ==
  /\ options \in Deployments
  /\ status \in [Tasks -> Status]
  /\ others \subseteq Tasks
  /\ request \in [Served -> Request]
  /\ \A r \in Served : request[r].pc = "answered" <=> request[r].code # 0
  /\ claims \in [Served -> Nat]

\* What the handlers of a backend say of a request: somebody accepts it
\* before anybody's configuration fails, or nobody is asked.
LetsIn(config, endpoint, c) ==
  LET Says(i, v) == endpoint \in config.entries[i].endpoints /\ Verdict(config.entries[i], c) = v
      Asked == {i \in DOMAIN config.entries : endpoint \in config.entries[i].endpoints}
  IN \/ config.broker = "oidc" /\ OIDC(c) = Accepts
     \/ config.broker # "oidc" /\ Asked = {}
     \/ \E i \in Asked : Says(i, Accepts) /\ \A j \in 1 .. i - 1 : ~Says(j, ServerError)

HasDeleted(r) == \E t \in Tasks : request[r].deleted[t] > 0

FirstSays(config, endpoint, c) ==
  IF config.broker = "oidc" THEN OIDC(c)
  ELSE Verdict(config.entries[Min({i \in DOMAIN config.entries :
                                     endpoint \in config.entries[i].endpoints})], c)

\* "A request is accepted as soon as one of them accepts it", and "when every
\* handler rejects the request, the first rejection is returned": one that is
\* answered by its method, or changes the table, is let in by the handlers
\* of the backend it names, and one that is rejected is told what the first
\* of them says.  A task that /run/ or /run-one/ takes is one of the backend
\* that has authenticated the request (BackendAuthMixin, process_tasks).
LetInAsConfigured ==
  \A r \in Served :
    LET c == call(r)
        x == request[r]
        config == Named(r)
    IN /\ claims[r] > 0 \/ HasDeleted(r) \/ x.code \in {200, 404, 405} =>
            /\ BackendName(c) \in Backends /\ HandlersLoad(config)
            /\ LetsIn(config, c.endpoint, c.credentials)
       /\ x.code \in {401, 403} =>
            /\ ~LetsIn(config, c.endpoint, c.credentials)
            /\ x.code = FirstSays(config, c.endpoint, c.credentials)
       /\ Batch(r) /\ x.task # NoTask => options.backend_of[x.task] = BackendName(c)

\* Answers and table agree: an answer reports every task its request has
\* claimed, a batch no more than asked for; a row that is gone is in the count
\* of one purge, once, and no other row is, also when two meet on the same rows;
\* a request that is turned down has changed nothing.  Only "not found" is also
\* said of a task that the request has run itself, and then it is gone
\* (process_tasks, _delete_in_batches, ExecuteTaskView, run_task).
AnswersAddUp ==
  /\ \A r \in Served :
       LET x == request[r]
       IN /\ x.code = 200 => claims[r] = Len(x.results)
          /\ Batch(r) => claims[r] = 0 \/ claims[r] <= Limit(r)
          /\ x.code \in {400, 401, 403, 404, 405} => ~HasDeleted(r)
          /\ x.code \in {400, 401, 403, 405} => claims[r] = 0
          /\ x.code = 404 /\ claims[r] > 0 => status[x.task] = "DELETED"
  /\ \A t \in Tasks :
       IF status[t] = "DELETED"
       THEN \E r \in Served : /\ request[r].deleted[t] = 1
                             /\ \A s \in Served \ {r} : request[s].deleted[t] = 0
       ELSE \A r \in Served : request[r].deleted[t] = 0

\* A worker that lost its task to another "looks for the next one rather than
\* reporting an empty queue": a batch that is answered with fewer tasks than
\* it may have finds none it could take, and an execution that is answered
\* without one leaves its task to somebody else or as it has ended
\* (process_one_task, run_task_by_id).
EmptyHandedForAReason ==
  \A r \in Served :
    /\ request[r].pc # "answered" /\ request'[r].code = 200
    /\ request'[r].results = request[r].results
    =>
      /\ Batch(r) => \A t \in Tasks : status[t] = "READY" /\ ~Locked(t) =>
                                        options.backend_of[t] # call(r).backend
      /\ call(r).endpoint = "execute" => status[call(r).task] # "READY" \/ Locked(call(r).task)

AnswersTruthfully == []AnswersAddUp /\ [][EmptyHandedForAReason]_vars

\* Every request is answered: no batch chases for ever tasks that others
\* take, and no purge rows that others delete (process_one_task,
\* _delete_in_batches).
Answered == \A r \in Requests : <>(r \in Served => request[r].pc = "answered")

=============================================================================
