------------------------ MODULE HttpEndpointsProofs ------------------------
(***************************************************************************)
(* Proofs about HttpEndpoints: whoever is served is let in by the handlers *)
(* as configured, and answers agree with the table, for any requests,      *)
(* backends and tasks.                                                     *)
(***************************************************************************)
EXTENDS HttpEndpoints, TLAPS

AtTheGate == {"sent", "auth", "method"}
Working == {"run", "succeeded", "failed"}
Taking == {"selected", "claim", "run", "succeeded", "failed"}
Deleting == {"purge", "delete"}

\* What a handler says of a request.
Says(r, i) == Verdict(HandlerAt(Named(r), i), call(r).credentials)
Asked(r) == Handlers(Named(r), call(r).endpoint)
Loaded(r) == BackendName(call(r)) \in Backends /\ HandlersLoad(Named(r))
LetIn(r) == Loaded(r) /\ LetsIn(Named(r), call(r).endpoint, call(r).credentials)

\* The handlers tried are the first of the list, and have all rejected it.
Asking(r) ==
  LET x == request[r]
  IN /\ x.pc = "sent" => x.tried = {} /\ x.refusal = Accepts
     /\ x.pc = "auth" =>
          /\ Loaded(r)
          /\ x.tried \subseteq Asked(r)
          /\ \A i \in x.tried : Says(r, i) \in {401, 403}
          /\ \A i \in x.tried, j \in Asked(r) \ x.tried : i < j
          /\ x.tried = {} => x.refusal = Accepts
          /\ x.tried # {} => \E i \in x.tried : x.refusal = Says(r, i) /\ \A j \in Asked(r) : i <= j

Passed(r) ==
  LET x == request[r]
  IN /\ \/ claims[r] > 0 \/ HasDeleted(r) \/ x.code \in {200, 404, 405}
        \/ x.pc = "method" \/ x.pc = "fetch" \/ x.pc \in Taking \/ x.pc \in Deleting
        => LetIn(r)
     /\ x.code \in {401, 403} =>
          /\ ~LetsIn(Named(r), call(r).endpoint, call(r).credentials)
          /\ x.code = FirstSays(Named(r), call(r).endpoint, call(r).credentials)

\* Where a request is says what it asks for.
Placed(r) ==
  LET x == request[r]
  IN /\ x.pc \in AtTheGate => x.task = NoTask
     /\ x.pc = "fetch" => Batch(r)
     /\ x.pc \in Taking =>
          /\ x.task \in Tasks
          /\ \/ Batch(r)
             \/ call(r).endpoint = "execute" /\ x.task = call(r).task
     /\ x.pc \in Deleting => call(r).endpoint = "purge"
     /\ Batch(r) /\ (x.pc = "fetch" \/ x.pc \in Taking) =>
          call(r).backend \in Backends /\ call(r).body = "object"
     /\ Batch(r) /\ x.task # NoTask => options.backend_of[x.task] = BackendName(call(r))

\* Whatever is claimed is reported, but for the task that is being run.
Tallied(r) ==
  LET x == request[r]
  IN /\ x.pc \in AtTheGate \cup Deleting => claims[r] = 0
     /\ x.pc \notin Deleting \cup {"answered"} => ~HasDeleted(r)
     /\ x.pc \in Working => claims[r] = Len(x.results) + 1
     /\ x.pc \notin Working \cup {"answered"} \/ x.code = 200 => claims[r] = Len(x.results)
     /\ Batch(r) => claims[r] = 0 \/ claims[r] <= Limit(r)
     /\ Batch(r) /\ x.pc \in {"fetch", "selected", "claim"} => claims[r] < Limit(r)
     /\ x.code \in {400, 401, 403, 404, 405} => ~HasDeleted(r)
     /\ x.code \in {400, 401, 403, 405} => claims[r] = 0

Fine(r) == Asking(r) /\ Passed(r) /\ Placed(r) /\ Tallied(r)

\* Each row that is gone is counted once, and no other is; a purge selects
\* rows that were there.
CountedOnce ==
  /\ \A t \in Tasks :
       IF status[t] = "DELETED"
       THEN \E r \in Served : /\ request[r].deleted[t] = 1
                             /\ \A s \in Served \ {r} : request[s].deleted[t] = 0
       ELSE \A r \in Served : request[r].deleted[t] = 0
  /\ \A r \in Served : \A t \in request[r].doomed : status[t] # "NONE"

\* A task that a request has met was there, and is gone when it is not found.
NotThere ==
  \A r \in Served :
    LET x == request[r]
    IN /\ x.task # NoTask => status[x.task] # "NONE"
       /\ x.code = 404 /\ claims[r] > 0 => x.task \in Tasks /\ status[x.task] = "DELETED"

Orderly == TypeOK /\ (\A r \in Served : Fine(r)) /\ CountedOnce /\ NotThere

PCs == {"sent", "auth", "method", "fetch", "selected", "claim", "run",
        "succeeded", "failed", "purge", "delete", "answered"}
Refusals == {Accepts, 401, 403}
Answers == {0, 200, 400, 401, 403, 404, 405, 500}

LEMMA RequestIs ==
  Request = [pc: PCs, tried: SUBSET Nat, refusal: Refusals,
             task: Tasks \cup {NoTask}, results: Seq(Stored),
             doomed: SUBSET Tasks, deleted: [Tasks -> Nat], code: Answers]
BY DEF Request, PCs, Refusals, Answers

LEMMA Deployed ==
  ASSUME options \in Deployments, NEW r \in Served
  PROVE  /\ r \in Requests /\ call(r) \in Call
         /\ BackendName(call(r)) \in Backends => Named(r) \in Config
         /\ options.table \in [Tasks -> Status \ {"DELETED"}]
         /\ call(r).endpoint = "execute" => call(r).task \in Tasks
<1>1. options.requests \in SUBSET Requests /\ options.calls \in [Requests -> Call]
  BY EndpointsAssumption
<1>2. options.auth \in [Backends -> Config] /\ options.table \in [Tasks -> Status \ {"DELETED"}]
  BY EndpointsAssumption
<1>3. r \in Requests
  BY <1>1 DEF Served
<1>4. call(r) \in Call /\ (call(r).endpoint = "execute" => call(r).task \in Tasks)
  BY <1>1, <1>3, EndpointsAssumption DEF call
<1> QED
  BY <1>2, <1>3, <1>4 DEF Named

LEMMA CallFields ==
  ASSUME NEW c \in Call
  PROVE  /\ c.endpoint \in AUTH_ENDPOINTS /\ c.credentials \in Credentials
         /\ c.backend \in Backends \cup {"unknown", "not text"} /\ c.max_tasks \in Int
         /\ c.allowed_method \in BOOLEAN /\ c.fail_on_error \in BOOLEAN
BY DEF Call

-----------------------------------------------------------------------------
(* Authentication.                                                         *)

LEMMA ConfigFields ==
  ASSUME NEW config \in Config
  PROVE  /\ DOMAIN config.entries = 1 .. Len(config.entries) /\ Len(config.entries) \in Nat
         /\ \A i \in DOMAIN config.entries : config.entries[i] \in Entry
<1>1. config.entries \in Seq(Entry)
  BY DEF Config
<1> QED
  BY <1>1

LEMMA Verdicts ==
  ASSUME NEW config \in Config, HandlersLoad(config), NEW endpoint, NEW c \in Credentials,
         NEW i \in Handlers(config, endpoint)
  PROVE  Verdict(HandlerAt(config, i), c) \in {Accepts, ServerError, 401, 403}
<1>1. CASE i = 0
  <2>1. HandlerAt(config, i).target = "oidc"
    BY <1>1 DEF HandlerAt
  <2> QED
    BY <2>1 DEF Verdict, OIDC
<1>2. CASE i # 0
  <2>1. i \in DOMAIN config.entries /\ HandlerAt(config, i) = config.entries[i]
    BY <1>2 DEF Handlers, BrokerHandlers, ConfiguredHandlers, HandlerAt
  <2>2. config.entries[i] \in Entry
    BY <2>1, ConfigFields
  <2>3. config.entries[i].target \in {"SharedSecretAuth", "HMACAuth", "StaffOnlyAuth"}
    BY <2>1, <2>2 DEF HandlersLoad, Loads, Entry
  <2>4. c.user \in {"no middleware", "anonymous", "user", "staff"}
    BY DEF Credentials
  <2>5. StaffOnlyAuth(c) \in {Accepts, ServerError, 401, 403}
    <3>1. CASE c.user = "no middleware"
      BY <3>1 DEF StaffOnlyAuth
    <3>2. CASE c.user = "anonymous"
      BY <3>2 DEF StaffOnlyAuth
    <3>3. CASE c.user = "user"
      BY <3>3 DEF StaffOnlyAuth
    <3>4. CASE c.user = "staff"
      BY <3>4 DEF StaffOnlyAuth
    <3> QED
      BY <2>4, <3>1, <3>2, <3>3, <3>4
  <2>6. /\ SharedSecretAuth(config.entries[i].secret, c) \in {Accepts, ServerError, 401, 403}
        /\ HMACAuth(config.entries[i].secret, config.entries[i].max_age, c)
             \in {Accepts, ServerError, 401, 403}
    BY DEF SharedSecretAuth, HMACAuth
  <2> QED
    BY <2>1, <2>3, <2>5, <2>6 DEF Verdict
<1> QED
  BY <1>1, <1>2

\* The handler that accepts comes before any that fails.
LEMMA Accepted ==
  ASSUME NEW config \in Config, NEW endpoint, NEW c, NEW i \in Handlers(config, endpoint),
         Verdict(HandlerAt(config, i), c) = Accepts,
         \A j \in Handlers(config, endpoint) : j < i =>
           Verdict(HandlerAt(config, j), c) \in {401, 403}
  PROVE  LetsIn(config, endpoint, c)
<1>1. CASE i = 0
  <2>1. config.broker = "oidc"
    BY <1>1, ConfigFields DEF Handlers, BrokerHandlers, ConfiguredHandlers
  <2>2. HandlerAt(config, i).target = "oidc"
    BY <1>1 DEF HandlerAt
  <2>3. OIDC(c) = Accepts
    BY <2>2 DEF Verdict
  <2> QED
    BY <2>1, <2>3 DEF LetsIn
<1>2. CASE i # 0
  <2>1. i \in ConfiguredHandlers(config, endpoint) /\ HandlerAt(config, i) = config.entries[i]
    BY <1>2 DEF Handlers, BrokerHandlers, HandlerAt
  <2>2. i \in DOMAIN config.entries /\ endpoint \in config.entries[i].endpoints
    BY <2>1 DEF ConfiguredHandlers
  <2>3. i \in Nat /\ DOMAIN config.entries = 1 .. Len(config.entries)
        /\ Len(config.entries) \in Nat
    BY <2>2, ConfigFields
  <2>4. ASSUME NEW j \in 1 .. i - 1, endpoint \in config.entries[j].endpoints
        PROVE  Verdict(config.entries[j], c) # ServerError
    <3>1. j \in Handlers(config, endpoint) /\ j < i /\ HandlerAt(config, j) = config.entries[j]
      BY <2>2, <2>3, <2>4 DEF Handlers, ConfiguredHandlers, HandlerAt
    <3> QED
      BY <3>1 DEF ServerError
  <2> QED
    BY <2>1, <2>2, <2>4 DEF LetsIn
<1> QED
  BY <1>1, <1>2

LEMMA Unguarded ==
  ASSUME NEW config, NEW endpoint, NEW c, Handlers(config, endpoint) = {}
  PROVE  LetsIn(config, endpoint, c)
BY DEF Handlers, BrokerHandlers, ConfiguredHandlers, LetsIn

\* When all reject the request the first of them is the one that answers.
LEMMA Rejected ==
  ASSUME NEW config \in Config, NEW endpoint, NEW c, NEW i \in Handlers(config, endpoint),
         \A j \in Handlers(config, endpoint) :
           i <= j /\ Verdict(HandlerAt(config, j), c) \in {401, 403}
  PROVE  /\ ~LetsIn(config, endpoint, c)
         /\ Verdict(HandlerAt(config, i), c) = FirstSays(config, endpoint, c)
<1>1. DOMAIN config.entries = 1 .. Len(config.entries) /\ Len(config.entries) \in Nat
  BY ConfigFields
<1>2. ASSUME NEW j \in DOMAIN config.entries, endpoint \in config.entries[j].endpoints
      PROVE  /\ j \in Handlers(config, endpoint) /\ j # 0
             /\ Verdict(config.entries[j], c) \in {401, 403}
  BY <1>1, <1>2 DEF Handlers, ConfiguredHandlers, HandlerAt
<1>3. CASE config.broker = "oidc"
  <2>1. 0 \in Handlers(config, endpoint)
    BY <1>3 DEF Handlers, BrokerHandlers
  <2>2. i = 0
    BY <1>1, <2>1 DEF Handlers, BrokerHandlers, ConfiguredHandlers
  <2>3. HandlerAt(config, i).target = "oidc"
    BY <2>2 DEF HandlerAt
  <2>4. OIDC(c) \in {401, 403} /\ Verdict(HandlerAt(config, i), c) = OIDC(c)
    BY <2>3 DEF Verdict
  <2> QED
    BY <1>2, <1>3, <2>4 DEF LetsIn, FirstSays, Accepts
<1>4. CASE config.broker # "oidc"
  <2> DEFINE A == {j \in DOMAIN config.entries : endpoint \in config.entries[j].endpoints}
  <2>1. Handlers(config, endpoint) = A
    BY <1>4 DEF Handlers, BrokerHandlers, ConfiguredHandlers
  <2>2. i \in A /\ i \in Nat /\ i # 0 /\ \A j \in A : i <= j
    BY <1>1, <2>1
  <2>3. \A j \in A : (\A k \in A : j <= k) => j = i
    BY <1>1, <2>2
  <2>4. Min(A) = i
    BY <2>2, <2>3 DEF Min
  <2>5. Verdict(HandlerAt(config, i), c) = FirstSays(config, endpoint, c)
    BY <1>4, <2>2, <2>4 DEF FirstSays, HandlerAt
  <2>6. ~LetsIn(config, endpoint, c)
    BY <1>2, <1>4, <2>2 DEF LetsIn, Accepts
  <2> QED
    BY <2>5, <2>6
<1> QED
  BY <1>3, <1>4

-----------------------------------------------------------------------------
(* What a step of a request does to its record.                            *)

\* A step of request r, which leaves the others what they are.
Turn(r) ==
  /\ UNCHANGED options
  /\ request' \in [Served -> Request]
  /\ \A s \in Served : s # r => request'[s] = request[s]
  /\ request'[r].pc = "answered" <=> request'[r].code # 0

\* The rows it has deleted stay what they are, and it dooms none that was not there.
Kept(r) ==
  /\ request'[r].deleted = request[r].deleted
  /\ request'[r].doomed \subseteq request[r].doomed \cup {t \in Tasks : status[t] # "NONE"}

LEMMA Turns ==
  ASSUME TypeOK, NEW r \in Served, NEW y \in Request, y.pc = "answered" <=> y.code # 0,
         UNCHANGED options, Set(r, y)
  PROVE  Turn(r) /\ request'[r] = y
<1>1. request' = [request EXCEPT ![r] = y] /\ request \in [Served -> Request]
  BY DEF Set, TypeOK
<1> QED
  BY <1>1 DEF Turn

LEMMA Unanswered ==
  ASSUME TypeOK, NEW r \in Served, request[r].pc # "answered"
  PROVE  request[r] \in Request /\ request[r].code = 0
BY DEF TypeOK

LEMMA Moves ==
  ASSUME TypeOK, NEW r \in Served, request[r].pc # "answered", UNCHANGED options,
         NEW p \in PCs \ {"answered"}, Goto(r, p)
  PROVE  /\ Turn(r)
         /\ request'[r].pc = p /\ request'[r].code = 0
         /\ request'[r].tried = request[r].tried /\ request'[r].refusal = request[r].refusal
         /\ request'[r].task = request[r].task /\ request'[r].results = request[r].results
         /\ Kept(r)
<1> DEFINE y == [request[r] EXCEPT !.pc = p]
<1>1. request[r] \in Request /\ request[r].code = 0
  BY Unanswered
<1>2. /\ y \in Request
      /\ y.pc = p /\ y.code = 0 /\ y.tried = request[r].tried
      /\ y.refusal = request[r].refusal /\ y.task = request[r].task
      /\ y.results = request[r].results /\ y.doomed = request[r].doomed
      /\ y.deleted = request[r].deleted
  <2>1. y \in Request
    BY <1>1, RequestIs
  <2>2. /\ y.pc = p /\ y.code = 0 /\ y.tried = request[r].tried
        /\ y.refusal = request[r].refusal /\ y.task = request[r].task
        /\ y.results = request[r].results /\ y.doomed = request[r].doomed
        /\ y.deleted = request[r].deleted
    BY <1>1 DEF Request
  <2> QED
    BY <2>1, <2>2
<1>3. Set(r, y)
  BY DEF Goto
<1> HIDE DEF y
<1>4. Turn(r) /\ request'[r] = y
  BY <1>2, <1>3, Turns
<1> QED
  BY <1>2, <1>4 DEF Kept

LEMMA AnswersIt ==
  ASSUME TypeOK, NEW r \in Served, request[r].pc # "answered", UNCHANGED options,
         NEW code \in Answers \ {0}, Answer(r, code)
  PROVE  /\ Turn(r)
         /\ request'[r].pc = "answered" /\ request'[r].code = code
         /\ request'[r].task = request[r].task /\ request'[r].results = request[r].results
         /\ Kept(r)
<1> DEFINE y == [request[r] EXCEPT !.pc = "answered", !.code = code]
<1>1. request[r] \in Request
  BY Unanswered
<1>2. /\ y \in Request
      /\ y.pc = "answered" /\ y.code = code /\ code # 0
      /\ y.task = request[r].task
      /\ y.results = request[r].results /\ y.doomed = request[r].doomed
      /\ y.deleted = request[r].deleted
  <2>0. "answered" \in PCs
    BY DEF PCs, Answers
  <2>1. y \in Request
    BY <2>0, <1>1, RequestIs
  <2>2. /\ y.pc = "answered" /\ y.code = code /\ code # 0
        /\ y.task = request[r].task
        /\ y.results = request[r].results /\ y.doomed = request[r].doomed
        /\ y.deleted = request[r].deleted
    BY <1>1 DEF Request, Answers
  <2> QED
    BY <2>1, <2>2
<1>3. Set(r, y)
  BY DEF Answer
<1> HIDE DEF y
<1>4. Turn(r) /\ request'[r] = y
  BY <1>2, <1>3, Turns
<1> QED
  BY <1>2, <1>4 DEF Kept

LEMMA Selects ==
  ASSUME TypeOK, NEW r \in Served, request[r].pc # "answered", UNCHANGED options,
         NEW t \in Tasks, Set(r, [request[r] EXCEPT !.pc = "selected", !.task = t])
  PROVE  /\ Turn(r)
         /\ request'[r].pc = "selected" /\ request'[r].code = 0 /\ request'[r].task = t
         /\ request'[r].results = request[r].results
         /\ Kept(r)
<1> DEFINE y == [request[r] EXCEPT !.pc = "selected", !.task = t]
<1>1. request[r] \in Request /\ request[r].code = 0
  BY Unanswered
<1>2. /\ y \in Request
      /\ y.pc = "selected" /\ y.code = 0 /\ y.task = t
      /\ y.results = request[r].results /\ y.doomed = request[r].doomed
      /\ y.deleted = request[r].deleted
  <2>0. "selected" \in PCs
    BY DEF PCs, Answers
  <2>1. y \in Request
    BY <2>0, <1>1, RequestIs
  <2>2. /\ y.pc = "selected" /\ y.code = 0 /\ y.task = t
        /\ y.results = request[r].results /\ y.doomed = request[r].doomed
        /\ y.deleted = request[r].deleted
    BY <1>1 DEF Request
  <2> QED
    BY <2>1, <2>2
<1> HIDE DEF y
<1>3. Set(r, y)
  BY DEF y
<1>4. Turn(r) /\ request'[r] = y
  BY <1>2, <1>3, Turns
<1> QED
  BY <1>2, <1>4 DEF Kept

LEMMA Rejects ==
  ASSUME TypeOK, NEW r \in Served, request[r].pc = "auth", UNCHANGED options,
         NEW i \in Nat, NEW v \in Refusals,
         Set(r, [request[r] EXCEPT !.tried = @ \cup {i}, !.refusal = v])
  PROVE  /\ Turn(r)
         /\ request'[r].pc = "auth" /\ request'[r].code = 0
         /\ request'[r].tried = request[r].tried \cup {i} /\ request'[r].refusal = v
         /\ request'[r].task = request[r].task /\ request'[r].results = request[r].results
         /\ Kept(r)
<1> DEFINE y == [request[r] EXCEPT !.tried = @ \cup {i}, !.refusal = v]
<1>1. request[r] \in Request /\ request[r].code = 0
  BY Unanswered
<1>2. /\ y \in Request
      /\ y.pc = "auth" /\ y.code = 0 /\ y.task = request[r].task
      /\ y.tried = request[r].tried \cup {i} /\ y.refusal = v
      /\ y.results = request[r].results /\ y.doomed = request[r].doomed
      /\ y.deleted = request[r].deleted
  <2>1. y \in Request
    BY <1>1, RequestIs
  <2>2. /\ y.pc = "auth" /\ y.code = 0 /\ y.task = request[r].task
        /\ y.tried = request[r].tried \cup {i} /\ y.refusal = v
        /\ y.results = request[r].results /\ y.doomed = request[r].doomed
        /\ y.deleted = request[r].deleted
    BY <1>1 DEF Request
  <2> QED
    BY <2>1, <2>2
<1> HIDE DEF y
<1>3. Set(r, y)
  BY DEF y
<1>4. Turn(r) /\ request'[r] = y
  BY <1>2, <1>3, Turns
<1> QED
  BY <1>2, <1>4 DEF Kept

LEMMA ReportsMore ==
  ASSUME TypeOK, NEW r \in Served, request[r].pc # "answered", UNCHANGED options,
         NEW read \in Stored,
         Set(r, [request[r] EXCEPT !.results = Append(@, read), !.pc = "fetch"])
  PROVE  /\ Turn(r)
         /\ request'[r].pc = "fetch" /\ request'[r].code = 0
         /\ Len(request'[r].results) = Len(request[r].results) + 1
         /\ request'[r].task = request[r].task
         /\ Kept(r)
<1> DEFINE x == request[r]
           y == [x EXCEPT !.results = Append(@, read), !.pc = "fetch"]
<1>1. x \in Request /\ x.results \in Seq(Stored) /\ x.code = 0
  <2>1. x \in Request /\ x.code = 0
    BY Unanswered
  <2> QED
    BY <2>1 DEF Request
<1>2. /\ Append(x.results, read) \in Seq(Stored)
      /\ Len(Append(x.results, read)) = Len(x.results) + 1
  BY <1>1
<1>3. /\ y \in Request
      /\ y.pc = "fetch" /\ y.code = 0 /\ y.task = x.task
      /\ y.results = Append(x.results, read) /\ y.doomed = x.doomed /\ y.deleted = x.deleted
  <2>1. "fetch" \in PCs /\ 0 \in Answers
    BY DEF PCs, Answers
  <2>2. y \in Request
    BY <1>1, <1>2, <2>1, RequestIs
  <2>3. /\ y.pc = "fetch" /\ y.code = 0 /\ y.task = x.task
        /\ y.results = Append(x.results, read)
        /\ y.doomed = x.doomed /\ y.deleted = x.deleted
    BY <1>1 DEF Request
  <2> QED
    BY <2>2, <2>3
<1> HIDE DEF y
<1>4. Set(r, y)
  BY DEF y
<1>5. y.pc = "answered" <=> y.code # 0
  BY <1>3
<1>6. Turn(r) /\ request'[r] = y
  BY <1>3, <1>4, <1>5, Turns
<1> QED
  BY <1>2, <1>3, <1>6 DEF Kept

LEMMA ReportsLast ==
  ASSUME TypeOK, NEW r \in Served, request[r].pc # "answered", UNCHANGED options,
         NEW read \in Stored, NEW code \in Answers \ {0},
         Set(r, [request[r] EXCEPT !.results = Append(@, read), !.pc = "answered",
                                   !.code = code])
  PROVE  /\ Turn(r)
         /\ request'[r].pc = "answered" /\ request'[r].code = code
         /\ Len(request'[r].results) = Len(request[r].results) + 1
         /\ request'[r].task = request[r].task
         /\ Kept(r)
<1> DEFINE x == request[r]
           y == [x EXCEPT !.results = Append(@, read), !.pc = "answered", !.code = code]
<1>1. x \in Request /\ x.results \in Seq(Stored) /\ x.code = 0
  <2>1. x \in Request /\ x.code = 0
    BY Unanswered
  <2> QED
    BY <2>1 DEF Request
<1>2. /\ Append(x.results, read) \in Seq(Stored)
      /\ Len(Append(x.results, read)) = Len(x.results) + 1
  BY <1>1
<1>3. /\ y \in Request
      /\ y.pc = "answered" /\ y.code = code /\ y.task = x.task
      /\ y.results = Append(x.results, read) /\ y.doomed = x.doomed /\ y.deleted = x.deleted
  <2>1. "answered" \in PCs /\ code \in Answers
    BY DEF PCs
  <2>2. y \in Request
    BY <1>1, <1>2, <2>1, RequestIs
  <2>3. /\ y.pc = "answered" /\ y.code = code /\ y.task = x.task
        /\ y.results = Append(x.results, read)
        /\ y.doomed = x.doomed /\ y.deleted = x.deleted
    BY <1>1 DEF Request
  <2> QED
    BY <2>2, <2>3
<1> HIDE DEF y
<1>4. Set(r, y)
  BY DEF y
<1>5. y.pc = "answered" /\ y.code # 0
  BY <1>3
<1>6. Turn(r) /\ request'[r] = y
  BY <1>3, <1>4, <1>5, Turns
<1> QED
  BY <1>2, <1>3, <1>6 DEF Kept

LEMMA Dooms ==
  ASSUME TypeOK, NEW r \in Served, request[r].pc = "purge", UNCHANGED options,
         NEW S \in SUBSET Tasks, Set(r, [request[r] EXCEPT !.pc = "delete", !.doomed = S])
  PROVE  /\ Turn(r)
         /\ request'[r].pc = "delete" /\ request'[r].code = 0 /\ request'[r].doomed = S
         /\ request'[r].task = request[r].task /\ request'[r].results = request[r].results
         /\ request'[r].deleted = request[r].deleted
<1> DEFINE y == [request[r] EXCEPT !.pc = "delete", !.doomed = S]
<1>1. request[r] \in Request /\ request[r].code = 0
  BY Unanswered
<1>2. /\ y \in Request
      /\ y.pc = "delete" /\ y.code = 0 /\ y.task = request[r].task
      /\ y.results = request[r].results /\ y.doomed = S /\ y.deleted = request[r].deleted
  <2>0. "delete" \in PCs
    BY DEF PCs, Answers
  <2>1. y \in Request
    BY <2>0, <1>1, RequestIs
  <2>2. /\ y.pc = "delete" /\ y.code = 0 /\ y.task = request[r].task
        /\ y.results = request[r].results /\ y.doomed = S /\ y.deleted = request[r].deleted
    BY <1>1 DEF Request
  <2> QED
    BY <2>1, <2>2
<1> HIDE DEF y
<1>3. Set(r, y)
  BY DEF y
<1>4. Turn(r) /\ request'[r] = y
  BY <1>2, <1>3, Turns
<1> QED
  BY <1>2, <1>4

LEMMA Purges ==
  ASSUME TypeOK, NEW r \in Served, request[r].pc = "delete", UNCHANGED options,
         NEW n \in [Tasks -> Nat],
         Set(r, [request[r] EXCEPT !.pc = "purge", !.doomed = {}, !.deleted = n])
  PROVE  /\ Turn(r)
         /\ request'[r].pc = "purge" /\ request'[r].code = 0 /\ request'[r].doomed = {}
         /\ request'[r].task = request[r].task /\ request'[r].results = request[r].results
         /\ request'[r].deleted = n
<1> DEFINE y == [request[r] EXCEPT !.pc = "purge", !.doomed = {}, !.deleted = n]
<1>1. request[r] \in Request /\ request[r].code = 0
  BY Unanswered
<1>2. /\ y \in Request
      /\ y.pc = "purge" /\ y.code = 0 /\ y.task = request[r].task
      /\ y.results = request[r].results /\ y.doomed = {} /\ y.deleted = n
  <2>0. "purge" \in PCs
    BY DEF PCs, Answers
  <2>1. y \in Request
    BY <2>0, <1>1, RequestIs
  <2>2. /\ y.pc = "purge" /\ y.code = 0 /\ y.task = request[r].task
        /\ y.results = request[r].results /\ y.doomed = {} /\ y.deleted = n
    BY <1>1 DEF Request
  <2> QED
    BY <2>1, <2>2
<1> HIDE DEF y
<1>3. Set(r, y)
  BY DEF y
<1>4. Turn(r) /\ request'[r] = y
  BY <1>2, <1>3, Turns
<1> QED
  BY <1>2, <1>4

\* A request that does nothing stays as it is.
LEMMA StaysFine ==
  ASSUME NEW r \in Served, Fine(r), UNCHANGED <<options, request[r], claims[r]>>
  PROVE  Fine(r)'
<1>1. UNCHANGED <<call(r), Named(r), Asked(r), HasDeleted(r), Batch(r), Limit(r)>>
  BY DEF call, Named, Asked, HasDeleted, Batch, Limit
<1>2. UNCHANGED <<Loaded(r), LetIn(r)>> /\ \A i : UNCHANGED Says(r, i)
  BY <1>1 DEF Loaded, LetIn, Says
<1>3. Asking(r)'
  BY <1>1, <1>2 DEF Fine, Asking
<1>4. Passed(r)'
  BY <1>1, <1>2 DEF Fine, Passed
<1>5. Placed(r)'
  BY <1>1, <1>2 DEF Fine, Placed
<1>6. Tallied(r)'
  BY <1>1, <1>2 DEF Fine, Tallied, Working
<1> QED
  BY <1>3, <1>4, <1>5, <1>6 DEF Fine

-----------------------------------------------------------------------------
(* Every step of a request leaves it fine.                                 *)

LEMMA Given ==
  ASSUME NEW r \in Served, UNCHANGED options
  PROVE  /\ UNCHANGED <<call(r), Named(r), Asked(r), Batch(r), Limit(r), Loaded(r), LetIn(r)>>
         /\ \A i : UNCHANGED Says(r, i)
<1>1. UNCHANGED <<call(r), Named(r), Asked(r), Batch(r), Limit(r)>>
  BY DEF call, Named, Asked, Batch, Limit
<1> QED
  BY <1>1 DEF Loaded, LetIn, Says

LEMMA AnswerFine ==
  ASSUME TypeOK, NEW r \in Served, Fine(r), request[r].pc # "answered",
         UNCHANGED <<options, claims>>, NEW code \in Answers \ {0}, Answer(r, code),
         code \in {200, 404, 405} => LetIn(r),
         code \in {401, 403} =>
           /\ ~LetsIn(Named(r), call(r).endpoint, call(r).credentials)
           /\ code = FirstSays(Named(r), call(r).endpoint, call(r).credentials),
         code = 200 => claims[r] = Len(request[r].results),
         code \in {400, 401, 403, 405} => request[r].pc \in AtTheGate,
         code = 404 => request[r].pc \in AtTheGate \cup Working
  PROVE  Fine(r)' /\ Turn(r) /\ Kept(r)
<1>1. /\ Turn(r)
      /\ request'[r].pc = "answered" /\ request'[r].code = code
      /\ request'[r].task = request[r].task /\ request'[r].results = request[r].results
      /\ Kept(r)
  BY AnswersIt
<1>2. /\ UNCHANGED <<call(r), Named(r), Batch(r), Limit(r), LetIn(r), HasDeleted(r)>>
      /\ claims'[r] = claims[r]
  BY <1>1, Given DEF HasDeleted, Kept
<1>3. Asking(r)'
  BY <1>1 DEF Asking
<1>4. Passed(r)'
  BY <1>1, <1>2 DEF Passed, Fine, Taking, Deleting
<1>5. Placed(r)'
  BY <1>1, <1>2 DEF Placed, Fine, AtTheGate, Taking, Deleting
<1>6. Tallied(r)'
  BY <1>1, <1>2 DEF Tallied, Fine, AtTheGate, Deleting, Working
<1> QED
  BY <1>1, <1>3, <1>4, <1>5, <1>6 DEF Fine

LEMMA DispatchFine ==
  ASSUME TypeOK, NEW r \in Served, Fine(r), Dispatch(r)
  PROVE  Fine(r)' /\ Turn(r) /\ Kept(r)
<1>1. request[r].pc = "sent" /\ UNCHANGED <<options, claims>>
  BY DEF Dispatch
<1>2. ASSUME NEW code \in {400, 500}, Answer(r, code)
      PROVE  Fine(r)' /\ Turn(r) /\ Kept(r)
  BY <1>1, <1>2, AnswerFine DEF AtTheGate, Answers
<1>3. ASSUME Loaded(r), Goto(r, "auth")
      PROVE  Fine(r)' /\ Turn(r) /\ Kept(r)
  <2>1. /\ Turn(r)
        /\ request'[r].pc = "auth" /\ request'[r].code = 0
        /\ request'[r].tried = {} /\ request'[r].refusal = Accepts
        /\ request'[r].task = request[r].task /\ request'[r].results = request[r].results
        /\ Kept(r)
    BY <1>1, <1>3, Moves DEF PCs, Fine, Asking
  <2>2. /\ UNCHANGED <<call(r), Named(r), Batch(r), Limit(r), LetIn(r), HasDeleted(r), Asked(r),
                       Loaded(r)>>
        /\ claims'[r] = claims[r]
    BY <1>1, <2>1, Given DEF HasDeleted, Kept
  <2>3. Asking(r)'
    BY <1>3, <2>1, <2>2 DEF Asking
  <2>4. Passed(r)'
    BY <1>1, <2>1, <2>2 DEF Passed, Fine, Taking, Deleting
  <2>5. Placed(r)'
    BY <1>1, <2>1, <2>2 DEF Placed, Fine, AtTheGate, Taking, Deleting
  <2>6. Tallied(r)'
    BY <1>1, <2>1, <2>2 DEF Tallied, Fine, AtTheGate, Deleting, Working
  <2> QED
    BY <2>1, <2>3, <2>4, <2>5, <2>6 DEF Fine
<1> QED
  BY <1>2, <1>3 DEF Dispatch, Loaded

\* The one step by which a request gets to its method.
LEMMA EnterFine ==
  ASSUME TypeOK, NEW r \in Served, Fine(r), request[r].pc = "auth", LetIn(r),
         UNCHANGED <<options, claims>>, Goto(r, "method")
  PROVE  Fine(r)' /\ Turn(r) /\ Kept(r)
<1>1. /\ Turn(r)
      /\ request'[r].pc = "method" /\ request'[r].code = 0
      /\ request'[r].task = request[r].task /\ request'[r].results = request[r].results
      /\ Kept(r)
  BY Moves DEF PCs
<1>2. /\ UNCHANGED <<call(r), Named(r), Batch(r), Limit(r), LetIn(r), HasDeleted(r)>>
      /\ claims'[r] = claims[r]
  BY <1>1, Given DEF HasDeleted, Kept
<1>3. Asking(r)'
  BY <1>1 DEF Asking
<1>4. Passed(r)'
  BY <1>1, <1>2 DEF Passed
<1>5. Placed(r)'
  BY <1>1, <1>2 DEF Placed, Fine, AtTheGate, Taking, Deleting
<1>6. Tallied(r)'
  BY <1>1, <1>2 DEF Tallied, Fine, AtTheGate, Deleting, Working
<1> QED
  BY <1>1, <1>3, <1>4, <1>5, <1>6 DEF Fine

\* What a handler may say, and which come before the one that is asked.
LEMMA AskedNext ==
  ASSUME TypeOK, NEW r \in Served, Fine(r), request[r].pc = "auth"
  PROVE  /\ \A i \in Asked(r) : i \in Nat /\ Says(r, i) \in {Accepts, ServerError, 401, 403}
         /\ Named(r) \in Config /\ call(r).credentials \in Credentials
<1>1. Loaded(r) /\ options \in Deployments
  BY DEF Fine, Asking, TypeOK
<1>2. Named(r) \in Config /\ call(r).credentials \in Credentials /\ HandlersLoad(Named(r))
  BY <1>1, Deployed, CallFields DEF Loaded
<1>3. \A i \in Asked(r) : Says(r, i) \in {Accepts, ServerError, 401, 403}
  BY <1>2, Verdicts DEF Asked, Says
<1>4. \A i \in Asked(r) : i \in Nat
  BY <1>2, ConfigFields DEF Asked, Handlers, BrokerHandlers, ConfiguredHandlers
<1> QED
  BY <1>2, <1>3, <1>4

LEMMA TryHandlerFine ==
  ASSUME TypeOK, NEW r \in Served, Fine(r), TryHandler(r)
  PROVE  Fine(r)' /\ Turn(r) /\ Kept(r)
<1>1. request[r].pc = "auth" /\ UNCHANGED <<options, claims>>
  BY DEF TryHandler
<1>2. PICK i \in Asked(r) :
        /\ i \notin request[r].tried
        /\ \A j \in Asked(r) : j \in request[r].tried \/ i <= j
        /\ CASE Says(r, i) = Accepts -> Goto(r, "method")
             [] Says(r, i) = ServerError -> Answer(r, 500)
             [] OTHER -> Set(r, [request[r] EXCEPT !.tried = @ \cup {i},
                                                   !.refusal = FirstRefusal(@, Says(r, i))])
  BY DEF TryHandler, Untried, Asked, Says
<1>3. /\ Loaded(r)
      /\ request[r].tried \subseteq Asked(r)
      /\ \A j \in request[r].tried : Says(r, j) \in {401, 403}
      /\ \A k \in request[r].tried, j \in Asked(r) \ request[r].tried : k < j
      /\ request[r].tried = {} => request[r].refusal = Accepts
      /\ request[r].tried # {} =>
           \E k \in request[r].tried : request[r].refusal = Says(r, k) /\ \A j \in Asked(r) : k <= j
  BY <1>1 DEF Fine, Asking
<1>4. /\ Named(r) \in Config
      /\ \A j \in Asked(r) : j \in Nat /\ Says(r, j) \in {Accepts, ServerError, 401, 403}
  BY <1>1, AskedNext
<1>5. CASE Says(r, i) = Accepts
  <2>1. \A j \in Asked(r) : j < i => j \in request[r].tried
    BY <1>2, <1>4
  <2>2. LetsIn(Named(r), call(r).endpoint, call(r).credentials)
    BY <1>3, <1>4, <1>5, <2>1, Accepted DEF Says, Asked
  <2>3. Goto(r, "method")
    BY <1>2, <1>5 DEF Accepts, ServerError
  <2>4. LetIn(r)
    BY <1>3, <2>2 DEF LetIn
  <2> QED
    BY <1>1, <2>3, <2>4, EnterFine
<1>6. CASE Says(r, i) = ServerError
  BY <1>1, <1>2, <1>6, AnswerFine DEF Accepts, ServerError, Answers
<1>7. CASE Says(r, i) \in {401, 403}
  <2> DEFINE v == FirstRefusal(request[r].refusal, Says(r, i))
  <2>1. v \in Refusals
    BY <1>1, <1>7, Unanswered DEF FirstRefusal, Refusals, Request
  <2>2. Set(r, [request[r] EXCEPT !.tried = @ \cup {i}, !.refusal = v])
    BY <1>2, <1>7 DEF Accepts, ServerError
  <2>3. v = IF request[r].tried = {} THEN Says(r, i) ELSE request[r].refusal
    BY <1>3 DEF FirstRefusal, Accepts
  <2> HIDE DEF v
  <2>12. i \in Nat
    BY <1>4
  <2>4. /\ Turn(r)
        /\ request'[r].pc = "auth" /\ request'[r].code = 0
        /\ request'[r].tried = request[r].tried \cup {i} /\ request'[r].refusal = v
        /\ request'[r].task = request[r].task /\ request'[r].results = request[r].results
        /\ Kept(r)
    BY <1>1, <2>1, <2>2, <2>12, Rejects
  <2>5. /\ UNCHANGED <<call(r), Named(r), Batch(r), Limit(r), LetIn(r), HasDeleted(r), Asked(r),
                       Loaded(r)>>
        /\ claims'[r] = claims[r] /\ \A j : UNCHANGED Says(r, j)
    BY <1>1, <2>4, Given DEF HasDeleted, Kept
  <2>6. \A k \in request'[r].tried, j \in Asked(r) \ request'[r].tried : k < j
    BY <1>2, <1>3, <1>4, <2>4
  <2>7. \E k \in request'[r].tried : v = Says(r, k) /\ \A j \in Asked(r) : k <= j
    <3>1. CASE request[r].tried = {}
      BY <1>2, <2>3, <2>4, <3>1
    <3>2. CASE request[r].tried # {}
      BY <1>3, <2>3, <2>4, <3>2
    <3> QED
      BY <3>1, <3>2
  <2>8. Asking(r)'
    BY <1>3, <1>7, <2>4, <2>5, <2>6, <2>7 DEF Asking
  <2>9. Passed(r)'
    BY <1>1, <2>4, <2>5 DEF Passed, Fine, Taking, Deleting
  <2>10. Placed(r)'
    BY <1>1, <2>4, <2>5 DEF Placed, Fine, AtTheGate, Taking, Deleting
  <2>11. Tallied(r)'
    BY <1>1, <2>4, <2>5 DEF Tallied, Fine, AtTheGate, Deleting, Working
  <2> QED
    BY <2>4, <2>8, <2>9, <2>10, <2>11 DEF Fine
<1> QED
  BY <1>4, <1>5, <1>6, <1>7

LEMMA NoHandlerLeftFine ==
  ASSUME TypeOK, NEW r \in Served, Fine(r), NoHandlerLeft(r)
  PROVE  Fine(r)' /\ Turn(r) /\ Kept(r)
<1>1. /\ request[r].pc = "auth" /\ UNCHANGED <<options, claims>> /\ Loaded(r)
      /\ request[r].tried = Asked(r)
  BY DEF NoHandlerLeft, Untried, Asked, Fine, Asking
<1>2. /\ Named(r) \in Config
      /\ \A j \in Asked(r) : j \in Nat /\ Says(r, j) \in {Accepts, ServerError, 401, 403}
  BY <1>1, AskedNext
<1>3. CASE Asked(r) = {}
  <2>1. LetIn(r)
    BY <1>1, <1>3, Unguarded DEF LetIn, Asked
  <2>2. request[r].refusal = Accepts
    BY <1>1, <1>3 DEF Fine, Asking
  <2> QED
    BY <1>1, <2>1, <2>2, EnterFine DEF NoHandlerLeft
<1>4. CASE Asked(r) # {}
  <2>1. PICK i \in Asked(r) : request[r].refusal = Says(r, i) /\ \A j \in Asked(r) : i <= j
    BY <1>1, <1>4 DEF Fine, Asking
  <2>2. \A j \in Asked(r) : Says(r, j) \in {401, 403}
    BY <1>1 DEF Fine, Asking
  <2>3. /\ ~LetsIn(Named(r), call(r).endpoint, call(r).credentials)
        /\ Says(r, i) = FirstSays(Named(r), call(r).endpoint, call(r).credentials)
    BY <1>2, <2>1, <2>2, Rejected DEF Says, Asked
  <2>4. Answer(r, Says(r, i)) /\ Says(r, i) \in {401, 403}
    BY <2>1, <2>2 DEF NoHandlerLeft, Accepts
  <2> QED
    BY <1>1, <2>3, <2>4, AnswerFine DEF Answers, AtTheGate
<1> QED
  BY <1>3, <1>4

-----------------------------------------------------------------------------
(* Behind the gate: the methods.                                           *)

LEMMA Behind ==
  ASSUME NEW r \in Served, Fine(r),
         request[r].pc = "method" \/ request[r].pc = "fetch" \/ request[r].pc \in Taking
         \/ request[r].pc \in Deleting
  PROVE  LetIn(r)
BY DEF Fine, Passed

LEMMA FineBehind ==
  ASSUME NEW r \in Served, Turn(r), LetIn(r), request'[r].pc \notin {"sent", "auth"},
         request'[r].code \notin {401, 403}, Placed(r)', Tallied(r)'
  PROVE  Fine(r)'
<1>1. LetIn(r)'
  BY Given DEF Turn
<1>2. Passed(r)'
  BY <1>1 DEF Passed
<1>3. Asking(r)'
  BY DEF Asking
<1> QED
  BY <1>2, <1>3 DEF Fine

\* The numbers that are compared are numbers.
LEMMA Numbers ==
  ASSUME TypeOK, NEW r \in Served
  PROVE  /\ claims[r] \in Nat /\ Len(request[r].results) \in Nat /\ Limit(r) \in Int
         /\ call(r).backend \in Backends => BackendName(call(r)) \in {call(r).backend, Default}
<1>1. request[r] \in Request /\ claims[r] \in Nat
  BY DEF TypeOK
<1>2. request[r].results \in Seq(Stored)
  BY <1>1 DEF Request
<1>3. Len(request[r].results) \in Nat
  BY <1>2
<1>4. Limit(r) \in Int
  <2>1. call(r).max_tasks \in Int
    BY Deployed, CallFields DEF TypeOK
  <2> QED
    BY <2>1 DEF Limit
<1> QED
  BY <1>1, <1>3, <1>4 DEF BackendName

\* A step behind the gate that only moves the request on.
LEMMA GoesFine ==
  ASSUME TypeOK, NEW r \in Served, Fine(r), LetIn(r), UNCHANGED <<options, claims>>,
         NEW p \in {"fetch", "claim", "purge"}, Goto(r, p),
         \/ /\ p = "fetch" /\ Batch(r) /\ request[r].pc \in {"method", "claim"}
            /\ call(r).backend \in Backends /\ call(r).body = "object"
            /\ request[r].pc = "method" => 1 <= Limit(r)
         \/ p = "claim" /\ request[r].pc = "selected"
         \/ p = "purge" /\ request[r].pc = "method" /\ call(r).endpoint = "purge"
  PROVE  Fine(r)' /\ Turn(r) /\ Kept(r)
<1>1. /\ Turn(r)
      /\ request'[r].pc = p /\ request'[r].code = 0
      /\ request'[r].task = request[r].task /\ request'[r].results = request[r].results
      /\ Kept(r)
  BY Moves DEF PCs
<1>2. /\ UNCHANGED <<call(r), Batch(r), Limit(r), HasDeleted(r)>>
      /\ claims'[r] = claims[r] /\ options' = options
      /\ BackendName(call(r))' = BackendName(call(r))
  BY <1>1, Given DEF HasDeleted, Kept
<1>3. Placed(r)'
  BY <1>1, <1>2 DEF Placed, Fine, AtTheGate, Taking, Deleting
<1>4. claims[r] \in Nat /\ Limit(r) \in Int
  BY Numbers
<1>5. Tallied(r)'
  <2>1. claims[r] = Len(request[r].results)
    BY DEF Fine, Tallied, Working
  <2>2. p = "fetch" => claims[r] < Limit(r)
    BY <1>4 DEF Fine, Tallied, AtTheGate, Working
  <2>3. p = "claim" /\ Batch(r) => claims[r] < Limit(r)
    BY DEF Fine, Tallied, Working
  <2>4. Batch(r) => claims[r] = 0 \/ claims[r] <= Limit(r)
    BY DEF Fine, Tallied, Working
  <2>5. p = "purge" => claims[r] = 0
    BY DEF Fine, Tallied, AtTheGate, Working
  <2>6. ~HasDeleted(r)
    BY DEF Fine, Tallied, Deleting
  <2> QED
    BY <1>1, <1>2, <2>1, <2>2, <2>3, <2>4, <2>5, <2>6 DEF Tallied, AtTheGate, Deleting, Working
<1> QED
  BY <1>1, <1>3, <1>5, FineBehind

\* A row has been selected for the request.
LEMMA SelectFine ==
  ASSUME TypeOK, NEW r \in Served, Fine(r), LetIn(r), UNCHANGED <<options, claims>>,
         NEW t \in Tasks, Set(r, [request[r] EXCEPT !.pc = "selected", !.task = t]),
         \/ /\ request[r].pc = "fetch" /\ options.backend_of[t] = call(r).backend
         \/ /\ request[r].pc = "method" /\ ~Batch(r)
            /\ call(r).endpoint = "execute" /\ t = call(r).task
  PROVE  Fine(r)' /\ Turn(r) /\ Kept(r)
<1>1. /\ Turn(r)
      /\ request'[r].pc = "selected" /\ request'[r].code = 0 /\ request'[r].task = t
      /\ request'[r].results = request[r].results
      /\ Kept(r)
  BY Selects
<1>2. /\ UNCHANGED <<call(r), Batch(r), Limit(r), HasDeleted(r)>>
      /\ claims'[r] = claims[r] /\ options' = options
      /\ BackendName(call(r))' = BackendName(call(r))
  BY <1>1, Given DEF HasDeleted, Kept
<1>3. Batch(r) => /\ request[r].pc = "fetch" /\ call(r).backend \in Backends
                  /\ call(r).body = "object"
  BY DEF Fine, Placed
<1>4. Batch(r) => options.backend_of[t] = BackendName(call(r))
  BY <1>3, EndpointsAssumption DEF BackendName
<1>5. request[r].pc = "fetch" => Batch(r)
  BY DEF Fine, Placed
<1>6. Placed(r)'
  BY <1>1, <1>2, <1>3, <1>4, <1>5 DEF Placed, AtTheGate, Taking, Deleting
<1>7. Tallied(r)'
  BY <1>1, <1>2, <1>3 DEF Fine, Tallied, AtTheGate, Deleting, Working
<1> QED
  BY <1>1, <1>6, <1>7, FineBehind

\* Only a call with a body, a backend and a sensible number of tasks gets on.
LEMMA MayPosts ==
  ASSUME NEW c \in Call
  PROVE  /\ MayPost(c) \in {Accepts, 400, 500}
         /\ MayPost(c) = Accepts =>
              /\ c.body = "object" /\ c.backend \in Backends
              /\ c.endpoint = "run" => c.max_tasks \in 1 .. 100
<1>1. c.body \in {"object", "other JSON", "not JSON"}
  BY DEF Call
<1>2. CASE c.body = "not JSON"
  <2>1. MayPost(c) = 400
    BY <1>2 DEF MayPost
  <2> QED
    BY <2>1 DEF Accepts
<1>5. CASE c.body = "other JSON"
  <2>1. MayPost(c) = 500
    BY <1>5 DEF MayPost
  <2> QED
    BY <2>1 DEF Accepts
<1>3. CASE c.body = "object" /\ c.endpoint = "run" /\ c.max_tasks \notin 1 .. 100
  <2>1. MayPost(c) = 400
    BY <1>3 DEF MayPost
  <2> QED
    BY <2>1 DEF Accepts
<1>4. CASE c.body = "object" /\ (c.endpoint = "run" => c.max_tasks \in 1 .. 100)
  <2>1. MayPost(c) = IF c.backend \notin Backends THEN 500 ELSE Accepts
    BY <1>4 DEF MayPost
  <2>2. CASE c.backend \in Backends
    BY <1>4, <2>1, <2>2
  <2>3. CASE c.backend \notin Backends
    <3>1. MayPost(c) = 500
      BY <2>1, <2>3
    <3> QED
      BY <3>1 DEF Accepts
  <2> QED
    BY <2>2, <2>3
<1> QED
  BY <1>1, <1>2, <1>3, <1>4, <1>5

LEMMA MayPurges ==
  ASSUME NEW c \in Call
  PROVE  MayPurge(c) \in {Accepts, 400, 500}
<1>1. c.days \in Int /\ c.batch_size \in Int
  BY DEF Call
<1> QED
  BY <1>1 DEF MayPurge, Accepts

LEMMA PostRunFine ==
  ASSUME TypeOK, NEW r \in Served, Fine(r), PostRun(r)
  PROVE  Fine(r)' /\ Turn(r) /\ Kept(r)
<1>1. /\ request[r].pc = "method" /\ UNCHANGED <<options, claims>> /\ Batch(r)
      /\ call(r).endpoint \in {"run", "run_one"}
  BY DEF PostRun, Enters, Batch
<1>2. LetIn(r)
  BY <1>1, Behind
<1>3. CASE MayPost(call(r)) = Accepts
  <2>1. /\ call(r).body = "object" /\ call(r).backend \in Backends
        /\ call(r).endpoint = "run" => call(r).max_tasks \in 1 .. 100
    BY <1>3, Deployed, MayPosts DEF TypeOK
  <2>2. Limit(r) \in 1 .. 100
    BY <1>1, <2>1 DEF Limit
  <2>3. 1 <= Limit(r)
    BY <2>2
  <2>5. Goto(r, "fetch")
    BY <1>3 DEF PostRun
  <2> QED
    BY <1>1, <1>2, <2>1, <2>3, <2>5, GoesFine
<1>4. CASE MayPost(call(r)) # Accepts
  <2>1. MayPost(call(r)) \in {400, 500}
    BY <1>4, Deployed, MayPosts DEF TypeOK
  <2> QED
    BY <1>1, <1>4, <2>1, AnswerFine DEF PostRun, Answers, AtTheGate
<1> QED
  BY <1>3, <1>4

LEMMA MethodsFine ==
  ASSUME TypeOK, NEW r \in Served, Fine(r),
         MethodNotAllowed(r) \/ GetStatus(r) \/ PostExecute(r) \/ GetOrPostPurge(r)
  PROVE  Fine(r)' /\ Turn(r) /\ Kept(r)
<1>1. request[r].pc = "method" /\ UNCHANGED <<options, claims>>
  BY DEF MethodNotAllowed, GetStatus, PostExecute, GetOrPostPurge, Enters
<1>2. LetIn(r) /\ claims[r] = Len(request[r].results)
  BY <1>1, Behind DEF Fine, Tallied, Working
<1>3. ASSUME NEW code \in {200, 400, 404, 405, 500}, Answer(r, code)
      PROVE  Fine(r)' /\ Turn(r) /\ Kept(r)
  BY <1>1, <1>2, <1>3, AnswerFine DEF Answers, AtTheGate
<1>4. CASE MethodNotAllowed(r)
  BY <1>3, <1>4 DEF MethodNotAllowed
<1>5. CASE GetStatus(r)
  BY <1>3, <1>5 DEF GetStatus
<1>6. CASE PostExecute(r)
  <2>1. call(r).endpoint = "execute" /\ ~Batch(r)
    BY <1>6 DEF PostExecute, Enters, Batch
  <2>2. call(r).task \in Tasks
    BY <2>1, Deployed DEF TypeOK
  <2>3. \/ Answer(r, 404) \/ Answer(r, 200)
        \/ Set(r, [request[r] EXCEPT !.pc = "selected", !.task = call(r).task])
    BY <1>6 DEF PostExecute
  <2>4. CASE Set(r, [request[r] EXCEPT !.pc = "selected", !.task = call(r).task])
    BY <1>1, <1>2, <2>1, <2>2, <2>4, SelectFine
  <2> QED
    BY <1>3, <2>3, <2>4
<1>7. CASE GetOrPostPurge(r)
  <2>1. MayPurge(call(r)) \in {Accepts, 400, 500} /\ call(r).endpoint = "purge"
    BY <1>7, Deployed, MayPurges DEF GetOrPostPurge, Enters, TypeOK
  <2>2. (\E code \in {200, 400, 500} : Answer(r, code)) \/ Goto(r, "purge")
    BY <1>7, <2>1 DEF GetOrPostPurge, Accepts
  <2>3. CASE Goto(r, "purge")
    BY <1>1, <1>2, <2>1, <2>3, GoesFine
  <2> QED
    BY <1>3, <2>2, <2>3
<1> QED
  BY <1>4, <1>5, <1>6, <1>7

-----------------------------------------------------------------------------
(* Running and deleting.                                                   *)

LEMMA FetchFine ==
  ASSUME TypeOK, NEW r \in Served, Fine(r), Fetch(r)
  PROVE  Fine(r)' /\ Turn(r) /\ Kept(r)
<1>1. request[r].pc = "fetch" /\ UNCHANGED <<options, claims>>
  BY DEF Fetch
<1>2. LetIn(r) /\ claims[r] = Len(request[r].results)
  BY <1>1, Behind DEF Fine, Tallied, Working
<1>3. CASE Answer(r, 200)
  BY <1>1, <1>2, <1>3, AnswerFine DEF Answers
<1>4. ASSUME NEW t \in Tasks, Fetchable(r, t),
             Set(r, [request[r] EXCEPT !.pc = "selected", !.task = t])
      PROVE  Fine(r)' /\ Turn(r) /\ Kept(r)
  BY <1>1, <1>2, <1>4, SelectFine DEF Fetchable
<1> QED
  BY <1>3, <1>4 DEF Fetch

LEMMA UnlockFine ==
  ASSUME TypeOK, NEW r \in Served, Fine(r), Unlock(r)
  PROVE  Fine(r)' /\ Turn(r) /\ Kept(r)
BY Behind, GoesFine DEF Unlock, Taking

LEMMA ClaimFine ==
  ASSUME TypeOK, NEW r \in Served, Fine(r), Claim(r)
  PROVE  Fine(r)' /\ Turn(r) /\ Kept(r)
<1>1. request[r].pc = "claim" /\ UNCHANGED options
  BY DEF Claim
<1>2. LetIn(r) /\ claims[r] = Len(request[r].results)
  BY <1>1, Behind DEF Fine, Tallied, Taking, Working
<1>3. CASE Goto(r, "run") /\ claims' = [claims EXCEPT ![r] = @ + 1]
  <2>1. /\ Turn(r)
        /\ request'[r].pc = "run" /\ request'[r].code = 0
        /\ request'[r].task = request[r].task /\ request'[r].results = request[r].results
        /\ Kept(r)
    BY <1>1, <1>3, Moves DEF PCs
  <2>2. /\ UNCHANGED <<call(r), Batch(r), Limit(r), HasDeleted(r)>> /\ options' = options
        /\ BackendName(call(r))' = BackendName(call(r))
    BY <1>1, <2>1, Given DEF HasDeleted, Kept
  <2>3. claims'[r] = claims[r] + 1 /\ claims[r] \in Nat /\ Limit(r) \in Int
    BY <1>3, Numbers DEF TypeOK
  <2>4. Placed(r)'
    BY <1>1, <2>1, <2>2 DEF Placed, Fine, AtTheGate, Taking, Deleting
  <2>5. Batch(r) => claims'[r] <= Limit(r)
    BY <1>1, <2>3 DEF Fine, Tallied, Working
  <2>6. ~HasDeleted(r)
    BY <1>1 DEF Fine, Tallied, Deleting
  <2>7. Tallied(r)'
    BY <1>2, <2>1, <2>2, <2>3, <2>5, <2>6 DEF Tallied, AtTheGate, Deleting, Working
  <2> QED
    BY <1>2, <2>1, <2>4, <2>7, FineBehind
<1>4. CASE LostClaim(r) /\ UNCHANGED claims
  <2>1. CASE Batch(r)
    <3>1. Goto(r, "fetch") /\ call(r).backend \in Backends /\ call(r).body = "object"
      BY <1>1, <1>4, <2>1 DEF LostClaim, Fine, Placed, Taking
    <3> QED
      BY <1>1, <1>2, <1>4, <2>1, <3>1, GoesFine
  <2>2. CASE ~Batch(r)
    BY <1>1, <1>2, <1>4, <2>2, AnswerFine DEF LostClaim, Answers
  <2> QED
    BY <2>1, <2>2
<1> QED
  BY <1>3, <1>4 DEF Claim

\* The outcome of a task that was run is saved.
LEMMA SavesFine ==
  ASSUME TypeOK, NEW r \in Served, Fine(r), UNCHANGED <<options, claims>>,
         request[r].pc \in {"run", "succeeded"}, NEW p \in {"succeeded", "failed"}, Goto(r, p)
  PROVE  Fine(r)' /\ Turn(r) /\ Kept(r)
<1>1. /\ Turn(r)
      /\ request'[r].pc = p /\ request'[r].code = 0
      /\ request'[r].task = request[r].task /\ request'[r].results = request[r].results
      /\ Kept(r)
  BY Moves DEF PCs
<1>2. /\ UNCHANGED <<call(r), Batch(r), Limit(r), HasDeleted(r)>> /\ options' = options
      /\ claims'[r] = claims[r] /\ BackendName(call(r))' = BackendName(call(r))
  BY <1>1, Given DEF HasDeleted, Kept
<1>3. LetIn(r)
  BY Behind DEF Taking, Working
<1>4. Placed(r)'
  BY <1>1, <1>2 DEF Placed, Fine, AtTheGate, Taking, Working, Deleting
<1>5. Tallied(r)'
  BY <1>1, <1>2 DEF Tallied, Fine, AtTheGate, Working, Deleting
<1> QED
  BY <1>1, <1>3, <1>4, <1>5, FineBehind

\* What becomes of a task is reported: the batch goes on, or the request is
\* answered.
LEMMA Reports ==
  ASSUME TypeOK, NEW r \in Served, Fine(r), Report(r)
  PROVE  /\ Turn(r) /\ Len(request'[r].results) = Len(request[r].results) + 1
         /\ request'[r].task = request[r].task /\ Kept(r)
         /\ \/ request'[r].pc = "fetch" /\ request'[r].code = 0
               /\ Batch(r) /\ Len(request[r].results) + 1 < Limit(r)
            \/ request'[r].pc = "answered" /\ request'[r].code \in {200, 500}
<1> DEFINE x == request[r]
           more == Batch(r) /\ Len(x.results) + 1 < Limit(r)
<1>1. x.pc \in {"succeeded", "failed"} /\ UNCHANGED options
  BY DEF Report
<1>2. PICK read \in Stored :
        Set(r, IF more
               THEN [x EXCEPT !.results = Append(@, read), !.pc = "fetch"]
               ELSE [x EXCEPT !.results = Append(@, read), !.pc = "answered",
                              !.code = Code(r, read)])
  BY DEF Report
<1> HIDE DEF more
<1>3. CASE more
  <2>1. Set(r, [x EXCEPT !.results = Append(@, read), !.pc = "fetch"])
    BY <1>2, <1>3
  <2>2. /\ Turn(r) /\ Len(request'[r].results) = Len(x.results) + 1
        /\ request'[r].task = x.task /\ Kept(r)
        /\ request'[r].pc = "fetch" /\ request'[r].code = 0
    BY <1>1, <2>1, ReportsMore
  <2> QED
    BY <1>3, <2>2 DEF more
<1>4. CASE ~more
  <2> DEFINE code == Code(r, read)
  <2>1. code \in {200, 500}
    BY DEF Code
  <2>2. code \in Answers \ {0}
    BY <2>1 DEF Answers
  <2>3. Set(r, [x EXCEPT !.results = Append(@, read), !.pc = "answered", !.code = code])
    BY <1>2, <1>4
  <2> HIDE DEF code
  <2>4. /\ Turn(r) /\ Len(request'[r].results) = Len(x.results) + 1
        /\ request'[r].task = x.task /\ Kept(r)
        /\ request'[r].pc = "answered" /\ request'[r].code = code
    BY <1>1, <2>2, <2>3, ReportsLast
  <2>5. request'[r].pc = "answered" /\ request'[r].code \in {200, 500}
    BY <2>1, <2>4
  <2> QED
    BY <2>4, <2>5
<1> QED
  BY <1>3, <1>4

LEMMA ReportFine ==
  ASSUME TypeOK, NEW r \in Served, Fine(r), Report(r)
  PROVE  Fine(r)' /\ Turn(r) /\ Kept(r)
<1> DEFINE x == request[r]
<1>1. x.pc \in {"succeeded", "failed"} /\ UNCHANGED <<options, claims>>
  BY DEF Report
<1>2. /\ LetIn(r) /\ claims[r] = Len(x.results) + 1
      /\ Batch(r) => claims[r] = 0 \/ claims[r] <= Limit(r)
      /\ claims[r] \in Nat /\ Len(x.results) \in Nat /\ Limit(r) \in Int
  BY <1>1, Behind, Numbers DEF Fine, Tallied, Taking, Working
<1>3. /\ Turn(r) /\ Len(request'[r].results) = Len(x.results) + 1
      /\ request'[r].task = x.task /\ Kept(r)
      /\ \/ request'[r].pc = "fetch" /\ request'[r].code = 0
            /\ Batch(r) /\ Len(x.results) + 1 < Limit(r)
         \/ request'[r].pc = "answered" /\ request'[r].code \in {200, 500}
  BY Reports
<1>4. /\ UNCHANGED <<call(r), Batch(r), Limit(r), HasDeleted(r)>>
      /\ claims'[r] = claims[r] /\ options' = options
      /\ BackendName(call(r))' = BackendName(call(r))
  BY <1>1, <1>3, Given DEF HasDeleted, Kept
<1>5. Placed(r)'
  BY <1>1, <1>3, <1>4 DEF Placed, Fine, AtTheGate, Taking, Deleting, Working
<1>6. Tallied(r)'
  <2>1. ~HasDeleted(r)
    BY <1>1 DEF Fine, Tallied, Deleting, Working
  <2> QED
    BY <1>2, <1>3, <1>4, <2>1 DEF Tallied, AtTheGate, Deleting, Working
<1> QED
  BY <1>2, <1>3, <1>5, <1>6, FineBehind

LEMMA NotFoundFine ==
  ASSUME TypeOK, NEW r \in Served, Fine(r), NotFound(r)
  PROVE  Fine(r)' /\ Turn(r) /\ Kept(r)
<1>1. request[r].pc = "failed" /\ UNCHANGED <<options, claims>>
  BY DEF NotFound
<1>2. LetIn(r)
  BY <1>1, Behind DEF Taking, Working
<1>3. Answer(r, 500) \/ Answer(r, 404)
  BY DEF NotFound
<1> QED
  BY <1>1, <1>2, <1>3, AnswerFine DEF Working, Answers

LEMMA RaiseFine ==
  ASSUME TypeOK, NEW r \in Served, Fine(r), Raise(r)
  PROVE  Fine(r)' /\ Turn(r) /\ Kept(r)
BY AnswerFine DEF Raise, Answers

LEMMA PurgeSelectFine ==
  ASSUME TypeOK, NEW r \in Served, Fine(r), PurgeSelect(r)
  PROVE  Fine(r)' /\ Turn(r) /\ Kept(r)
<1>1. request[r].pc = "purge" /\ UNCHANGED <<options, claims>>
  BY DEF PurgeSelect
<1>2. LetIn(r) /\ claims[r] = Len(request[r].results)
  BY <1>1, Behind DEF Fine, Tallied, Deleting, Working
<1>3. CASE Answer(r, 200)
  BY <1>1, <1>2, <1>3, AnswerFine DEF Answers
<1>4. ASSUME NEW S \in SUBSET Purgeable(call(r)),
             Set(r, [request[r] EXCEPT !.pc = "delete", !.doomed = S])
      PROVE  Fine(r)' /\ Turn(r) /\ Kept(r)
  <2>0. S \subseteq {t \in Tasks : status[t] # "NONE"}
    BY DEF Purgeable, Statuses, Completed
  <2>1. /\ Turn(r)
        /\ request'[r].pc = "delete" /\ request'[r].code = 0 /\ request'[r].doomed = S
        /\ request'[r].task = request[r].task /\ request'[r].results = request[r].results
        /\ request'[r].deleted = request[r].deleted
    BY <1>1, <1>4, <2>0, Dooms
  <2>2. /\ UNCHANGED <<call(r), Batch(r), Limit(r), HasDeleted(r)>>
        /\ claims'[r] = claims[r] /\ options' = options
        /\ BackendName(call(r))' = BackendName(call(r))
    BY <1>1, <2>1, Given DEF HasDeleted
  <2>3. Placed(r)'
    BY <1>1, <2>1, <2>2 DEF Placed, Fine, AtTheGate, Taking, Deleting
  <2>4. Tallied(r)'
    BY <1>1, <2>1, <2>2 DEF Tallied, Fine, AtTheGate, Deleting, Working
  <2>5. Kept(r)
    BY <2>0, <2>1 DEF Kept
  <2> QED
    BY <1>2, <2>1, <2>3, <2>4, <2>5, FineBehind
<1> QED
  BY <1>3, <1>4 DEF PurgeSelect

LEMMA PurgeDeleteTurn ==
  ASSUME TypeOK, NEW r \in Served, PurgeDelete(r)
  PROVE  /\ Turn(r)
         /\ request'[r].pc = "purge" /\ request'[r].code = 0 /\ request'[r].doomed = {}
         /\ request'[r].task = request[r].task /\ request'[r].results = request[r].results
         /\ request'[r].deleted = Counted(request[r].deleted, Deleted(request[r].doomed))
<1> DEFINE n == Counted(request[r].deleted, Deleted(request[r].doomed))
<1>1. request[r].pc = "delete" /\ UNCHANGED options
      /\ Set(r, [request[r] EXCEPT !.pc = "purge", !.doomed = {}, !.deleted = n])
  BY DEF PurgeDelete
<1>2. request[r].deleted \in [Tasks -> Nat]
  BY <1>1, Unanswered DEF Request
<1>3. n \in [Tasks -> Nat]
  BY <1>2 DEF Counted
<1> HIDE DEF n
<1>4. QED
  BY <1>1, <1>3, Purges DEF n

LEMMA PurgeDeleteFine ==
  ASSUME TypeOK, NEW r \in Served, Fine(r), PurgeDelete(r)
  PROVE  Fine(r)' /\ Turn(r)
<1>1. request[r].pc = "delete" /\ UNCHANGED <<options, claims>>
  BY DEF PurgeDelete
<1>2. /\ Turn(r)
      /\ request'[r].pc = "purge" /\ request'[r].code = 0
      /\ request'[r].task = request[r].task /\ request'[r].results = request[r].results
  BY PurgeDeleteTurn
<1>3. /\ UNCHANGED <<call(r), Batch(r), Limit(r)>> /\ claims'[r] = claims[r] /\ options' = options
      /\ BackendName(call(r))' = BackendName(call(r)) /\ LetIn(r)
  BY <1>1, Given, Behind DEF Deleting
<1>4. Placed(r)'
  BY <1>1, <1>2, <1>3 DEF Placed, Fine, AtTheGate, Taking, Deleting
<1>5. Tallied(r)'
  BY <1>1, <1>2, <1>3 DEF Tallied, Fine, AtTheGate, Deleting, Working
<1> QED
  BY <1>2, <1>3, <1>4, <1>5, FineBehind

LEMMA ServeFine ==
  ASSUME TypeOK, NEW r \in Served, Fine(r), Serve(r)
  PROVE  Fine(r)' /\ Turn(r) /\ (Kept(r) \/ PurgeDelete(r))
BY DispatchFine, TryHandlerFine, NoHandlerLeftFine, MethodsFine, PostRunFine, FetchFine, UnlockFine,
  ClaimFine, SavesFine, ReportFine, NotFoundFine, RaiseFine, PurgeSelectFine, PurgeDeleteFine
  DEF Serve, Finish, RecordError

-----------------------------------------------------------------------------
(* The table, and the rest of the world.                                   *)

\* What a step of a request does to the table and the claims.
LEMMA ServeTyped ==
  ASSUME TypeOK, NEW r \in Served, Fine(r), Serve(r)
  PROVE  status' \in [Tasks -> Status] /\ others' = others /\ claims' \in [Served -> Nat]
<1>1. /\ status \in [Tasks -> Status] /\ claims \in [Served -> Nat] /\ claims[r] \in Nat
  BY DEF TypeOK
<1>2. \A s \in Completed \cup {"READY", "RUNNING", "DELETED"} : s \in Status
  BY DEF Status, Stored
<1>3. CASE Unlock(r)
  BY <1>1, <1>2, <1>3 DEF Unlock
<1>4. CASE Claim(r)
  <2>1. CASE UNCHANGED <<status, claims>>
    BY <1>1, <1>4, <2>1 DEF Claim
  <2>2. CASE /\ status' = [status EXCEPT ![request[r].task] = "RUNNING"]
             /\ claims' = [claims EXCEPT ![r] = @ + 1]
    <3>1. claims[r] + 1 \in Nat /\ claims' \in [Served -> Nat]
      BY <1>1, <2>2
    <3>2. status' \in [Tasks -> Status] /\ others' = others
      BY <1>1, <1>2, <1>4, <2>2 DEF Claim
    <3> QED
      BY <3>1, <3>2
  <2> QED
    BY <1>4, <2>1, <2>2 DEF Claim
<1>5. CASE Finish(r) \/ RecordError(r)
  BY <1>1, <1>2, <1>5 DEF Finish, RecordError, Completed
<1>6. CASE PurgeDelete(r)
  BY <1>1, <1>2, <1>6 DEF PurgeDelete
<1>7. CASE UNCHANGED <<status, others, claims>>
  BY <1>1, <1>7
<1> QED
  BY <1>3, <1>4, <1>5, <1>6, <1>7 DEF Serve, Dispatch, TryHandler, NoHandlerLeft,
    MethodNotAllowed, PostRun, GetStatus, PostExecute, GetOrPostPurge, Fetch, Report, NotFound, Raise,
    PurgeSelect

LEMMA TypedNext ==
  ASSUME TypeOK, \A r \in Served : Fine(r), [Next]_vars
  PROVE  TypeOK'
<1>1. CASE UNCHANGED vars
  BY <1>1 DEF TypeOK, vars, Served
<1>2. ASSUME NEW t \in Tasks, Enqueue(t) \/ OtherClaims(t) \/ OtherFinishes(t)
      PROVE  TypeOK'
  <2>1. UNCHANGED <<options, request, claims>>
    BY <1>2 DEF Enqueue, OtherClaims, OtherFinishes
  <2>2. \A s \in Completed \cup {"READY", "RUNNING"} : s \in Status
    BY DEF Status, Stored
  <2>3. status' \in [Tasks -> Status] /\ others' \subseteq Tasks
    BY <1>2, <2>2 DEF Enqueue, OtherClaims, OtherFinishes, TypeOK
  <2> QED
    BY <2>1, <2>3 DEF TypeOK, Served
<1>3. ASSUME NEW r \in Served, Serve(r)
      PROVE  TypeOK'
  <2>1. Turn(r) /\ status' \in [Tasks -> Status] /\ others' = others
        /\ claims' \in [Served -> Nat]
    BY <1>3, ServeFine, ServeTyped
  <2>2. UNCHANGED Served
    BY <2>1 DEF Turn, Served
  <2>3. \A s \in Served : request'[s].pc = "answered" <=> request'[s].code # 0
    BY <2>1 DEF Turn, TypeOK
  <2> QED
    BY <2>1, <2>2, <2>3 DEF Turn, TypeOK
<1> QED
  BY <1>1, <1>2, <1>3 DEF Next, Quiet

\* A request claims for itself.
LEMMA OthersClaims ==
  ASSUME TypeOK, NEW s \in Served, Serve(s), NEW r \in Served, s # r
  PROVE  claims'[r] = claims[r]
<1>1. claims \in [Served -> Nat]
  BY DEF TypeOK
<1>2. UNCHANGED claims \/ claims' = [claims EXCEPT ![s] = @ + 1]
  BY DEF Serve, Dispatch, TryHandler, NoHandlerLeft, MethodNotAllowed, PostRun, GetStatus,
    PostExecute, GetOrPostPurge, Fetch, Unlock, Claim, Finish, RecordError, Report, NotFound,
    Raise, PurgeSelect, PurgeDelete
<1> QED
  BY <1>1, <1>2

LEMMA FineNext ==
  ASSUME TypeOK, \A r \in Served : Fine(r), [Next]_vars
  PROVE  \A r \in Served' : Fine(r)'
<1>1. UNCHANGED Served
  <2>1. ASSUME NEW r \in Served, Serve(r) PROVE UNCHANGED Served
    BY <2>1, ServeFine DEF Turn, Served
  <2> QED
    BY <2>1 DEF Next, Quiet, vars, Served, Enqueue, OtherClaims, OtherFinishes
<1>2. SUFFICES ASSUME NEW r \in Served PROVE Fine(r)'
  BY <1>1
<1>3. CASE UNCHANGED <<options, request, claims>>
  BY <1>3, StaysFine
<1>4. ASSUME NEW s \in Served, Serve(s)
      PROVE  Fine(r)'
  <2>1. CASE s = r
    BY <1>4, <2>1, ServeFine
  <2>2. CASE s # r
    <3>1. UNCHANGED <<options, request[r]>>
      BY <1>4, <2>2, ServeFine DEF Turn
    <3>2. claims'[r] = claims[r]
      BY <1>4, <2>2, OthersClaims
    <3> QED
      BY <3>1, <3>2, StaysFine
  <2> QED
    BY <2>1, <2>2
<1> QED
  BY <1>3, <1>4 DEF Next, Quiet, vars, Enqueue, OtherClaims, OtherFinishes

-----------------------------------------------------------------------------
(* Every row that is gone is counted once.                                 *)

LEMMA StillCounted ==
  ASSUME CountedOnce, UNCHANGED Served,
         \A t \in Tasks : /\ status'[t] = "DELETED" <=> status[t] = "DELETED"
                          /\ status[t] # "NONE" => status'[t] # "NONE",
         \A r \in Served :
           /\ request'[r].deleted = request[r].deleted
           /\ request'[r].doomed \subseteq request[r].doomed \cup
                                           {t \in Tasks : status[t] # "NONE"},
         \A r \in Served : request[r].doomed \subseteq Tasks
  PROVE  CountedOnce'
<1>1. ASSUME NEW r \in Served, NEW t \in request'[r].doomed PROVE status'[t] # "NONE"
  BY <1>1 DEF CountedOnce
<1>2. ASSUME NEW t \in Tasks
      PROVE  IF status'[t] = "DELETED"
             THEN \E r \in Served : /\ request'[r].deleted[t] = 1
                                   /\ \A s \in Served \ {r} : request'[s].deleted[t] = 0
             ELSE \A r \in Served : request'[r].deleted[t] = 0
  BY <1>2 DEF CountedOnce
<1> QED
  BY <1>1, <1>2 DEF CountedOnce

\* Rows that are deleted now count for the purge that deletes them, and for
\* no other: whoever was before it has counted them and has left nothing.
LEMMA PurgeCounts ==
  ASSUME TypeOK, CountedOnce, NEW r \in Served, Fine(r), PurgeDelete(r)
  PROVE  CountedOnce'
<1> DEFINE doomed == request[r].doomed
<1>1. /\ Turn(r) /\ UNCHANGED options
      /\ request'[r].doomed = {}
      /\ request'[r].deleted = Counted(request[r].deleted, Deleted(doomed))
      /\ status' = [t \in Tasks |-> IF t \in doomed THEN "DELETED" ELSE status[t]]
  BY PurgeDeleteTurn DEF PurgeDelete
<1>2. UNCHANGED Served /\ \A s \in Served : s # r => request'[s] = request[s]
  BY <1>1 DEF Turn, Served
<1>3. ASSUME NEW s \in Served
      PROVE  request[s].deleted \in [Tasks -> Nat] /\ request[s].doomed \subseteq Tasks
  <2>1. request[s] \in Request
    BY DEF TypeOK
  <2> QED
    BY <2>1 DEF Request
<1>4. ASSUME NEW s \in Served, NEW t \in request'[s].doomed PROVE status'[t] # "NONE"
  <2>1. s # r /\ t \in request[s].doomed /\ t \in Tasks
    BY <1>1, <1>2, <1>3, <1>4
  <2>2. status[t] # "NONE"
    BY <2>1 DEF CountedOnce
  <2> QED
    BY <1>1, <2>1, <2>2
<1>5. ASSUME NEW t \in Tasks
      PROVE  IF status'[t] = "DELETED"
             THEN \E q \in Served : /\ request'[q].deleted[t] = 1
                                   /\ \A s \in Served \ {q} : request'[s].deleted[t] = 0
             ELSE \A q \in Served : request'[q].deleted[t] = 0
  <2>1. status'[t] = IF t \in doomed THEN "DELETED" ELSE status[t]
    BY <1>1
  <2>2. request'[r].deleted[t] =
          IF t \in Deleted(doomed) THEN request[r].deleted[t] + 1 ELSE request[r].deleted[t]
    BY <1>1, <1>3 DEF Counted
  <2>3. status[t] \in Status
    BY DEF TypeOK
  <2>4. t \in doomed => status[t] \in Stored \/ status[t] = "DELETED"
    BY <2>3 DEF CountedOnce, Status
  <2>5. CASE t \in Deleted(doomed)
    <3>1. status[t] # "DELETED" /\ status'[t] = "DELETED"
      BY <2>1, <2>5 DEF Deleted, Stored, Completed
    <3>2. \A s \in Served : request[s].deleted[t] = 0
      BY <3>1 DEF CountedOnce
    <3>3. request'[r].deleted[t] = 1 /\ \A s \in Served \ {r} : request'[s].deleted[t] = 0
      BY <1>2, <2>2, <2>5, <3>2
    <3> QED
      BY <3>1, <3>3
  <2>6. CASE t \notin Deleted(doomed)
    <3>1. status'[t] = "DELETED" <=> status[t] = "DELETED"
      BY <2>1, <2>4, <2>6 DEF Deleted
    <3>2. \A s \in Served : request'[s].deleted[t] = request[s].deleted[t]
      BY <1>2, <2>2, <2>6
    <3> QED
      BY <3>1, <3>2 DEF CountedOnce
  <2> QED
    BY <2>5, <2>6
<1> QED
  BY <1>2, <1>4, <1>5 DEF CountedOnce

LEMMA CountedNext ==
  ASSUME Orderly, [Next]_vars
  PROVE  CountedOnce'
<1>1. TypeOK /\ CountedOnce /\ (\A r \in Served : Fine(r)) /\ status \in [Tasks -> Status]
  BY DEF Orderly, TypeOK
<1>2. \A r \in Served : request[r].doomed \subseteq Tasks
  <2>1. \A r \in Served : request[r] \in Request
    BY <1>1 DEF TypeOK
  <2> QED
    BY <2>1 DEF Request
<1>3. \A s \in Completed \cup {"READY", "RUNNING"} : s \notin {"NONE", "DELETED"}
  BY DEF Completed
<1>4. CASE UNCHANGED vars
  BY <1>1, <1>2, <1>4, StillCounted DEF vars, Served
<1>5. ASSUME NEW t \in Tasks, Enqueue(t) \/ OtherClaims(t) \/ OtherFinishes(t)
      PROVE  CountedOnce'
  <2>1. UNCHANGED <<options, request>>
    BY <1>5 DEF Enqueue, OtherClaims, OtherFinishes
  <2>2. \A u \in Tasks : /\ status'[u] = "DELETED" <=> status[u] = "DELETED"
                         /\ status[u] # "NONE" => status'[u] # "NONE"
    BY <1>1, <1>3, <1>5 DEF Enqueue, OtherClaims, OtherFinishes, Stored
  <2> QED
    BY <1>1, <1>2, <2>1, <2>2, StillCounted DEF Served
<1>6. ASSUME NEW r \in Served, Serve(r), ~PurgeDelete(r)
      PROVE  CountedOnce'
  <2>1. Turn(r) /\ Kept(r)
    BY <1>1, <1>6, ServeFine
  <2>2. UNCHANGED Served
    BY <2>1 DEF Turn, Served
  <2>3. \A s \in Served :
          /\ request'[s].deleted = request[s].deleted
          /\ request'[s].doomed \subseteq request[s].doomed \cup {t \in Tasks : status[t] # "NONE"}
    BY <2>1 DEF Turn, Kept
  <2>4. \A t \in Tasks : /\ status'[t] = "DELETED" <=> status[t] = "DELETED"
                         /\ status[t] # "NONE" => status'[t] # "NONE"
    <3>1. CASE UNCHANGED status
      BY <3>1
    <3>2. CASE Unlock(r)
      BY <1>1, <3>2 DEF Unlock
    <3>3. CASE Claim(r)
      BY <1>1, <3>3 DEF Claim, Claimable
    <3>4. CASE Finish(r) \/ RecordError(r)
      BY <1>1, <1>3, <3>4 DEF Finish, RecordError, Stored
    <3> QED
      BY <1>6, <3>1, <3>2, <3>3, <3>4 DEF Serve, Dispatch, TryHandler, NoHandlerLeft,
        MethodNotAllowed, PostRun, GetStatus, PostExecute, GetOrPostPurge, Fetch, Report,
        NotFound, Raise, PurgeSelect
  <2> QED
    BY <1>1, <1>2, <2>2, <2>3, <2>4, StillCounted
<1>7. ASSUME NEW r \in Served, PurgeDelete(r)
      PROVE  CountedOnce'
  BY <1>1, <1>7, PurgeCounts
<1> QED
  BY <1>4, <1>5, <1>6, <1>7 DEF Next, Quiet

-----------------------------------------------------------------------------
(* What is not found.                                                      *)

\* No row comes into being twice, and none that is gone comes back.
LEMMA RowsStay ==
  ASSUME TypeOK, \A r \in Served : Fine(r), [Next]_vars, NEW t \in Tasks
  PROVE  /\ status[t] = "DELETED" => status'[t] = "DELETED"
         /\ status[t] # "NONE" => status'[t] # "NONE"
<1>1. status \in [Tasks -> Status]
  BY DEF TypeOK
<1>2. CASE UNCHANGED status
  BY <1>2
<1>3. ASSUME NEW u \in Tasks, Enqueue(u) \/ OtherClaims(u) \/ OtherFinishes(u)
      PROVE  /\ status[t] = "DELETED" => status'[t] = "DELETED"
             /\ status[t] # "NONE" => status'[t] # "NONE"
  BY <1>1, <1>3 DEF Enqueue, OtherClaims, OtherFinishes, Stored, Completed
<1>4. ASSUME NEW r \in Served, Unlock(r) \/ Claim(r)
      PROVE  /\ status[t] = "DELETED" => status'[t] = "DELETED"
             /\ status[t] # "NONE" => status'[t] # "NONE"
  BY <1>1, <1>4 DEF Unlock, Claim, Claimable
<1>5. ASSUME NEW r \in Served, Finish(r) \/ RecordError(r) \/ PurgeDelete(r)
      PROVE  /\ status[t] = "DELETED" => status'[t] = "DELETED"
             /\ status[t] # "NONE" => status'[t] # "NONE"
  BY <1>1, <1>5 DEF Finish, RecordError, PurgeDelete, Stored, Completed
<1> QED
  BY <1>2, <1>3, <1>4, <1>5 DEF Next, Quiet, vars, Serve, Dispatch, TryHandler, NoHandlerLeft,
    MethodNotAllowed, PostRun, GetStatus, PostExecute, GetOrPostPurge, Fetch, Report, NotFound,
    Raise, PurgeSelect

\* The task of a request is one that it has found in the table, and what it
\* answers with 404 is one it has not claimed, or has run in vain.
LEMMA TaskNext ==
  ASSUME TypeOK, NEW r \in Served, Fine(r), Serve(r)
  PROVE  /\ \/ request'[r].task = request[r].task
            \/ request'[r].task \in Tasks /\ status[request'[r].task] \in Stored
         /\ request'[r].code = 404 =>
              /\ claims' = claims
              /\ \/ claims[r] = 0
                 \/ /\ request[r].pc = "failed" /\ request'[r].task = request[r].task
                    /\ status[request[r].task] \notin Stored
<1> DEFINE Fair == /\ \/ request'[r].task = request[r].task
                      \/ request'[r].task \in Tasks /\ status[request'[r].task] \in Stored
                   /\ request'[r].code # 404
<1>1. request[r].pc # "answered"
  BY DEF Serve, Dispatch, TryHandler, NoHandlerLeft, MethodNotAllowed, PostRun, GetStatus,
    PostExecute, GetOrPostPurge, Enters, Fetch, Unlock, Claim, Finish, RecordError, Report,
    NotFound, Raise, PurgeSelect, PurgeDelete
<1>2. UNCHANGED options
  BY ServeFine DEF Turn
<1>3. ASSUME NEW p \in PCs \ {"answered"}, Goto(r, p) PROVE Fair
  BY <1>1, <1>2, <1>3, Moves
<1>4. ASSUME NEW code \in {200, 400, 401, 403, 405, 500}, Answer(r, code) PROVE Fair
  BY <1>1, <1>2, <1>4, AnswersIt DEF Answers
<1>5. ASSUME NEW t \in Tasks, status[t] \in Stored,
             Set(r, [request[r] EXCEPT !.pc = "selected", !.task = t])
      PROVE  Fair
  <2>1. request'[r].task = t /\ request'[r].code = 0
    BY <1>1, <1>2, <1>5, Selects
  <2> QED
    BY <1>5, <2>1
<1>6. CASE Dispatch(r) \/ MethodNotAllowed(r) \/ GetStatus(r) \/ GetOrPostPurge(r) \/ Raise(r)
  <2>1. MayPurge(call(r)) \in {Accepts, 400, 500}
    BY DEF MayPurge
  <2> QED
    BY <1>3, <1>4, <1>6, <2>1
    DEF Dispatch, MethodNotAllowed, GetStatus, GetOrPostPurge, Raise, PCs
<1>7. CASE TryHandler(r)
  <2>1. request[r].pc = "auth"
    BY <1>7 DEF TryHandler
  <2>2. \A i \in Asked(r) : i \in Nat /\ Says(r, i) \in {Accepts, ServerError, 401, 403}
    BY <2>1, AskedNext
  <2>3. PICK i \in Asked(r) :
          CASE Says(r, i) = Accepts -> Goto(r, "method")
            [] Says(r, i) = ServerError -> Answer(r, 500)
            [] OTHER -> Set(r, [request[r] EXCEPT !.tried = @ \cup {i},
                                                  !.refusal = FirstRefusal(@, Says(r, i))])
    BY <1>7 DEF TryHandler, Untried, Asked, Says
  <2>4. CASE Says(r, i) \in {Accepts, ServerError}
    BY <1>3, <1>4, <2>3, <2>4 DEF Accepts, ServerError, PCs
  <2>5. CASE Says(r, i) \notin {Accepts, ServerError}
    <3> DEFINE v == FirstRefusal(request[r].refusal, Says(r, i))
    <3>1. Set(r, [request[r] EXCEPT !.tried = @ \cup {i}, !.refusal = v])
      BY <2>3, <2>5
    <3>2. v \in Refusals /\ i \in Nat
      BY <1>1, <2>2, <2>5, Unanswered DEF FirstRefusal, Refusals, Request
    <3> HIDE DEF v
    <3>3. request'[r].task = request[r].task /\ request'[r].code = 0
      BY <1>2, <2>1, <3>1, <3>2, Rejects
    <3> QED
      BY <3>3
  <2> QED
    BY <2>4, <2>5
<1>8. CASE NoHandlerLeft(r)
  <2>1. request[r].refusal \in {Accepts, 401, 403}
    BY <1>1, Unanswered DEF Request
  <2> QED
    BY <1>3, <1>4, <1>8, <2>1 DEF NoHandlerLeft, PCs
<1>9. CASE PostRun(r)
  <2>1. MayPost(call(r)) \in {Accepts, 400, 500}
    BY Deployed, MayPosts DEF TypeOK
  <2> QED
    BY <1>3, <1>4, <1>9, <2>1 DEF PostRun, PCs
<1>10. CASE PostExecute(r)
  <2>1. /\ request[r].pc = "method" /\ call(r).endpoint = "execute" /\ claims' = claims
    BY <1>10 DEF PostExecute, Enters
  <2>2. call(r).task \in Tasks /\ claims[r] = 0
    BY <2>1, Deployed DEF TypeOK, Fine, Tallied, AtTheGate
  <2>3. \/ Answer(r, 404) \/ Answer(r, 200)
        \/ /\ status[call(r).task] \in Stored
           /\ Set(r, [request[r] EXCEPT !.pc = "selected", !.task = call(r).task])
    BY <1>10 DEF PostExecute, Stored, Completed
  <2>4. CASE Answer(r, 404)
    BY <1>1, <1>2, <2>1, <2>2, <2>4, AnswersIt DEF Answers
  <2>5. CASE Answer(r, 200)
    BY <1>4, <2>5
  <2>6. CASE /\ status[call(r).task] \in Stored
             /\ Set(r, [request[r] EXCEPT !.pc = "selected", !.task = call(r).task])
    <3> HIDE DEF Fair
    <3>1. Fair
      BY <1>5, <2>2, <2>6
    <3> QED
      BY <3>1 DEF Fair
  <2> QED
    BY <2>3, <2>4, <2>5, <2>6
<1>11. CASE Fetch(r)
  <2>1. CASE Answer(r, 200)
    BY <1>4, <2>1
  <2>2. ASSUME NEW t \in Tasks, Fetchable(r, t),
               Set(r, [request[r] EXCEPT !.pc = "selected", !.task = t])
        PROVE  Fair
    <3> HIDE DEF Fair
    <3>1. status[t] \in Stored
      BY <2>2 DEF Fetchable, Stored
    <3> QED
      BY <1>5, <2>2, <3>1
  <2> QED
    BY <1>11, <2>1, <2>2 DEF Fetch
<1>12. CASE Unlock(r) \/ Finish(r) \/ RecordError(r)
  BY <1>3, <1>12 DEF Unlock, Finish, RecordError, PCs
<1>13. CASE Claim(r)
  BY <1>3, <1>4, <1>13 DEF Claim, LostClaim, PCs
<1>14. CASE Report(r)
  BY <1>14, Reports
<1>15. CASE NotFound(r)
  <2>1. Answer(r, 500) \/ Answer(r, 404)
    BY <1>15 DEF NotFound
  <2>2. CASE Answer(r, 500)
    BY <1>4, <2>2
  <2>3. CASE Answer(r, 404)
    BY <1>1, <1>2, <1>15, <2>3, AnswersIt DEF Answers, NotFound
  <2> QED
    BY <2>1, <2>2, <2>3
<1>16. CASE PurgeSelect(r)
  <2>1. CASE Answer(r, 200)
    BY <1>4, <2>1
  <2>2. ASSUME NEW S \in SUBSET Purgeable(call(r)),
               Set(r, [request[r] EXCEPT !.pc = "delete", !.doomed = S])
        PROVE  Fair
    <3>1. S \subseteq {t \in Tasks : status[t] # "NONE"}
      BY DEF Purgeable, Statuses, Completed
    <3>2. request[r].pc = "purge"
      BY <1>16 DEF PurgeSelect
    <3>3. request'[r].task = request[r].task /\ request'[r].code = 0
      BY <1>2, <2>2, <3>1, <3>2, Dooms
    <3> QED
      BY <3>3
  <2> QED
    BY <1>16, <2>1, <2>2 DEF PurgeSelect
<1>17. CASE PurgeDelete(r)
  BY <1>17, PurgeDeleteTurn
<1> QED
  BY <1>6, <1>7, <1>8, <1>9, <1>10, <1>11, <1>12, <1>13, <1>14, <1>15, <1>16, <1>17 DEF Serve

LEMMA NotThereNext ==
  ASSUME Orderly, [Next]_vars
  PROVE  NotThere'
<1>1. TypeOK /\ NotThere /\ \A r \in Served : Fine(r)
  BY DEF Orderly
<1>2. UNCHANGED Served
  <2>1. ASSUME NEW r \in Served, Serve(r) PROVE UNCHANGED Served
    BY <1>1, <2>1, ServeFine DEF Turn, Served
  <2> QED
    BY <2>1 DEF Next, Quiet, vars, Served, Enqueue, OtherClaims, OtherFinishes
<1>3. \A t \in Tasks : /\ status[t] = "DELETED" => status'[t] = "DELETED"
                       /\ status[t] # "NONE" => status'[t] # "NONE"
  BY <1>1, RowsStay
<1>4. \A r \in Served : request[r].task \in Tasks \cup {NoTask}
  <2>1. \A r \in Served : request[r] \in Request
    BY <1>1 DEF TypeOK
  <2> QED
    BY <2>1 DEF Request
<1>5. SUFFICES ASSUME NEW r \in Served
               PROVE  /\ request'[r].task # NoTask => status'[request'[r].task] # "NONE"
                      /\ request'[r].code = 404 /\ claims'[r] > 0 =>
                           /\ request'[r].task \in Tasks
                           /\ status'[request'[r].task] = "DELETED"
  BY <1>2 DEF NotThere
<1>6. CASE request'[r] = request[r] /\ claims'[r] = claims[r]
  BY <1>1, <1>3, <1>4, <1>6 DEF NotThere
<1>7. CASE Serve(r)
  <2>1. request'[r].task # NoTask => status'[request'[r].task] # "NONE"
    <3>1. \A s \in Stored : s # "NONE"
      BY DEF Stored, Completed
    <3> QED
      BY <1>1, <1>3, <1>4, <1>7, <3>1, TaskNext DEF NotThere
  <2>2. ASSUME request'[r].code = 404, claims'[r] > 0
        PROVE  request'[r].task \in Tasks /\ status'[request'[r].task] = "DELETED"
    <3>1. /\ request[r].pc = "failed" /\ request'[r].task = request[r].task
          /\ status[request[r].task] \notin Stored
      BY <1>1, <1>7, <2>2, TaskNext
    <3>2. request[r].task \in Tasks /\ request[r].task # NoTask
      BY <1>1, <3>1, EndpointsAssumption DEF Fine, Placed, Taking, Working
    <3>3. status[request[r].task] \in Status /\ status[request[r].task] # "NONE"
      BY <1>1, <3>2 DEF NotThere, TypeOK
    <3> QED
      BY <1>3, <3>1, <3>2, <3>3 DEF Status
  <2> QED
    BY <2>1, <2>2
<1>8. ASSUME NEW s \in Served, Serve(s), s # r
      PROVE  request'[r] = request[r] /\ claims'[r] = claims[r]
  <2>1. request'[r] = request[r]
    BY <1>1, <1>8, ServeFine DEF Turn
  <2> QED
    BY <1>1, <1>8, <2>1, OthersClaims
<1> QED
  BY <1>6, <1>7, <1>8 DEF Next, Quiet, vars, Enqueue, OtherClaims, OtherFinishes

-----------------------------------------------------------------------------
(* The invariant, and what it says of the answers.                         *)

LEMMA OrderlyInit ==
  ASSUME Init
  PROVE  Orderly
<1>1. options \in Deployments /\ options.table \in [Tasks -> Status \ {"DELETED"}]
  BY EndpointsAssumption DEF Init
<1>2. Sent \in Request
  <2>1. "sent" \in PCs /\ Accepts \in Refusals /\ 0 \in Answers
    BY DEF PCs, Refusals, Answers
  <2>2. [t \in Tasks |-> 0] \in [Tasks -> Nat] /\ <<>> \in Seq(Stored)
    OBVIOUS
  <2> QED
    BY <2>1, <2>2, RequestIs DEF Sent
<1>3. \A r \in Served :
        /\ request[r].pc = "sent" /\ request[r].tried = {} /\ request[r].refusal = Accepts
        /\ request[r].task = NoTask /\ request[r].results = <<>> /\ request[r].doomed = {}
        /\ request[r].deleted = [t \in Tasks |-> 0] /\ request[r].code = 0 /\ claims[r] = 0
  BY DEF Init, Sent
<1>4. TypeOK
  <2>1. request \in [Served -> Request] /\ claims \in [Served -> Nat] /\ others \subseteq Tasks
    BY <1>2 DEF Init
  <2>2. status \in [Tasks -> Status]
    BY <1>1 DEF Init
  <2>3. \A r \in Served : request[r].pc = "answered" <=> request[r].code # 0
    BY <1>3
  <2> QED
    BY <1>1, <2>1, <2>2, <2>3 DEF TypeOK
<1>5. ASSUME NEW r \in Served PROVE Fine(r)
  <2>1. ~HasDeleted(r) /\ Len(request[r].results) = 0
    BY <1>3 DEF HasDeleted
  <2>2. Asking(r)
    BY <1>3 DEF Asking
  <2>3. Passed(r)
    BY <1>3, <2>1 DEF Passed, Taking, Deleting
  <2>4. Placed(r)
    BY <1>3 DEF Placed, Taking, Deleting
  <2>5. Tallied(r)
    <3>1. Batch(r) => claims[r] = 0 \/ claims[r] <= Limit(r)
      BY <1>3
    <3> QED
      BY <1>3, <2>1, <3>1 DEF Tallied, Deleting, Working
  <2> QED
    BY <2>2, <2>3, <2>4, <2>5 DEF Fine
<1>6. CountedOnce
  <2>1. \A t \in Tasks : status[t] # "DELETED"
    BY <1>1 DEF Init
  <2> QED
    BY <1>3, <2>1 DEF CountedOnce
<1>7. NotThere
  BY <1>3 DEF NotThere
<1> QED
  BY <1>4, <1>5, <1>6, <1>7 DEF Orderly

LEMMA OrderlyNext ==
  ASSUME Orderly, [Next]_vars
  PROVE  Orderly'
<1>1. TypeOK /\ \A r \in Served : Fine(r)
  BY DEF Orderly
<1> QED
  BY <1>1, TypedNext, FineNext, CountedNext, NotThereNext DEF Orderly

\* Every request is where it may be, and the answers agree with the table.
THEOREM AlwaysOrderly == Spec => []Orderly
BY OrderlyInit, OrderlyNext, PTL DEF Spec

\* Every variable has its type, and a request waits for its answer exactly
\* until it has a code.
THEOREM HttpEndpointsTypeOK == Spec => []TypeOK
<1>1. Orderly => TypeOK
  BY DEF Orderly
<1> QED
  BY <1>1, AlwaysOrderly, PTL

\* Whoever is answered by a method, or changes the table, is let in by the
\* handlers of the backend it names, as configured; whoever is rejected is told
\* what the first of them says; and a batch takes only tasks of the backend
\* that has authenticated it (BackendAuthMixin.dispatch).
THEOREM AlwaysLetInAsConfigured == Spec => []LetInAsConfigured
<1>1. Orderly => LetInAsConfigured
  <2>1. SUFFICES ASSUME Orderly, NEW r \in Served
                 PROVE  /\ claims[r] > 0 \/ HasDeleted(r) \/ request[r].code \in {200, 404, 405} =>
                             LetIn(r)
                        /\ request[r].code \in {401, 403} =>
                             /\ ~LetsIn(Named(r), call(r).endpoint, call(r).credentials)
                             /\ request[r].code =
                                  FirstSays(Named(r), call(r).endpoint, call(r).credentials)
                        /\ Batch(r) /\ request[r].task # NoTask =>
                             options.backend_of[request[r].task] = BackendName(call(r))
    BY DEF LetInAsConfigured, LetIn, Loaded
  <2>2. Passed(r) /\ Placed(r)
    BY <2>1 DEF Orderly, Fine
  <2> QED
    BY <2>2 DEF Passed, Placed
<1> QED
  BY <1>1, AlwaysOrderly, PTL

-----------------------------------------------------------------------------
(* Who is answered with 200 and nothing done.                              *)

\* What a step of a request that is on its way makes of its code.
LEMMA Codes ==
  ASSUME TypeOK, NEW r \in Served, request[r].pc # "answered", UNCHANGED options
  PROVE  /\ \A p \in PCs \ {"answered"} : Goto(r, p) => request'[r].code = 0
         /\ \A code \in Answers \ {0} : Answer(r, code) => request'[r].code = code
BY Moves, AnswersIt

LEMMA ReasonNext ==
  ASSUME Orderly, NEW r \in Served, Serve(r), request[r].pc # "answered",
         request'[r].code = 200, request'[r].results = request[r].results
  PROVE  /\ Batch(r) => \A t \in Tasks : status[t] = "READY" /\ ~Locked(t) =>
                                           options.backend_of[t] # call(r).backend
         /\ call(r).endpoint = "execute" => status[call(r).task] # "READY" \/ Locked(call(r).task)
<1>1. TypeOK /\ Fine(r)
  BY DEF Orderly
<1>2. UNCHANGED options
  BY <1>1, ServeFine DEF Turn
<1>3. ~Goto(r, "auth") /\ ~Goto(r, "method") /\ ~Goto(r, "fetch") /\ ~Goto(r, "claim")
      /\ ~Goto(r, "run") /\ ~Goto(r, "succeeded") /\ ~Goto(r, "failed") /\ ~Goto(r, "purge")
  BY <1>1, <1>2, Codes DEF PCs
<1>4. ~Answer(r, 400) /\ ~Answer(r, 401) /\ ~Answer(r, 403) /\ ~Answer(r, 404)
      /\ ~Answer(r, 405) /\ ~Answer(r, 500)
  BY <1>1, <1>2, Codes DEF Answers
<1>5. ASSUME NEW t \in Tasks
      PROVE  ~Set(r, [request[r] EXCEPT !.pc = "selected", !.task = t])
  <2>1. SUFFICES ASSUME Set(r, [request[r] EXCEPT !.pc = "selected", !.task = t])
                 PROVE  request'[r].code = 0
    OBVIOUS
  <2> QED
    BY <1>1, <1>2, <2>1, Selects
<1>6. ASSUME NEW p \in {"status", "purge"}, call(r).endpoint = p
      PROVE  ~Batch(r) /\ call(r).endpoint # "execute"
  BY <1>6 DEF Batch
<1>7. CASE Dispatch(r) \/ MethodNotAllowed(r) \/ Raise(r)
  BY <1>3, <1>4, <1>7 DEF Dispatch, MethodNotAllowed, Raise
<1>8. CASE TryHandler(r)
  <2>1. request[r].pc = "auth"
    BY <1>8 DEF TryHandler
  <2>2. \A i \in Asked(r) : i \in Nat /\ Says(r, i) \in {Accepts, ServerError, 401, 403}
    BY <1>1, <2>1, AskedNext
  <2>3. PICK i \in Asked(r) :
          CASE Says(r, i) = Accepts -> Goto(r, "method")
            [] Says(r, i) = ServerError -> Answer(r, 500)
            [] OTHER -> Set(r, [request[r] EXCEPT !.tried = @ \cup {i},
                                                  !.refusal = FirstRefusal(@, Says(r, i))])
    BY <1>8 DEF TryHandler, Untried, Asked, Says
  <2>4. Says(r, i) # Accepts /\ Says(r, i) # ServerError
    BY <1>3, <1>4, <2>3 DEF Accepts, ServerError
  <2> DEFINE v == FirstRefusal(request[r].refusal, Says(r, i))
  <2>5. Set(r, [request[r] EXCEPT !.tried = @ \cup {i}, !.refusal = v])
    BY <2>3, <2>4
  <2>6. v \in Refusals
    BY <1>1, <2>1, <2>2, <2>4, Unanswered DEF FirstRefusal, Refusals, Request
  <2>7. i \in Nat
    BY <2>2
  <2> HIDE DEF v
  <2>8. request'[r].code = 0
    BY <1>1, <1>2, <2>1, <2>5, <2>6, <2>7, Rejects
  <2> QED
    BY <2>8
<1>9. CASE NoHandlerLeft(r)
  <2>1. request[r].refusal \in {Accepts, 401, 403}
    BY <1>1, Unanswered DEF Request
  <2> QED
    BY <1>3, <1>4, <1>9, <2>1 DEF NoHandlerLeft
<1>10. CASE PostRun(r)
  <2>1. MayPost(call(r)) \in {Accepts, 400, 500}
    BY <1>1, Deployed, MayPosts DEF TypeOK
  <2> QED
    BY <1>3, <1>4, <1>10, <2>1 DEF PostRun
<1>11. CASE GetStatus(r) \/ GetOrPostPurge(r)
  BY <1>6, <1>11 DEF GetStatus, GetOrPostPurge, Enters
<1>12. CASE PostExecute(r)
  <2>1. call(r).endpoint = "execute" /\ ~Batch(r)
    BY <1>12 DEF PostExecute, Enters, Batch
  <2>2. call(r).task \in Tasks
    BY <1>1, <2>1, Deployed DEF TypeOK
  <2>3. ~(status[call(r).task] = "READY" /\ ~Locked(call(r).task))
    BY <1>4, <1>5, <1>12, <2>2 DEF PostExecute, Stored
  <2> QED
    BY <2>1, <2>3
<1>13. CASE Fetch(r)
  <2>1. \A t \in Tasks : ~Fetchable(r, t)
    BY <1>5, <1>13 DEF Fetch
  <2>2. Batch(r)
    BY <1>1, <1>13 DEF Fine, Placed, Fetch
  <2> QED
    BY <2>1, <2>2 DEF Fetchable, Batch
<1>14. CASE Unlock(r) \/ Finish(r) \/ RecordError(r) \/ NotFound(r)
  BY <1>3, <1>4, <1>14 DEF Unlock, Finish, RecordError, NotFound
<1>15. CASE Claim(r)
  <2>1. ~Claimable(r) /\ ~Batch(r) /\ request[r].pc = "claim"
    BY <1>3, <1>15 DEF Claim, LostClaim
  <2>2. call(r).endpoint = "execute" => request[r].task = call(r).task
    BY <1>1, <2>1 DEF Fine, Placed, Taking
  <2> QED
    BY <2>1, <2>2 DEF Claimable
<1>16. CASE Report(r)
  <2>1. Len(request'[r].results) = Len(request[r].results) + 1
    BY <1>1, <1>16, Reports
  <2>2. Len(request[r].results) \in Nat
    BY <1>1, Numbers
  <2> QED
    BY <2>1, <2>2
<1>17. CASE PurgeSelect(r)
  <2>1. call(r).endpoint = "purge"
    BY <1>1, <1>17 DEF Fine, Placed, PurgeSelect, Deleting
  <2> QED
    BY <1>6, <2>1
<1>18. CASE PurgeDelete(r)
  <2>1. request'[r].code = 0
    BY <1>1, <1>18, PurgeDeleteTurn
  <2> QED
    BY <2>1
<1> QED
  BY <1>7, <1>8, <1>9, <1>10, <1>11, <1>12, <1>13, <1>14, <1>15, <1>16, <1>17, <1>18 DEF Serve

\* Answers and table agree, and an answer that reports fewer tasks than it may
\* is given only when there is nothing left to take (process_tasks,
\* process_one_task, run_task_by_id, _delete_in_batches).
THEOREM AlwaysAnswersTruthfully == Spec => AnswersTruthfully
<1>1. Orderly => AnswersAddUp
  BY DEF Orderly, Fine, Tallied, CountedOnce, NotThere, AnswersAddUp
<1>2. ASSUME Orderly, [Next]_vars PROVE [EmptyHandedForAReason]_vars
  <2>1. SUFFICES ASSUME NEW r \in Served, request[r].pc # "answered",
                        request'[r].code = 200, request'[r].results = request[r].results
                 PROVE  /\ Batch(r) => \A t \in Tasks : status[t] = "READY" /\ ~Locked(t) =>
                                         options.backend_of[t] # call(r).backend
                        /\ call(r).endpoint = "execute" =>
                             status[call(r).task] # "READY" \/ Locked(call(r).task)
    BY DEF EmptyHandedForAReason
  <2>2. request[r].code = 0
    BY <1>2, <2>1 DEF Orderly, TypeOK
  <2>3. request'[r] # request[r]
    BY <2>1, <2>2
  <2>4. \A s \in Served : Serve(s) => s = r
    BY <1>2, <2>3, ServeFine DEF Orderly, Turn
  <2>5. Serve(r)
    BY <1>2, <2>3, <2>4 DEF Next, Quiet, vars, Enqueue, OtherClaims, OtherFinishes
  <2> QED
    BY <1>2, <2>1, <2>5, ReasonNext
<1> QED
  BY <1>1, <1>2, AlwaysOrderly, PTL DEF Spec, AnswersTruthfully

=============================================================================
