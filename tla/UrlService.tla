----------------------------- MODULE UrlService -----------------------------
(***************************************************************************)
(* The URL shortener the pipeline deploys: app/main.py with the table      *)
(* behind it (db.py), the cache in front of it (cache.py) and the audit    *)
(* copies beside it (s3_store.py).  gunicorn serves requests on several    *)
(* threads; every call a request makes to MySQL, Redis or S3 is a step, so *)
(* that another request, the replica, the expiry of a cache entry or the   *)
(* end of the process can come in between.  Every call may fail; one that  *)
(* raised may have taken effect all the same.                              *)
(*                                                                         *)
(* A code is compared exactly by Redis and S3, and by MySQL in the default *)
(* collation of utf8mb4, which ignores case: Fold[c] is the key of code c. *)
(***************************************************************************)
EXTENDS Integers

CONSTANTS
  Threads,      \* gunicorn's threads
  Codes,        \* short codes
  Fold,         \* Fold[c]: the code that stands for all that MySQL finds equal to c
  Urls,         \* URLs that _valid_url accepts
  NoUrl,        \* None: no row, a cache miss
  Attempts,     \* how many codes shorten tries
  MaxRequests   \* bound: how many requests come in

ASSUME UrlAssumption ==
  /\ NoUrl \notin Urls
  /\ Codes # {} /\ Fold \in [Codes -> Codes]
  /\ Attempts \in Nat \ {0}
  /\ MaxRequests \in Nat

VARIABLES
  primary,    \* the database the application writes to
  mirror,     \* the keys of the rows the replica has applied so far
  cache,      \* Redis: url by code
  records,    \* S3: url by code, records/<code>.json
  process,    \* gunicorn runs and has been through create_app
  pc, job,    \* where each thread's request is, and its local state
  answer,     \* the response that was given in the last step, if there was one
  acked,      \* the links whose /shorten answered 201
  redirects,  \* how many requests were answered 302, by key
  requests    \* bound: requests so far

databases == <<primary, mirror>>
stores == <<databases, cache, records>>
seen == <<acked, redirects>>
vars == <<stores, process, pc, job, answer, seen, requests>>

-----------------------------------------------------------------------------
(* Types *)

Keys == {Fold[c] : c \in Codes}
NoRow == [url |-> NoUrl, clicks |-> 0]
Rows == [url : Urls \cup {NoUrl}, clicks : Nat]

\* The links table: whether it exists, and its rows.
Tables == [created : BOOLEAN, rows : [Keys -> Rows]]
NoTable == [created |-> FALSE, rows |-> [k \in Keys |-> NoRow]]

Links == [code : Codes, url : Urls]

Jobs ==
  [code    : Codes,
   url     : Urls \cup {NoUrl},
   attempt : 1..Attempts]

Statuses == {0, 200, 201, 302, 404, 500, 503}
Answers ==
  [status : Statuses,
   body   : {"none", "ok", "degraded", "error"}]
Answer(status, body) == [status |-> status, body |-> body]
NoAnswer == Answer(0, "none")

Labels == {"idle", "insert", "keep", "audit", "created",
           "get", "read", "fill", "count", "stats"}

StoreTypeOK ==
  /\ primary \in Tables /\ mirror \subseteq Keys
  /\ cache \in [Codes -> Urls \cup {NoUrl}]
  /\ records \in [Codes -> Urls \cup {NoUrl}]

RequestTypeOK ==
  /\ process \in BOOLEAN
  /\ pc \in [Threads -> Labels] /\ job \in [Threads -> Jobs]
  /\ answer \in Answers
  /\ requests \in 0..MaxRequests

SeenTypeOK == acked \subseteq Links /\ redirects \in [Keys -> Nat]

\* The type of every variable.
TypeOK == StoreTypeOK /\ RequestTypeOK /\ SeenTypeOK

NoJob == [code |-> CHOOSE c \in Codes : TRUE, url |-> NoUrl, attempt |-> 1]

Init ==
  /\ primary = NoTable /\ mirror = {}
  /\ cache = [c \in Codes |-> NoUrl] /\ records = [c \in Codes |-> NoUrl]
  /\ process = FALSE
  /\ pc = [t \in Threads |-> "idle"] /\ job = [t \in Threads |-> NoJob]
  /\ answer = NoAnswer
  /\ acked = {} /\ redirects = [k \in Keys |-> 0]
  /\ requests = 0

-----------------------------------------------------------------------------
(* Control of a request *)

Continue(t, label, j) ==
  /\ pc' = [pc EXCEPT ![t] = label]
  /\ job' = [job EXCEPT ![t] = j]
  /\ answer' = NoAnswer
  /\ UNCHANGED <<requests, process>>

Respond(t, a) ==
  /\ pc' = [pc EXCEPT ![t] = "idle"]
  /\ job' = [job EXCEPT ![t] = NoJob]
  /\ answer' = a
  /\ UNCHANGED <<requests, process>>

Receive(t, label, j) ==
  /\ process /\ pc[t] = "idle" /\ requests < MaxRequests
  /\ pc' = [pc EXCEPT ![t] = label]
  /\ job' = [job EXCEPT ![t] = j]
  /\ answer' = NoAnswer
  /\ requests' = requests + 1
  /\ UNCHANGED <<stores, process, seen>>

PostShorten(t) ==
  \E u \in Urls : Receive(t, "insert", [NoJob EXCEPT !.url = u])
GetCode(t) ==
  \E c \in Codes : Receive(t, "get", [NoJob EXCEPT !.code = c])
GetStats(t) ==
  \E c \in Codes : Receive(t, "stats", [NoJob EXCEPT !.code = c])

-----------------------------------------------------------------------------
(* The table *)

CreateTable == [primary EXCEPT !.created = TRUE]
InsertRow(code, url) ==
  [primary EXCEPT !.rows[Fold[code]] = [url |-> url, clicks |-> 0]]

\* One statement on the primary, with autocommit.
Commit(table) == primary' = table /\ UNCHANGED mirror

UrlOf(code) == primary.rows[Fold[code]].url
Written == {k \in Keys : primary.rows[k].url # NoUrl}
Found(code) == UrlOf(code) # NoUrl

-----------------------------------------------------------------------------
(* POST /shorten *)

\* Each attempt takes a new random code.
InsertOrReplace(t) ==   \* slip: REPLACE INTO, so that no code is ever refused
  /\ pc[t] = "insert" /\ primary.created
  /\ \E c \in Codes :
       /\ Commit(InsertRow(c, job[t].url))
       /\ Continue(t, "keep", [job[t] EXCEPT !.code = c, !.attempt = 1])
  /\ UNCHANGED <<cache, records, seen>>

Insert(t) ==
  /\ pc[t] = "insert" /\ primary.created
  /\ \E c \in Codes :
       /\ ~Found(c)
       /\ Commit(InsertRow(c, job[t].url))
       /\ Continue(t, "keep", [job[t] EXCEPT !.code = c, !.attempt = 1])
  /\ UNCHANGED <<cache, records, seen>>

OneAttemptMore(t) ==   \* slip: off by one
  \/ /\ job[t].attempt <= Attempts
     /\ Continue(t, "insert", [job[t] EXCEPT !.attempt = @ + 1])
  \/ job[t].attempt > Attempts /\ Respond(t, Answer(503, "error"))

NextAttempt(t) ==
  \/ /\ job[t].attempt < Attempts
     /\ Continue(t, "insert", [job[t] EXCEPT !.attempt = @ + 1])
  \/ job[t].attempt = Attempts /\ Respond(t, Answer(503, "error"))

BreakAnyway(t) ==   \* slip: the loop is left after the except branch too
  /\ pc[t] = "insert"
  /\ \E c \in Codes :
       /\ ~Found(c)
       /\ UNCHANGED databases \/ Commit(InsertRow(c, job[t].url))
       /\ Continue(t, "keep", [job[t] EXCEPT !.code = c, !.attempt = 1])
  /\ UNCHANGED <<cache, records, seen>>

\* The statement raises: a duplicate key, no table, no connection, or the
\* answer to an insert that was committed is lost.
InsertRaises(t) ==
  /\ pc[t] = "insert"
  /\ \/ UNCHANGED databases
     \/ \E c \in Codes : /\ primary.created /\ ~Found(c)
                         /\ Commit(InsertRow(c, job[t].url))
  /\ NextAttempt(t)
  /\ UNCHANGED <<cache, records, seen>>

\* What setex and put_object leave behind: errors are swallowed.
BestEffort(store, code, url) == {store, [store EXCEPT ![code] = url]}

CacheNewLink(t) ==
  /\ pc[t] = "keep"
  /\ cache' \in BestEffort(cache, job[t].code, job[t].url)
  /\ Continue(t, "audit", job[t])
  /\ UNCHANGED <<databases, records, seen>>

\* botocore's errors only: any other exception is a 500 for a link that exists.
PutRecord(t) ==
  /\ pc[t] = "audit"
  /\ records' \in BestEffort(records, job[t].code, job[t].url)
  /\ Continue(t, "created", job[t]) \/ Respond(t, Answer(500, "error"))
  /\ UNCHANGED <<databases, cache, seen>>

Created(t) ==
  /\ pc[t] = "created"
  /\ Respond(t, Answer(201, "ok"))
  /\ acked' = acked \cup {[code |-> job[t].code, url |-> job[t].url]}
  /\ UNCHANGED <<stores, redirects>>

-----------------------------------------------------------------------------
(* GET /<short_code> *)

CacheGet(t) ==
  /\ pc[t] = "get"
  /\ \/ /\ cache[job[t].code] # NoUrl
        /\ Continue(t, "count", [job[t] EXCEPT !.url = cache[job[t].code]])
     \/ Continue(t, "read", job[t])   \* a miss, or Redis does not answer
  /\ UNCHANGED <<stores, seen>>

ReadReplica(t) ==   \* slip: follow reads like stats
  /\ pc[t] = "read"
  /\ \/ /\ Fold[job[t].code] \in mirror
        /\ Continue(t, "fill", [job[t] EXCEPT !.url = UrlOf(job[t].code)])
     \/ Fold[job[t].code] \notin mirror /\ Respond(t, Answer(404, "error"))
     \/ Respond(t, Answer(500, "error"))
  /\ UNCHANGED <<stores, seen>>

ReadLink(t) ==
  /\ pc[t] = "read"
  /\ \/ /\ Found(job[t].code)
        /\ Continue(t, "fill", [job[t] EXCEPT !.url = UrlOf(job[t].code)])
     \/ /\ primary.created /\ ~Found(job[t].code)
        /\ Respond(t, Answer(404, "error"))
     \/ Respond(t, Answer(500, "error"))
  /\ UNCHANGED <<stores, seen>>

CacheFoundLink(t) ==
  /\ pc[t] = "fill"
  /\ cache' \in BestEffort(cache, job[t].code, job[t].url)
  /\ Continue(t, "count", job[t])
  /\ UNCHANGED <<databases, records, seen>>

\* The UPDATE touches no row, and no error is raised, if there is none.
Click(t) ==
  IF Found(job[t].code)
  THEN Commit([primary EXCEPT !.rows[Fold[job[t].code]].clicks = @ + 1])
  ELSE UNCHANGED databases

Redirect(t) ==
  /\ Respond(t, Answer(302, "ok"))
  /\ redirects' = [redirects EXCEPT ![Fold[job[t].code]] = @ + 1]

CountAndForget(t) ==   \* slip: the counter is best effort too
  /\ pc[t] = "count"
  /\ Click(t) \/ UNCHANGED databases
  /\ Redirect(t)
  /\ UNCHANGED <<cache, records, acked>>

CountClick(t) ==
  /\ pc[t] = "count" /\ primary.created
  /\ Click(t)
  /\ Redirect(t)
  /\ UNCHANGED <<cache, records, acked>>

\* Not inside any try: the request answers 500, counted or not.
CountRaises(t) ==
  /\ pc[t] = "count"
  /\ Click(t) \/ UNCHANGED databases
  /\ Respond(t, Answer(500, "error"))
  /\ UNCHANGED <<cache, records, seen>>

-----------------------------------------------------------------------------
(* GET /stats/<short_code>, GET /health *)

\* replica() connects to the primary when the replica does not answer.
StatsFrom(t, keys) ==
  /\ primary.created
  /\ Respond(t, IF Fold[job[t].code] \in keys
                THEN Answer(200, "ok") ELSE Answer(404, "error"))

Stats(t) ==
  /\ pc[t] = "stats"
  /\ \/ StatsFrom(t, mirror) \/ StatsFrom(t, Written)
     \/ Respond(t, Answer(500, "error"))
  /\ UNCHANGED <<stores, seen>>

\* What /health answers when the primary, the replica and Redis do or do not
\* answer it; again the replica's ping goes to the primary if it has to.
HealthAnswer(primaryUp, replicaUp, redisUp) ==
  IF ~primaryUp THEN Answer(503, "error")
  ELSE IF redisUp /\ (replicaUp \/ primaryUp) THEN Answer(200, "ok")
  ELSE Answer(200, "degraded")

Health(t) ==
  /\ process /\ pc[t] = "idle" /\ requests < MaxRequests
  /\ \E up \in SUBSET {"primary", "replica", "redis"} :
       answer' = HealthAnswer("primary" \in up, "replica" \in up, "redis" \in up)
  /\ requests' = requests + 1
  /\ UNCHANGED <<stores, process, pc, job, seen>>

-----------------------------------------------------------------------------
(* The process, the replica, the cache *)

\* create_app: the schema is made if it is not there, or "deferred" for good
\* when the database does not answer.
StartProcess ==
  /\ ~process
  /\ process' = TRUE
  /\ Commit(CreateTable) \/ UNCHANGED databases
  /\ answer' = NoAnswer
  /\ UNCHANGED <<cache, records, pc, job, seen, requests>>

\* gunicorn's --timeout, a stopped container: every request is cut off.
EndProcess ==
  /\ process
  /\ process' = FALSE
  /\ pc' = [t \in Threads |-> "idle"] /\ job' = [t \in Threads |-> NoJob]
  /\ answer' = NoAnswer
  /\ UNCHANGED <<stores, seen, requests>>

\* Asynchronous, at any time; what the replica skips here it could have
\* reached before the primary went on.
Replicate ==
  /\ mirror # Written
  /\ mirror' = Written
  /\ answer' = NoAnswer
  /\ UNCHANGED <<primary, cache, records, process, pc, job, seen, requests>>

\* CACHE_TTL_SECONDS have passed, allkeys-lru evicts it, or Redis restarts.
Forget ==
  /\ \E c \in Codes : cache[c] # NoUrl /\ cache' = [cache EXCEPT ![c] = NoUrl]
  /\ answer' = NoAnswer
  /\ UNCHANGED <<databases, records, process, pc, job, seen, requests>>

-----------------------------------------------------------------------------
Step(t) ==
  \/ Insert(t) \/ InsertRaises(t) \/ CacheNewLink(t) \/ PutRecord(t) \/ Created(t)
  \/ CacheGet(t) \/ ReadLink(t) \/ CacheFoundLink(t) \/ CountClick(t) \/ CountRaises(t)
  \/ Stats(t)

Request(t) == PostShorten(t) \/ GetCode(t) \/ GetStats(t) \/ Health(t)

Next ==
  \/ \E t \in Threads : Request(t) \/ Step(t)
  \/ StartProcess \/ EndProcess \/ Replicate \/ Forget

Spec == Init /\ [][Next]_vars

-----------------------------------------------------------------------------
(* What must hold *)

\* A link whose creation was acknowledged keeps its URL: no later request, no
\* retry after a lost answer and no crash takes the code for another link
\* (main.py:53-54).
AckStands == \A l \in acked : UrlOf(l.code) = l.url

\* MySQL is the source of truth (s3_store.py:3): Redis and S3 never know a
\* link that is not in the table, or by another URL, in whatever order the
\* requests that fill them run and wherever they break off, and no request is
\* about to be redirected elsewhere.
CopiesAgree ==
  \A c \in Codes :
    /\ cache[c] # NoUrl => cache[c] = UrlOf(c)
    /\ records[c] # NoUrl => records[c] = UrlOf(c)
    /\ \A t \in Threads : pc[t] = "count" /\ job[t].code = c => job[t].url = UrlOf(c)

\* GET /<code> never answers 404 for a code that has been handed out, however
\* far the replica lags and whatever the cache has lost (db.py:4, "reads that
\* must be read-after-write consistent").  GET /stats/<code> reads the replica
\* and may (main.py:92-94).
AckedIsFound ==
  [][\A t \in Threads :
       (pc[t] = "read" /\ pc'[t] = "idle" /\ answer'.status = 404)
         => \A l \in acked : l.code # job[t].code]_vars

\* Every redirect that was answered has been counted, also when requests
\* count at the same time, fail half way or are cut off.
ClicksCoverRedirects == \A k \in Keys : redirects[k] <= primary.rows[k].clicks

\* To those who shorten and follow links it is a book that is only added to:
\* no request, crash, lost answer or forgetful cache changes or drops a link,
\* and nobody is promised or sent to one that is not there (main.py:46-85).
Book == INSTANCE LinkBook WITH
  links    <- [k \in Keys |-> primary.rows[k].url],
  clicks   <- [k \in Keys |-> primary.rows[k].clicks],
  promised <- {[key |-> Fold[l.code], url |-> l.url] : l \in acked},
  followed <- redirects

BookSpec == Book!Spec

-----------------------------------------------------------------------------
(* What the code's documentation says and the code does not do *)

\* main.py:153-154: "Schema creation is idempotent and tolerant of a database
\* that is not up yet - the health check is what gates the deploy": a process
\* that answers /health with 200 has its table.
HealthGatesSchema == answer.status = 200 => primary.created
=============================================================================
