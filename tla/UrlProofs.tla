----------------------------- MODULE UrlProofs -----------------------------
(***************************************************************************)
(* Theorems about UrlService, for every number of threads, every set of    *)
(* codes and URLs and every collation.                                     *)
(***************************************************************************)
EXTENDS UrlService, TLAPS

-----------------------------------------------------------------------------
(* What the invariants rest on: a row that is there keeps its URL, and a    *)
(* request that holds a code and a URL has seen them in the table.          *)

Holding == {"keep", "audit", "created", "fill", "count"}

JobAgrees(t) ==
  /\ pc[t] = "insert" => job[t].url \in Urls
  /\ pc[t] \in Holding =>
       job[t].url \in Urls /\ job[t].url = UrlOf(job[t].code)
JobsAgree == \A t \in Threads : JobAgrees(t)

StoresAgree ==
  \A c \in Codes :
    /\ cache[c] # NoUrl => cache[c] = UrlOf(c)
    /\ records[c] # NoUrl => records[c] = UrlOf(c)

\* Nothing has been redirected to a key without a row.
Counted ==
  \A k \in Keys :
    /\ redirects[k] <= primary.rows[k].clicks
    /\ primary.rows[k].url = NoUrl => redirects[k] = 0

\* Nor has it been counted.
Blank == \A k \in Keys : primary.rows[k].url = NoUrl => primary.rows[k].clicks = 0

Inv == TypeOK /\ JobsAgree /\ StoresAgree /\ AckStands /\ Counted /\ Blank

-----------------------------------------------------------------------------
(* The table *)

Inserts(c, u) == ~Found(c) /\ primary' = InsertRow(c, u)
Clicks(c) ==
  Found(c) /\ primary' = [primary EXCEPT !.rows[Fold[c]].clicks = @ + 1]

\* All that a step does to the table.
TableMoves ==
  \/ primary' = primary
  \/ primary' = CreateTable
  \/ \E c \in Codes, u \in Urls : Inserts(c, u)
  \/ \E c \in Codes : Clicks(c)

LEMMA KeyOfCode == \A c \in Codes : Fold[c] \in Keys
  BY UrlAssumption DEF Keys

LEMMA RowTyped ==
  ASSUME primary \in Tables, NEW k \in Keys
  PROVE  /\ primary.rows[k] \in Rows
         /\ primary.rows[k].url \in Urls \cup {NoUrl}
         /\ primary.rows[k].clicks \in Nat
  BY DEF Tables, Rows

\* What an insert does to each row.
LEMMA InsertEffect ==
  ASSUME primary \in Tables, NEW c \in Codes, NEW u \in Urls, Inserts(c, u)
  PROVE  /\ primary' \in Tables
         /\ \A k \in Keys : primary'.rows[k] =
              IF k = Fold[c] THEN [url |-> u, clicks |-> 0] ELSE primary.rows[k]
         /\ primary.rows[Fold[c]].url = NoUrl
<1>1. Fold[c] \in Keys
  BY KeyOfCode
<1>2. [url |-> u, clicks |-> 0] \in Rows
  BY DEF Rows
<1>3. primary' = [primary EXCEPT !.rows[Fold[c]] = [url |-> u, clicks |-> 0]]
  BY DEF Inserts, InsertRow
<1>4. primary.rows[Fold[c]].url = NoUrl
  BY DEF Inserts, Found, UrlOf
<1> QED
  BY <1>1, <1>2, <1>3, <1>4 DEF Tables

\* What a click does to each row.
LEMMA ClickEffect ==
  ASSUME primary \in Tables, NEW c \in Codes, Clicks(c)
  PROVE  /\ primary' \in Tables
         /\ \A k \in Keys : primary'.rows[k] =
              IF k = Fold[c]
              THEN [url |-> primary.rows[k].url, clicks |-> primary.rows[k].clicks + 1]
              ELSE primary.rows[k]
         /\ primary.rows[Fold[c]].url # NoUrl
<1>1. Fold[c] \in Keys
  BY KeyOfCode
<1>2. primary.rows[Fold[c]] \in Rows /\ primary.rows[Fold[c]].clicks \in Nat
  BY <1>1, RowTyped
<1>3. primary' = [primary EXCEPT !.rows[Fold[c]].clicks = @ + 1]
  BY DEF Clicks
<1>4. primary.rows[Fold[c]].url # NoUrl
  BY DEF Clicks, Found, UrlOf
<1>5. [primary.rows[Fold[c]] EXCEPT !.clicks = @ + 1]
        = [url |-> primary.rows[Fold[c]].url, clicks |-> primary.rows[Fold[c]].clicks + 1]
  BY <1>2 DEF Rows
<1>6. [primary.rows[Fold[c]] EXCEPT !.clicks = @ + 1] \in Rows
  BY <1>2, <1>5 DEF Rows
<1> QED
  BY <1>1, <1>3, <1>4, <1>5, <1>6 DEF Tables

\* The schema does not touch the rows.
LEMMA CreateEffect ==
  ASSUME primary \in Tables, primary' = CreateTable
  PROVE  primary' \in Tables /\ primary'.rows = primary.rows
  BY DEF Tables, CreateTable

\* The two facts everything below uses: the URL of a row never changes, and
\* its clicks never go down.
LEMMA RowsStay ==
  ASSUME primary \in Tables, TableMoves
  PROVE  /\ primary' \in Tables
         /\ \A k \in Keys : primary.rows[k].url # NoUrl =>
              /\ primary'.rows[k].url = primary.rows[k].url
              /\ primary'.rows[k].clicks >= primary.rows[k].clicks
<1>1. CASE primary' = primary
  BY <1>1, RowTyped
<1>2. CASE primary' = CreateTable
  BY <1>2, CreateEffect, RowTyped
<1>3. CASE \E c \in Codes, u \in Urls : Inserts(c, u)
  <2> PICK c \in Codes, u \in Urls : Inserts(c, u)
    BY <1>3
  <2>1. primary' \in Tables
    BY InsertEffect
  <2>2. ASSUME NEW k \in Keys, primary.rows[k].url # NoUrl
        PROVE  primary'.rows[k] = primary.rows[k]
    BY <2>2, InsertEffect
  <2>3. ASSUME NEW k \in Keys
        PROVE  primary.rows[k].clicks \in Nat
    BY RowTyped
  <2> QED
    BY <2>1, <2>2, <2>3
<1>4. CASE \E c \in Codes : Clicks(c)
  <2> PICK c \in Codes : Clicks(c)
    BY <1>4
  <2>1. primary' \in Tables
    BY ClickEffect
  <2>2. ASSUME NEW k \in Keys
        PROVE  /\ primary'.rows[k].url = primary.rows[k].url
               /\ \/ primary'.rows[k].clicks = primary.rows[k].clicks
                  \/ primary'.rows[k].clicks = primary.rows[k].clicks + 1
    <3>1. CASE k = Fold[c]
      <4>1. primary'.rows[k] =
              [url |-> primary.rows[k].url, clicks |-> primary.rows[k].clicks + 1]
        BY <3>1, ClickEffect
      <4> QED
        BY <4>1
    <3>2. CASE k # Fold[c]
      <4>1. primary'.rows[k] = primary.rows[k]
        BY <3>2, ClickEffect
      <4> QED
        BY <4>1
    <3> QED
      BY <3>1, <3>2
  <2>4. ASSUME NEW k \in Keys
        PROVE  primary.rows[k].clicks \in Nat
    BY RowTyped
  <2> QED
    BY <2>1, <2>2, <2>4
<1> QED
  BY <1>1, <1>2, <1>3, <1>4 DEF TableMoves

LEMMA UrlStays ==
  ASSUME primary \in Tables, TableMoves, NEW c \in Codes, UrlOf(c) # NoUrl
  PROVE  UrlOf(c)' = UrlOf(c)
  BY RowsStay, KeyOfCode DEF UrlOf

-----------------------------------------------------------------------------
(* A thread goes on, answers, or takes a request *)

\* What a step must do to a thread's request so that it still agrees.
Agrees(label, j) ==
  /\ label = "insert" => j.url \in Urls
  /\ label \in Holding => j.url \in Urls /\ j.url = primary'.rows[Fold[j.code]].url

LEMMA NoJobTyped == NoJob \in Jobs
  BY UrlAssumption DEF NoJob, Jobs

LEMMA JobTyped ==
  ASSUME NEW j \in Jobs
  PROVE  j.code \in Codes /\ j.url \in Urls \cup {NoUrl} /\ j.attempt \in 1..Attempts
  BY DEF Jobs

LEMMA NoAnswerTyped == NoAnswer \in Answers
  BY DEF NoAnswer, Answer, Answers, Statuses

\* Two shapes of a step: one thread changes, or all become idle.
LEMMA OneThreadMoves ==
  ASSUME TypeOK, JobsAgree, TableMoves, NEW t \in Threads, NEW label \in Labels,
         NEW j \in Jobs, Agrees(label, j),
         pc' = [pc EXCEPT ![t] = label], job' = [job EXCEPT ![t] = j]
  PROVE  /\ pc' \in [Threads -> Labels] /\ job' \in [Threads -> Jobs]
         /\ JobsAgree'
<1>1. pc \in [Threads -> Labels] /\ job \in [Threads -> Jobs] /\ primary \in Tables
  BY DEF TypeOK, RequestTypeOK, StoreTypeOK
<1>2. pc' \in [Threads -> Labels] /\ job' \in [Threads -> Jobs]
  BY <1>1
<1>3. ASSUME NEW s \in Threads PROVE JobAgrees(s)'
  <2>1. CASE s = t
    BY <1>1, <2>1 DEF JobAgrees, Agrees, UrlOf
  <2>2. CASE s # t
    <3>1. pc'[s] = pc[s] /\ job'[s] = job[s]
      BY <1>1, <2>2
    <3>2. job[s].code \in Codes
      BY <1>1, JobTyped
    <3>3. JobAgrees(s)
      BY DEF JobsAgree
    <3>4. CASE pc[s] \in Holding
      <4>1. UrlOf(job[s].code) \in Urls /\ job[s].url = UrlOf(job[s].code)
        BY <3>3, <3>4 DEF JobAgrees
      <4>2. primary'.rows[Fold[job[s].code]].url = primary.rows[Fold[job[s].code]].url
        BY <1>1, <3>2, <4>1, RowsStay, KeyOfCode, UrlAssumption DEF UrlOf
      <4> QED
        BY <3>1, <3>3, <4>1, <4>2 DEF JobAgrees, UrlOf
    <3>5. CASE pc[s] \notin Holding
      BY <3>1, <3>3, <3>5 DEF JobAgrees
    <3> QED
      BY <3>4, <3>5
  <2> QED
    BY <2>1, <2>2
<1> QED
  BY <1>2, <1>3 DEF JobsAgree

LEMMA ContinueKeeps ==
  ASSUME TypeOK, JobsAgree, TableMoves, NEW t \in Threads, NEW label \in Labels,
         NEW j \in Jobs, Agrees(label, j), Continue(t, label, j)
  PROVE  RequestTypeOK' /\ JobsAgree'
<1>1. /\ pc' = [pc EXCEPT ![t] = label] /\ job' = [job EXCEPT ![t] = j]
      /\ answer' = NoAnswer /\ requests' = requests /\ process' = process
  BY DEF Continue
<1>2. process \in BOOLEAN /\ requests \in 0..MaxRequests
  BY DEF TypeOK, RequestTypeOK
<1> QED
  BY <1>1, <1>2, OneThreadMoves, NoAnswerTyped DEF RequestTypeOK

LEMMA RespondKeeps ==
  ASSUME TypeOK, JobsAgree, TableMoves, NEW t \in Threads, NEW a \in Answers,
         Respond(t, a)
  PROVE  RequestTypeOK' /\ JobsAgree'
<1>1. /\ pc' = [pc EXCEPT ![t] = "idle"] /\ job' = [job EXCEPT ![t] = NoJob]
      /\ answer' = a /\ requests' = requests /\ process' = process
  BY DEF Respond
<1>2. process \in BOOLEAN /\ requests \in 0..MaxRequests
  BY DEF TypeOK, RequestTypeOK
<1>3. Agrees("idle", NoJob) /\ "idle" \in Labels
  BY DEF Agrees, Holding, Labels
<1> QED
  BY <1>1, <1>2, <1>3, OneThreadMoves, NoJobTyped DEF RequestTypeOK

LEMMA ReceiveKeeps ==
  ASSUME TypeOK, JobsAgree, NEW t \in Threads, NEW label \in Labels,
         label \notin Holding, NEW j \in Jobs, label = "insert" => j.url \in Urls,
         Receive(t, label, j)
  PROVE  TableMoves /\ RequestTypeOK' /\ JobsAgree'
<1>1. /\ pc' = [pc EXCEPT ![t] = label] /\ job' = [job EXCEPT ![t] = j]
      /\ answer' = NoAnswer /\ requests' = requests + 1 /\ process' = process
      /\ requests < MaxRequests /\ primary' = primary
  BY DEF Receive, stores, databases
<1>2. process \in BOOLEAN /\ requests \in 0..MaxRequests /\ MaxRequests \in Nat
  BY UrlAssumption DEF TypeOK, RequestTypeOK
<1>3. Agrees(label, j) /\ TableMoves
  BY <1>1 DEF Agrees, TableMoves
<1>4. requests' \in 0..MaxRequests
  BY <1>1, <1>2
<1> QED
  BY <1>1, <1>2, <1>3, <1>4, OneThreadMoves, NoAnswerTyped DEF RequestTypeOK

-----------------------------------------------------------------------------
(* What every action does to the table and to the requests *)

Ordered == TableMoves /\ RequestTypeOK' /\ JobsAgree'

LEMMA RequestOrdered ==
  ASSUME TypeOK, JobsAgree, NEW t \in Threads, Request(t)
  PROVE  Ordered
<1>1. ASSUME NEW u \in Urls, Receive(t, "insert", [NoJob EXCEPT !.url = u])
      PROVE  Ordered
  <2>1. [NoJob EXCEPT !.url = u] \in Jobs /\ [NoJob EXCEPT !.url = u].url = u
    BY NoJobTyped DEF Jobs
  <2> QED
    BY <1>1, <2>1, ReceiveKeeps DEF Labels, Holding, Ordered
<1>2. ASSUME NEW c \in Codes, NEW label \in {"get", "stats"},
             Receive(t, label, [NoJob EXCEPT !.code = c])
      PROVE  Ordered
  <2>1. [NoJob EXCEPT !.code = c] \in Jobs
    BY NoJobTyped DEF Jobs
  <2>2. label \in Labels /\ label \notin Holding /\ label # "insert"
    BY DEF Labels, Holding
  <2> QED
    BY <1>2, <2>1, <2>2, ReceiveKeeps DEF Ordered
<1>3. CASE Health(t)
  <2>1. /\ primary' = primary /\ pc' = pc /\ job' = job /\ process' = process
        /\ requests' = requests + 1 /\ requests < MaxRequests
    BY <1>3 DEF Health, stores, databases
  <2>2. answer' \in Answers
    BY <1>3 DEF Health, HealthAnswer, Answer, Answers, Statuses
  <2>3. requests' \in 0..MaxRequests
    BY <2>1, UrlAssumption DEF TypeOK, RequestTypeOK
  <2>4. RequestTypeOK'
    BY <2>1, <2>2, <2>3 DEF TypeOK, RequestTypeOK
  <2>5. JobsAgree'
    BY <2>1 DEF JobsAgree, JobAgrees, UrlOf
  <2> QED
    BY <2>1, <2>4, <2>5 DEF Ordered, TableMoves
<1> QED
  BY <1>1, <1>2, <1>3 DEF Request, PostShorten, GetCode, GetStats

\* A step that leaves the table alone.
LEMMA Reads ==
  ASSUME TypeOK, JobsAgree, NEW t \in Threads, primary' = primary,
         \/ \E label \in Labels, j \in Jobs : Agrees(label, j) /\ Continue(t, label, j)
         \/ \E a \in Answers : Respond(t, a)
  PROVE  Ordered
<1>1. TableMoves
  BY DEF TableMoves
<1> QED
  BY <1>1, ContinueKeeps, RespondKeeps DEF Ordered

LEMMA AnswersTyped ==
  /\ Answer(201, "ok") \in Answers /\ Answer(200, "ok") \in Answers
  /\ Answer(302, "ok") \in Answers /\ Answer(404, "error") \in Answers
  /\ Answer(500, "error") \in Answers /\ Answer(503, "error") \in Answers
  BY DEF Answer, Answers, Statuses

\* An insert that went through: the thread holds the row it has written.
LEMMA InsertOrdered ==
  ASSUME TypeOK, JobsAgree, NEW t \in Threads, Insert(t)
  PROVE  Ordered
<1>1. job[t] \in Jobs /\ job[t].url \in Urls
  BY DEF Insert, TypeOK, RequestTypeOK, JobsAgree, JobAgrees
<1> PICK c \in Codes : /\ ~Found(c) /\ Commit(InsertRow(c, job[t].url))
                       /\ Continue(t, "keep", [job[t] EXCEPT !.code = c, !.attempt = 1])
  BY DEF Insert
<1> DEFINE j == [job[t] EXCEPT !.code = c, !.attempt = 1]
<1>2. Inserts(c, job[t].url) /\ primary \in Tables
  BY DEF Inserts, Commit, TypeOK, StoreTypeOK
<1>3. TableMoves
  BY <1>1, <1>2 DEF TableMoves
<1>4. j \in Jobs /\ j.code = c /\ j.url = job[t].url
  <2>1. 1 \in 1..Attempts
    BY UrlAssumption
  <2> QED
    BY <1>1, <2>1 DEF Jobs
<1>5. primary'.rows[Fold[c]] = [url |-> job[t].url, clicks |-> 0]
  BY <1>1, <1>2, InsertEffect, KeyOfCode
<1>6. Agrees("keep", j) /\ "keep" \in Labels
  BY <1>1, <1>4, <1>5 DEF Agrees, Labels
<1> QED
  BY <1>3, <1>4, <1>6, ContinueKeeps DEF Ordered

\* The row may be there or not: the thread takes another code or gives up.
LEMMA InsertRaisesOrdered ==
  ASSUME TypeOK, JobsAgree, NEW t \in Threads, InsertRaises(t)
  PROVE  Ordered
<1>1. job[t] \in Jobs /\ job[t].url \in Urls
  BY DEF InsertRaises, TypeOK, RequestTypeOK, JobsAgree, JobAgrees
<1>2. TableMoves
  BY <1>1 DEF InsertRaises, TableMoves, Inserts, Commit, databases
<1>3. CASE Respond(t, Answer(503, "error"))
  BY <1>2, <1>3, RespondKeeps, AnswersTyped DEF Ordered
<1>4. CASE /\ job[t].attempt < Attempts
           /\ Continue(t, "insert", [job[t] EXCEPT !.attempt = @ + 1])
  <2> DEFINE j == [job[t] EXCEPT !.attempt = @ + 1]
  <2>1. job[t].attempt + 1 \in 1..Attempts
    BY <1>1, <1>4, JobTyped, UrlAssumption
  <2>2. j \in Jobs /\ j.url = job[t].url
    BY <1>1, <2>1 DEF Jobs
  <2>3. Agrees("insert", j) /\ "insert" \in Labels
    BY <1>1, <2>2 DEF Agrees, Labels, Holding
  <2> QED
    BY <1>2, <1>4, <2>2, <2>3, ContinueKeeps DEF Ordered
<1> QED
  BY <1>3, <1>4 DEF InsertRaises, NextAttempt

LEMMA ShortenOrdered ==
  ASSUME TypeOK, JobsAgree, NEW t \in Threads,
         CacheNewLink(t) \/ PutRecord(t) \/ CacheFoundLink(t) \/ Created(t)
  PROVE  Ordered
<1>1. pc[t] \in Holding /\ job[t] \in Jobs /\ primary' = primary
  BY DEF CacheNewLink, PutRecord, CacheFoundLink, Created, Holding, stores, databases,
         TypeOK, RequestTypeOK
<1>2. ASSUME NEW label \in Labels PROVE Agrees(label, job[t])
  BY <1>1 DEF JobsAgree, JobAgrees, Agrees, UrlOf
<1>3. CASE Created(t)
  BY <1>1, <1>3, Reads, AnswersTyped DEF Created
<1>4. CASE PutRecord(t) /\ Respond(t, Answer(500, "error"))
  BY <1>1, <1>4, Reads, AnswersTyped
<1>5. CASE \/ CacheNewLink(t) \/ CacheFoundLink(t)
           \/ PutRecord(t) /\ ~Respond(t, Answer(500, "error"))
  <2>1. \E label \in {"audit", "created", "count"} : Continue(t, label, job[t])
    BY <1>5 DEF CacheNewLink, PutRecord, CacheFoundLink
  <2>2. {"audit", "created", "count"} \subseteq Labels
    BY DEF Labels
  <2> QED
    BY <1>1, <1>2, <2>1, <2>2, Reads
<1> QED
  BY <1>3, <1>4, <1>5

\* What a cache hit or the row gives is what the row says.
LEMMA LookupOrdered ==
  ASSUME TypeOK, JobsAgree, StoresAgree, NEW t \in Threads,
         CacheGet(t) \/ ReadLink(t) \/ Stats(t)
  PROVE  Ordered
<1>1. job[t] \in Jobs /\ job[t].code \in Codes /\ primary \in Tables
      /\ cache \in [Codes -> Urls \cup {NoUrl}]
  BY JobTyped DEF TypeOK, RequestTypeOK, StoreTypeOK
<1>2. primary' = primary
  BY DEF CacheGet, ReadLink, Stats, stores, databases
<1>3. ASSUME NEW label \in {"count", "fill"}, UrlOf(job[t].code) # NoUrl,
             Continue(t, label, [job[t] EXCEPT !.url = UrlOf(job[t].code)])
      PROVE  Ordered
  <2> DEFINE j == [job[t] EXCEPT !.url = UrlOf(job[t].code)]
  <2>1. UrlOf(job[t].code) \in Urls
    BY <1>1, <1>3, RowTyped, KeyOfCode DEF UrlOf
  <2>2. j \in Jobs /\ j.url = UrlOf(job[t].code) /\ j.code = job[t].code
    BY <1>1, <2>1 DEF Jobs
  <2>3. Agrees(label, j) /\ label \in Labels
    BY <1>2, <2>1, <2>2 DEF Agrees, UrlOf, Labels
  <2> QED
    BY <1>2, <1>3, <2>2, <2>3, Reads
<1>4. ASSUME Continue(t, "read", job[t]) PROVE Ordered
  <2>1. Agrees("read", job[t]) /\ "read" \in Labels
    BY DEF Agrees, Holding, Labels
  <2> QED
    BY <1>1, <1>2, <1>4, <2>1, Reads
<1>5. ASSUME NEW a \in Answers, Respond(t, a) PROVE Ordered
  BY <1>2, <1>5, Reads
<1>6. CASE CacheGet(t)
  <2>1. cache[job[t].code] # NoUrl => cache[job[t].code] = UrlOf(job[t].code)
    BY <1>1 DEF StoresAgree
  <2> QED
    BY <1>3, <1>4, <1>6, <2>1 DEF CacheGet
<1>7. CASE ReadLink(t)
  BY <1>3, <1>5, <1>7, AnswersTyped DEF ReadLink, Found
<1>8. CASE Stats(t)
  BY <1>5, <1>8, AnswersTyped DEF Stats, StatsFrom
<1> QED
  BY <1>6, <1>7, <1>8

LEMMA CountOrdered ==
  ASSUME TypeOK, JobsAgree, NEW t \in Threads, CountClick(t) \/ CountRaises(t)
  PROVE  Ordered
<1>1. job[t].code \in Codes
  BY JobTyped DEF TypeOK, RequestTypeOK
<1>2. TableMoves
  BY <1>1 DEF CountClick, CountRaises, Click, Clicks, Commit, databases, TableMoves
<1>3. \E a \in Answers : Respond(t, a)
  BY AnswersTyped DEF CountClick, CountRaises, Redirect
<1> QED
  BY <1>2, <1>3, RespondKeeps DEF Ordered

LEMMA ProcessOrdered ==
  ASSUME TypeOK, JobsAgree, StartProcess \/ EndProcess \/ Replicate \/ Forget
  PROVE  Ordered
<1>1. /\ process \in BOOLEAN /\ requests \in 0..MaxRequests /\ primary \in Tables
      /\ pc \in [Threads -> Labels] /\ job \in [Threads -> Jobs]
  BY DEF TypeOK, RequestTypeOK, StoreTypeOK
<1>2. /\ requests' = requests /\ process' \in BOOLEAN /\ answer' = NoAnswer
      /\ primary' = primary \/ primary' = CreateTable
  BY <1>1 DEF StartProcess, EndProcess, Replicate, Forget, stores, databases, Commit
<1>3. primary'.rows = primary.rows
  BY <1>1, <1>2, CreateEffect
<1>4. CASE EndProcess
  <2>1. pc' = [t \in Threads |-> "idle"] /\ job' = [t \in Threads |-> NoJob]
    BY <1>4 DEF EndProcess
  <2>2. JobsAgree'
    BY <2>1 DEF JobsAgree, JobAgrees, Holding
  <2>3. pc' \in [Threads -> Labels] /\ job' \in [Threads -> Jobs]
    BY <2>1, NoJobTyped DEF Labels
  <2> QED
    BY <1>1, <1>2, <2>2, <2>3, NoAnswerTyped DEF Ordered, TableMoves, RequestTypeOK
<1>5. CASE ~EndProcess
  <2>1. pc' = pc /\ job' = job
    BY <1>5 DEF StartProcess, Replicate, Forget
  <2>2. JobsAgree'
    BY <1>3, <2>1 DEF JobsAgree, JobAgrees, UrlOf
  <2> QED
    BY <1>1, <1>2, <2>1, <2>2, NoAnswerTyped DEF Ordered, TableMoves, RequestTypeOK
<1> QED
  BY <1>4, <1>5

LEMMA NextOrdered ==
  ASSUME TypeOK, JobsAgree, StoresAgree, Next
  PROVE  Ordered
  BY RequestOrdered, InsertOrdered, InsertRaisesOrdered, ShortenOrdered, LookupOrdered,
     CountOrdered, ProcessOrdered DEF Next, Step

-----------------------------------------------------------------------------
(* The copies, the acknowledged links, the counters *)

\* What a step may do to a cache entry or an audit copy.
CopyMoves(store, store2) ==
  \A c \in Codes : \/ store2[c] \in {store[c], NoUrl}
                   \/ store2[c] = primary'.rows[Fold[c]].url

LEMMA BestEffortMoves ==
  ASSUME TypeOK, JobsAgree, TableMoves, primary' = primary,
         NEW t \in Threads, pc[t] \in Holding,
         NEW store \in [Codes -> Urls \cup {NoUrl}],
         NEW store2 \in BestEffort(store, job[t].code, job[t].url)
  PROVE  store2 \in [Codes -> Urls \cup {NoUrl}] /\ CopyMoves(store, store2)
<1>1. job[t].code \in Codes
  BY JobTyped DEF TypeOK, RequestTypeOK
<1>2. job[t].url \in Urls /\ job[t].url = primary'.rows[Fold[job[t].code]].url
  BY DEF JobsAgree, JobAgrees, UrlOf
<1> QED
  BY <1>1, <1>2 DEF BestEffort, CopyMoves

LEMMA NextCopies ==
  ASSUME TypeOK, JobsAgree, TableMoves, Next
  PROVE  /\ cache' \in [Codes -> Urls \cup {NoUrl}] /\ CopyMoves(cache, cache')
         /\ records' \in [Codes -> Urls \cup {NoUrl}] /\ CopyMoves(records, records')
<1>1. cache \in [Codes -> Urls \cup {NoUrl}] /\ records \in [Codes -> Urls \cup {NoUrl}]
  BY DEF TypeOK, StoreTypeOK
<1>2. CopyMoves(cache, cache) /\ CopyMoves(records, records)
  BY DEF CopyMoves
<1>3. ASSUME NEW t \in Threads, CacheNewLink(t) \/ CacheFoundLink(t)
      PROVE  /\ cache' \in BestEffort(cache, job[t].code, job[t].url)
             /\ pc[t] \in Holding /\ primary' = primary /\ records' = records
  BY <1>3 DEF CacheNewLink, CacheFoundLink, Holding, databases
<1>4. ASSUME NEW t \in Threads, PutRecord(t)
      PROVE  /\ records' \in BestEffort(records, job[t].code, job[t].url)
             /\ pc[t] \in Holding /\ primary' = primary /\ cache' = cache
  BY <1>4 DEF PutRecord, Holding, databases
<1>5. CASE Forget
  <2>1. PICK c \in Codes : cache' = [cache EXCEPT ![c] = NoUrl]
    BY <1>5 DEF Forget
  <2>2. records' = records
    BY <1>5 DEF Forget
  <2> QED
    BY <1>1, <1>2, <2>1, <2>2 DEF CopyMoves
<1>6. ASSUME ~Forget,
             \A t \in Threads : ~(CacheNewLink(t) \/ CacheFoundLink(t) \/ PutRecord(t))
      PROVE  cache' = cache /\ records' = records
  BY <1>6 DEF Next, Request, Step, PostShorten, GetCode, GetStats, Receive, Health, Insert,
     InsertRaises, Created, CacheGet, ReadLink, CountClick, CountRaises, Stats,
     StartProcess, EndProcess, Replicate, stores
<1>7. CASE \E t \in Threads : CacheNewLink(t) \/ CacheFoundLink(t) \/ PutRecord(t)
  BY <1>1, <1>2, <1>3, <1>4, <1>7, BestEffortMoves
<1> QED
  BY <1>1, <1>2, <1>5, <1>6, <1>7

LEMMA CopiesStay ==
  ASSUME StoreTypeOK, TableMoves, StoresAgree,
         CopyMoves(cache, cache'), CopyMoves(records, records')
  PROVE  StoresAgree'
<1>1. primary \in Tables /\ NoUrl \notin Urls
  BY UrlAssumption DEF StoreTypeOK
<1> SUFFICES ASSUME NEW c \in Codes
             PROVE  /\ cache'[c] # NoUrl => cache'[c] = primary'.rows[Fold[c]].url
                    /\ records'[c] # NoUrl => records'[c] = primary'.rows[Fold[c]].url
  BY DEF StoresAgree, UrlOf
<1>2. primary.rows[Fold[c]].url # NoUrl
        => primary'.rows[Fold[c]].url = primary.rows[Fold[c]].url
  BY <1>1, RowsStay, KeyOfCode
<1>3. /\ cache[c] # NoUrl => cache[c] = primary.rows[Fold[c]].url
      /\ records[c] # NoUrl => records[c] = primary.rows[Fold[c]].url
  BY DEF StoresAgree, UrlOf
<1> QED
  BY <1>2, <1>3 DEF CopyMoves

\* The links that are acknowledged are those of the table.
LEMMA AckedStay ==
  ASSUME Inv, TableMoves, Next
  PROVE  acked' \subseteq Links /\ AckStands'
<1>1. acked \subseteq Links /\ primary \in Tables /\ NoUrl \notin Urls
  BY UrlAssumption DEF Inv, TypeOK, SeenTypeOK, StoreTypeOK
<1>2. ASSUME NEW l \in Links, UrlOf(l.code) = l.url
      PROVE  primary'.rows[Fold[l.code]].url = l.url
  <2>1. l.code \in Codes /\ l.url \in Urls
    BY DEF Links
  <2>2. primary.rows[Fold[l.code]].url # NoUrl
    BY <1>1, <1>2, <2>1 DEF UrlOf
  <2> QED
    BY <1>1, <1>2, <2>1, <2>2, RowsStay, KeyOfCode DEF UrlOf
<1>3. ASSUME NEW t \in Threads, Created(t)
      PROVE  \E l \in Links : acked' = acked \cup {l} /\ UrlOf(l.code) = l.url
  <2>1. job[t].code \in Codes /\ job[t].url \in Urls /\ job[t].url = UrlOf(job[t].code)
    BY <1>3, JobTyped DEF Created, Inv, TypeOK, RequestTypeOK, JobsAgree, JobAgrees, Holding
  <2>2. [code |-> job[t].code, url |-> job[t].url] \in Links
    BY <2>1 DEF Links
  <2> QED
    BY <1>3, <2>1, <2>2 DEF Created
<1>4. ASSUME \A t \in Threads : ~Created(t) PROVE acked' = acked
  BY <1>4 DEF Next, Request, Step, PostShorten, GetCode, GetStats, Receive, Health, Insert,
     InsertRaises, CacheNewLink, PutRecord, CacheGet, ReadLink, CacheFoundLink, CountClick,
     CountRaises, Stats, StartProcess, EndProcess, Replicate, Forget, stores, seen
<1>5. \A l \in acked' : l \in Links /\ UrlOf(l.code) = l.url
  BY <1>1, <1>3, <1>4 DEF Inv, AckStands
<1> QED
  BY <1>2, <1>5 DEF AckStands, UrlOf

\* A redirect and its click are one step; nothing else touches the counters.
LEMMA CountsStay ==
  ASSUME Inv, TableMoves, Next
  PROVE  redirects' \in [Keys -> Nat] /\ Counted'
<1>1. redirects \in [Keys -> Nat] /\ primary \in Tables
  BY DEF Inv, TypeOK, SeenTypeOK, StoreTypeOK
<1>2. ASSUME NEW k \in Keys
      PROVE  /\ redirects[k] \in Nat /\ primary.rows[k].clicks \in Nat
             /\ redirects[k] <= primary.rows[k].clicks
             /\ primary.rows[k].url = NoUrl => redirects[k] = 0
  BY <1>1, RowTyped DEF Inv, Counted
<1>3. ASSUME NEW t \in Threads, CountClick(t)
      PROVE  redirects' \in [Keys -> Nat] /\ Counted'
  <2> DEFINE c == job[t].code
  <2>1. c \in Codes /\ Fold[c] \in Keys /\ Found(c)
    BY <1>3, JobTyped, KeyOfCode, UrlAssumption
       DEF CountClick, Inv, TypeOK, RequestTypeOK, JobsAgree, JobAgrees, Holding, Found
  <2>2. Clicks(c)
    BY <1>3, <2>1 DEF CountClick, Click, Clicks, Commit
  <2>3. redirects' = [redirects EXCEPT ![Fold[c]] = @ + 1]
    BY <1>3 DEF CountClick, Redirect
  <2>4. redirects' \in [Keys -> Nat]
    BY <1>1, <2>1, <2>3
  <2>5. ASSUME NEW k \in Keys
        PROVE  /\ redirects'[k] <= primary'.rows[k].clicks
               /\ primary'.rows[k].url = NoUrl => redirects'[k] = 0
    <3>1. CASE k = Fold[c]
      <4>1. primary'.rows[k] =
              [url |-> primary.rows[k].url, clicks |-> primary.rows[k].clicks + 1]
        BY <1>1, <2>1, <2>2, <3>1, ClickEffect
      <4>2. redirects'[k] = redirects[k] + 1
        BY <1>1, <2>3, <3>1
      <4>3. primary.rows[k].url # NoUrl
        BY <2>1, <3>1 DEF Found, UrlOf
      <4>4. primary'.rows[k].url # NoUrl /\ primary'.rows[k].clicks = primary.rows[k].clicks + 1
        BY <4>1, <4>3
      <4> QED
        BY <1>2, <4>2, <4>4
    <3>2. CASE k # Fold[c]
      <4>1. primary'.rows[k] = primary.rows[k]
        BY <1>1, <2>1, <2>2, <3>2, ClickEffect
      <4>2. redirects'[k] = redirects[k]
        BY <1>1, <2>3, <3>2
      <4> QED
        BY <1>2, <4>1, <4>2
    <3> QED
      BY <3>1, <3>2
  <2> QED
    BY <2>4, <2>5 DEF Counted
<1>4. CASE \A t \in Threads : ~CountClick(t)
  <2>1. redirects' = redirects
    BY <1>4 DEF Next, Request, Step, PostShorten, GetCode, GetStats, Receive, Health, Insert,
       InsertRaises, CacheNewLink, PutRecord, Created, CacheGet, ReadLink, CacheFoundLink,
       CountRaises, Stats, StartProcess, EndProcess, Replicate, Forget, stores, seen
  <2>2. ASSUME NEW k \in Keys
        PROVE  /\ redirects[k] <= primary'.rows[k].clicks
               /\ primary'.rows[k].url = NoUrl => redirects[k] = 0
    <3>1. CASE primary.rows[k].url = NoUrl
      <4>1. redirects[k] = 0
        BY <1>2, <3>1
      <4>2. primary'.rows[k].clicks \in Nat
        BY <1>1, RowsStay DEF Tables, Rows
      <4> QED
        BY <4>1, <4>2
    <3>2. CASE primary.rows[k].url # NoUrl
      <4>1. /\ primary'.rows[k].url = primary.rows[k].url
            /\ primary'.rows[k].clicks >= primary.rows[k].clicks
        BY <1>1, <3>2, RowsStay
      <4>2. primary'.rows[k].clicks \in Nat
        BY <1>1, RowsStay DEF Tables, Rows
      <4> QED
        BY <1>2, <3>2, <4>1, <4>2
    <3> QED
      BY <3>1, <3>2
  <2> QED
    BY <1>1, <2>1, <2>2 DEF Counted
<1> QED
  BY <1>3, <1>4

LEMMA BlankStays ==
  ASSUME primary \in Tables, Blank, TableMoves
  PROVE  Blank'
<1> SUFFICES ASSUME NEW k \in Keys, primary'.rows[k].url = NoUrl
             PROVE  primary'.rows[k].clicks = 0
  BY DEF Blank
<1>1. primary.rows[k].url = NoUrl => primary.rows[k].clicks = 0
  BY DEF Blank
<1>2. CASE primary' = primary \/ primary' = CreateTable
  BY <1>1, <1>2, CreateEffect
<1>3. CASE \E c \in Codes, u \in Urls : Inserts(c, u)
  <2> PICK c \in Codes, u \in Urls : Inserts(c, u)
    BY <1>3
  <2>1. primary'.rows[k] =
          IF k = Fold[c] THEN [url |-> u, clicks |-> 0] ELSE primary.rows[k]
    BY InsertEffect
  <2> QED
    BY <1>1, <2>1
<1>4. CASE \E c \in Codes : Clicks(c)
  <2> PICK c \in Codes : Clicks(c)
    BY <1>4
  <2>1. /\ primary'.rows[k] =
             IF k = Fold[c]
             THEN [url |-> primary.rows[k].url, clicks |-> primary.rows[k].clicks + 1]
             ELSE primary.rows[k]
        /\ primary.rows[Fold[c]].url # NoUrl
    BY ClickEffect
  <2>2. k # Fold[c]
    BY <2>1
  <2> QED
    BY <1>1, <2>1, <2>2
<1> QED
  BY <1>2, <1>3, <1>4 DEF TableMoves

LEMMA MirrorTyped ==
  ASSUME TypeOK, Next
  PROVE  mirror' \subseteq Keys
<1>1. mirror \subseteq Keys /\ Written \subseteq Keys
  BY DEF TypeOK, StoreTypeOK, Written
<1>2. mirror' \in {mirror, Written}
  BY DEF Next, Request, Step, PostShorten, GetCode, GetStats, Receive, Health, Insert,
     InsertRaises, CacheNewLink, PutRecord, Created, CacheGet, ReadLink, CacheFoundLink,
     CountClick, CountRaises, Click, Commit, Stats, StartProcess, EndProcess, Replicate,
     Forget, stores, databases
<1> QED
  BY <1>1, <1>2

\* A request moves its own thread only.
LEMMA OwnThread ==
  ASSUME pc \in [Threads -> Labels], NEW s \in Threads, NEW t \in Threads, s # t,
         Step(s) \/ Request(s)
  PROVE  pc'[t] = pc[t]
<1>1. ASSUME NEW label, NEW j, Continue(s, label, j) PROVE pc'[t] = pc[t]
  BY <1>1 DEF Continue
<1>2. ASSUME NEW a, Respond(s, a) PROVE pc'[t] = pc[t]
  BY <1>2 DEF Respond
<1>3. ASSUME NEW label, NEW j, Receive(s, label, j) PROVE pc'[t] = pc[t]
  BY <1>3 DEF Receive
<1>4. CASE Request(s)
  BY <1>3, <1>4 DEF Request, PostShorten, GetCode, GetStats, Health
<1>5. CASE Insert(s) \/ InsertRaises(s) \/ CacheNewLink(s) \/ PutRecord(s) \/ Created(s)
  BY <1>1, <1>2, <1>5
     DEF Insert, InsertRaises, NextAttempt, CacheNewLink, PutRecord, Created
<1>6. CASE CacheGet(s) \/ ReadLink(s) \/ CacheFoundLink(s)
  BY <1>1, <1>2, <1>6 DEF CacheGet, ReadLink, CacheFoundLink
<1>7. CASE CountClick(s) \/ CountRaises(s) \/ Stats(s)
  BY <1>2, <1>7 DEF CountClick, CountRaises, Stats, StatsFrom, Redirect
<1> QED
  BY <1>4, <1>5, <1>6, <1>7 DEF Step

-----------------------------------------------------------------------------
(* The invariant *)

LEMMA InitInv == Init => Inv
<1> SUFFICES ASSUME Init PROVE Inv
  OBVIOUS
<1>1. NoRow \in Rows /\ NoTable \in Tables
  BY DEF NoRow, Rows, NoTable, Tables
<1>2. StoreTypeOK
  BY <1>1 DEF Init, StoreTypeOK
<1>3. 0 \in 0..MaxRequests
  BY UrlAssumption
<1>4. RequestTypeOK
  BY <1>3, NoJobTyped, NoAnswerTyped DEF Init, RequestTypeOK, Labels
<1>5. SeenTypeOK
  BY DEF Init, SeenTypeOK
<1>6. JobsAgree
  BY DEF Init, JobsAgree, JobAgrees, Holding
<1>7. StoresAgree /\ AckStands
  BY DEF Init, StoresAgree, AckStands
<1>8. ASSUME NEW k \in Keys PROVE redirects[k] = 0 /\ primary.rows[k].clicks = 0
  BY DEF Init, NoTable, NoRow
<1>9. Counted /\ Blank
  BY <1>8 DEF Counted, Blank
<1> QED
  BY <1>2, <1>4, <1>5, <1>6, <1>7, <1>9 DEF Inv, TypeOK

LEMMA NextInv ==
  ASSUME Inv, Next
  PROVE  Inv'
<1>1. TypeOK /\ JobsAgree /\ StoresAgree /\ StoreTypeOK /\ primary \in Tables
  BY DEF Inv, TypeOK, StoreTypeOK
<1>2. TableMoves /\ RequestTypeOK' /\ JobsAgree'
  BY <1>1, NextOrdered DEF Ordered
<1>3. primary' \in Tables
  BY <1>1, <1>2, RowsStay
<1>4. StoreTypeOK' /\ StoresAgree'
  BY <1>1, <1>2, <1>3, NextCopies, CopiesStay, MirrorTyped DEF StoreTypeOK
<1>5. SeenTypeOK' /\ AckStands' /\ Counted' /\ Blank'
  BY <1>1, <1>2, AckedStay, CountsStay, BlankStays DEF SeenTypeOK, Inv
<1> QED
  BY <1>2, <1>4, <1>5 DEF Inv, TypeOK

LEMMA IdleInv ==
  ASSUME Inv, UNCHANGED vars
  PROVE  Inv'
  BY DEF Inv, TypeOK, StoreTypeOK, RequestTypeOK, SeenTypeOK, JobsAgree, JobAgrees, UrlOf,
     StoresAgree, AckStands, Counted, Blank, vars, stores, databases, seen

\* What the requests and the stores hold agrees with the table, in every state
\* that is reached.
THEOREM UrlInvariant == Spec => []Inv
<1>1. Inv /\ [Next]_vars => Inv'
  BY NextInv, IdleInv
<1> QED
  BY <1>1, InitInv, PTL DEF Spec

\* Every variable of the application keeps its type.
THEOREM UrlTypeCorrect == Spec => []TypeOK
  BY UrlInvariant, PTL DEF Inv

\* An acknowledged link keeps its URL: through retries after lost answers,
\* other requests for codes that only differ in case, and restarts.
THEOREM AcknowledgementStands == Spec => []AckStands
  BY UrlInvariant, PTL DEF Inv

\* The cache, the audit copies and the requests on their way to a redirect
\* repeat what the table says.
THEOREM CopiesFollowTable == Spec => []CopiesAgree
<1>1. Inv => CopiesAgree
  BY DEF Inv, StoresAgree, JobsAgree, JobAgrees, CopiesAgree, Holding
<1> QED
  BY <1>1, UrlInvariant, PTL

\* Every redirect that was answered has been counted.
THEOREM RedirectsCounted == Spec => []ClicksCoverRedirects
<1>1. Inv => ClicksCoverRedirects
  BY DEF Inv, Counted, ClicksCoverRedirects
<1> QED
  BY <1>1, UrlInvariant, PTL

\* Only a read of the primary that finds no row answers 404, and a link that
\* was acknowledged has a row.
THEOREM AcknowledgedIsFound == Spec => AckedIsFound
<1> DEFINE P == \A t \in Threads :
       (pc[t] = "read" /\ pc'[t] = "idle" /\ answer'.status = 404)
         => \A l \in acked : l.code # job[t].code
<1>1. ASSUME Inv, Next PROVE P
  <2> SUFFICES ASSUME NEW t \in Threads, pc[t] = "read", pc'[t] = "idle",
                      answer'.status = 404, NEW l \in acked, l.code = job[t].code
               PROVE  FALSE
    OBVIOUS
  <2>1. pc \in [Threads -> Labels] /\ acked \subseteq Links /\ NoUrl \notin Urls
    BY <1>1, UrlAssumption DEF Inv, TypeOK, RequestTypeOK, SeenTypeOK
  <2>2. UrlOf(job[t].code) \in Urls
    BY <1>1, <2>1 DEF Inv, AckStands, Links
  <2>3. Found(job[t].code)
    BY <2>1, <2>2 DEF Found
  <2>4. NoAnswer.status # 404 /\ Answer(500, "error").status # 404
    BY DEF NoAnswer, Answer
  <2>5. ~ReadLink(t)
    BY <2>1, <2>3, <2>4 DEF ReadLink, Respond, Continue
  <2>6. ASSUME NEW s \in Threads, s # t, Step(s) \/ Request(s) PROVE pc'[t] = pc[t]
    BY <2>1, <2>6, OwnThread
  <2>7. ~Step(t) /\ ~Request(t)
    BY <2>5 DEF Step, Request, PostShorten, GetCode, GetStats, Receive, Health, Insert,
       InsertRaises, CacheNewLink, PutRecord, Created, CacheGet, CacheFoundLink, CountClick,
       CountRaises, Stats
  <2>8. ASSUME EndProcess \/ StartProcess \/ Replicate \/ Forget PROVE answer' = NoAnswer
    BY <2>8 DEF EndProcess, StartProcess, Replicate, Forget
  <2> QED
    BY <1>1, <2>4, <2>6, <2>7, <2>8 DEF Next
<1>2. Inv /\ [Next]_vars => [P]_vars
  BY <1>1
<1> QED
  BY <1>2, UrlInvariant, PTL DEF Spec, AckedIsFound

-----------------------------------------------------------------------------
(* The refinement of LinkBook *)

bookLinks == [k \in Keys |-> primary.rows[k].url]
bookClicks == [k \in Keys |-> primary.rows[k].clicks]
bookPromised == {[key |-> Fold[l.code], url |-> l.url] : l \in acked}
bookVars == <<bookLinks, bookClicks, bookPromised, redirects>>

\* What the application shows of an empty page and of one that is written.
LEMMA ListedIs ==
  ASSUME NEW k \in Keys
  PROVE  Book!Listed(k) <=> primary.rows[k].url # NoUrl
  BY DEF Book!Listed

LEMMA InsertIsShorten ==
  ASSUME primary \in Tables, Blank, NEW c \in Codes, NEW u \in Urls, Inserts(c, u),
         acked' = acked, redirects' = redirects
  PROVE  Book!Next
<1>1. Fold[c] \in Keys
  BY KeyOfCode
<1>2. /\ \A k \in Keys : primary'.rows[k] =
           IF k = Fold[c] THEN [url |-> u, clicks |-> 0] ELSE primary.rows[k]
      /\ primary.rows[Fold[c]].url = NoUrl
  BY InsertEffect
<1>3. bookLinks' = [bookLinks EXCEPT ![Fold[c]] = u]
  <2>1. ASSUME NEW k \in Keys
        PROVE  primary'.rows[k].url = IF k = Fold[c] THEN u ELSE primary.rows[k].url
    BY <1>2
  <2> QED
    BY <1>1, <2>1 DEF bookLinks
<1>4. ASSUME NEW k \in Keys PROVE primary'.rows[k].clicks = primary.rows[k].clicks
  BY <1>2 DEF Blank
<1>5. bookClicks' = bookClicks
  BY <1>4 DEF bookClicks
<1>6. bookPromised' = bookPromised
  BY DEF bookPromised
<1>7. Book!Shorten(Fold[c])
  BY <1>1, <1>2, <1>3, <1>5, <1>6, ListedIs
     DEF Book!Shorten, bookLinks, bookClicks, bookPromised
<1> QED
  BY <1>1, <1>7 DEF Book!Next

\* A click, with a redirect or without.
LEMMA ClickIsFollow ==
  ASSUME primary \in Tables, NEW c \in Codes, Clicks(c), acked' = acked,
         \/ redirects' = redirects
         \/ redirects' = [redirects EXCEPT ![Fold[c]] = @ + 1]
  PROVE  Book!Next
<1>1. Fold[c] \in Keys
  BY KeyOfCode
<1>2. /\ \A k \in Keys : primary'.rows[k] =
           IF k = Fold[c]
           THEN [url |-> primary.rows[k].url, clicks |-> primary.rows[k].clicks + 1]
           ELSE primary.rows[k]
      /\ primary.rows[Fold[c]].url # NoUrl
  BY ClickEffect
<1>3. ASSUME NEW k \in Keys
      PROVE  /\ primary'.rows[k].url = primary.rows[k].url
             /\ primary'.rows[k].clicks = IF k = Fold[c] THEN primary.rows[k].clicks + 1
                                                         ELSE primary.rows[k].clicks
  <2>1. CASE k = Fold[c]
    <3>1. primary'.rows[k] =
            [url |-> primary.rows[k].url, clicks |-> primary.rows[k].clicks + 1]
      BY <1>2, <2>1
    <3> QED
      BY <2>1, <3>1
  <2>2. CASE k # Fold[c]
    BY <1>2, <2>2
  <2> QED
    BY <2>1, <2>2
<1>4. bookLinks' = bookLinks
  BY <1>3 DEF bookLinks
<1>5. bookClicks' = [bookClicks EXCEPT ![Fold[c]] = @ + 1]
  BY <1>1, <1>3 DEF bookClicks
<1>6. bookPromised' = bookPromised
  BY DEF bookPromised
<1>7. Book!CountOnly(Fold[c]) \/ Book!Follow(Fold[c])
  BY <1>1, <1>2, <1>4, <1>5, <1>6, ListedIs
     DEF Book!CountOnly, Book!Follow, bookLinks, bookClicks, bookPromised
<1> QED
  BY <1>1, <1>7 DEF Book!Next

LEMMA CreatedIsPromise ==
  ASSUME Inv, NEW t \in Threads, Created(t)
  PROVE  Book!Next
<1> PICK c \in Codes : c = job[t].code
  BY JobTyped DEF Inv, TypeOK, RequestTypeOK
<1>1. Fold[c] \in Keys
  BY KeyOfCode
<1>2. /\ job[t].url \in Urls /\ job[t].url = primary.rows[Fold[c]].url
      /\ job[t].url # NoUrl
  BY UrlAssumption DEF Created, Inv, JobsAgree, JobAgrees, Holding, UrlOf
<1>3. /\ acked' = acked \cup {[code |-> c, url |-> job[t].url]}
      /\ primary' = primary /\ redirects' = redirects
  BY DEF Created, stores, databases
<1>4. bookPromised' = bookPromised \cup {[key |-> Fold[c], url |-> bookLinks[Fold[c]]]}
  <2>1. bookLinks[Fold[c]] = job[t].url
    BY <1>1, <1>2 DEF bookLinks
  <2> DEFINE new == [code |-> c, url |-> job[t].url]
  <2>2. new.code = c /\ new.url = job[t].url /\ acked' = acked \cup {new}
    BY <1>3
  <2> HIDE DEF new
  <2>3. bookPromised' = bookPromised \cup {[key |-> Fold[new.code], url |-> new.url]}
    BY <2>2 DEF bookPromised
  <2> QED
    BY <2>1, <2>2, <2>3
<1>5. bookLinks' = bookLinks /\ bookClicks' = bookClicks
  BY <1>3 DEF bookLinks, bookClicks
<1>6. Book!Promise(Fold[c])
  BY <1>1, <1>2, <1>3, <1>4, <1>5, ListedIs
     DEF Book!Promise, bookLinks, bookClicks, bookPromised
<1> QED
  BY <1>1, <1>6 DEF Book!Next

LEMMA BookStep ==
  ASSUME Inv, Next
  PROVE  Book!Next \/ UNCHANGED bookVars
<1>1. /\ TypeOK /\ JobsAgree /\ StoresAgree /\ Blank /\ primary \in Tables
      /\ pc \in [Threads -> Labels] /\ job \in [Threads -> Jobs]
  BY DEF Inv, TypeOK, StoreTypeOK, RequestTypeOK
<1>2. TableMoves
  BY <1>1, NextOrdered DEF Ordered
<1>3. ASSUME NEW t \in Threads, CountClick(t) PROVE Book!Next
  <2> DEFINE c == job[t].code
  <2>1. c \in Codes /\ Found(c)
    BY <1>1, <1>3, JobTyped, UrlAssumption
       DEF CountClick, JobsAgree, JobAgrees, Holding, Found
  <2>2. Clicks(c)
    BY <1>3, <2>1 DEF CountClick, Click, Clicks, Commit
  <2>3. acked' = acked /\ redirects' = [redirects EXCEPT ![Fold[c]] = @ + 1]
    BY <1>3 DEF CountClick, Redirect
  <2> QED
    BY <1>1, <2>1, <2>2, <2>3, ClickIsFollow
<1>4. CASE \A t \in Threads : ~CountClick(t) /\ ~Created(t)
  <2>1. acked' = acked /\ redirects' = redirects
    BY <1>4 DEF Next, Request, Step, PostShorten, GetCode, GetStats, Receive, Health, Insert,
       InsertRaises, CacheNewLink, PutRecord, CacheGet, ReadLink, CacheFoundLink,
       CountRaises, Stats, StartProcess, EndProcess, Replicate, Forget, stores, seen
  <2>2. CASE primary' = primary \/ primary' = CreateTable
    <3>1. primary'.rows = primary.rows
      BY <1>1, <2>2, CreateEffect
    <3> QED
      BY <2>1, <3>1 DEF bookVars, bookLinks, bookClicks, bookPromised
  <2>3. CASE \E c \in Codes, u \in Urls : Inserts(c, u)
    BY <1>1, <2>1, <2>3, InsertIsShorten
  <2>4. CASE \E c \in Codes : Clicks(c)
    BY <1>1, <2>1, <2>4, ClickIsFollow
  <2> QED
    BY <1>2, <2>2, <2>3, <2>4 DEF TableMoves
<1> QED
  BY <1>3, <1>4, CreatedIsPromise

LEMMA BookIdle ==
  ASSUME UNCHANGED vars
  PROVE  UNCHANGED bookVars
  BY DEF vars, stores, databases, seen, bookVars, bookLinks, bookClicks, bookPromised

\* Whatever requests overlap, break off or lose their answers, and whatever
\* the cache forgets: whoever shortens and follows links uses a book that is
\* only added to.
THEOREM ImplementsBook == Spec => BookSpec
<1>1. Init => Book!Init
  BY DEF Init, NoTable, NoRow, Book!Init
<1>2. Inv /\ [Next]_vars => [Book!Next]_bookVars
  BY BookStep, BookIdle
<1> QED
  BY <1>1, <1>2, UrlInvariant, PTL
     DEF Spec, BookSpec, Book!Spec, bookVars, bookLinks, bookClicks, bookPromised
=============================================================================
