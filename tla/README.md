# Specifications of the services marketplace

TLA+ models of the laboratory project in this repository: an application of
three HTTP services (users, services on offer, orders) in C++ on userver, built
again in each laboratory over another storage (`src/lab2` in memory, `src/lab3`
PostgreSQL, `src/lab4` MongoDB, `src/lab5` with a Redis cache and rate limits)
and joined in `src/lab6` by an event bus on RabbitMQ. What the handlers do with
their storages, with Redis, with each other and with the broker is modelled and
checked with TLC; every safety property the passing runs check, the four refinements
among them, is proved with TLAPS for all values of the constants.

    ServiceCatalog      what the catalog-service promises its readers (abstract)
    RedisConnection     the hiredis context of a RedisCache, and the server
      CatalogCache      GET and POST /services, in each build (lab2 - lab5)
        CatalogCacheProofs
      RateLimiter       CheckRateLimit with time (lab5)
        RateLimiterProofs
    UserRegistry        what the user-service promises (abstract)
      Users             register, login and query of users, in each build
        UsersProofs
    NameMask            what a mask of names finds, in each storage
    OrderBook           what the order-service promises (abstract)
      Orders            the order-service, in each build (lab2 - lab5)
        OrdersProofs
    Delivery            delivery at least once, of what is accepted (abstract)
      EventBus          producer, broker and consumers (lab6)
        EventBusProofs
    MC*                 small instances for TLC, one .cfg per run

To check: `tlc -config MCOrders_add.cfg MCOrders`, `tlapm RateLimiterProofs.tla`.
`PROJECT.json` lists the runs, the mutants that show each property can fail, the
source lines of each definition, the findings, the hazards and the theorems.

## 1. The system

### Components

| component | state | operations | model |
|---|---|---|---|
| catalog-service (`lab2/src/catalog-service`; in lab5 with the handlers of `lab5/src/catalog-service`) | services, in memory, PostgreSQL or MongoDB; in lab5 the keys `services:all` (60 s) and `service:{id}` in Redis | GET list, GET by id, POST | `CatalogCache` |
| RedisCache (`lab5/src/shared/redis_cache.cpp`) | one hiredis context `ctx_` under one mutex per process | EnsureConnected, Get, Set, Del, CheckRateLimit | `RedisConnection` and its three users |
| rate limits of login and register | the key `rl:{what}:{ip}` with its TTL | INCR, EXPIRE, TTL | `RateLimiter` |
| order-service (`lab2/src/order-service`) | orders and their services, in memory, PostgreSQL or MongoDB | list, open, show, add a service (after a look-up in the catalog) | `Orders` |
| user-service (`lab2`, `lab5/src/user-service`) | users, in memory, PostgreSQL (unique by login and email) or MongoDB; key `user:login:{login}` (30 s) | register, login, query by login, by mask, all | `Users`, `NameMask` |
| event bus (`lab6/producer`, `lab6/consumer`) | exchange, three durable queues, unacknowledged messages | declare, publish, deliver, handle, acknowledge, retry | `EventBus` |
| JWT, authentication middleware | none (a token lives 24 h) | Create, Validate, RequireAuth | what a token says, and its absence: `Users`, `Orders` |
| email, Swagger, nginx, compose, schemas, diagrams, tests | none | | no |

### Interactions

A client reaches a service through nginx. Every request is a coroutine; a
service process runs many, on two worker threads. Coroutines share the storage
and, in a RedisCache, one connection behind a `std::mutex`; they are interleaved
wherever they call out. The order-service calls the catalog-service over HTTP in
the middle of a request. Two services and the rate limiter share one Redis,
through a RedisCache each. Processes die and docker-compose starts them again
(`restart: on-failure`); Redis keeps its data on a volume. The events of lab6 are
sent by a script, not by the services.

### What is hard

* check then act: a list read before and cached after a deletion; a login found
  free and then taken; an order read, the catalog asked, and the order changed.
* two commands where one was meant: INSERT and DEL, INCR and EXPIRE.
* commands that fail after they were carried out, failures that are swallowed
  (`Del`, `Set`, `FindById` over MongoDB), and processes that die in between.
* Redis coming back from an old RDB file.
* redelivery, order and loss of messages when connections break.

Section 5 of this file and the hazards in `PROJECT.json` give each with its line.

### What makes each component correct

* catalog: lists are stale only when a DEL missed them, and not for ever; two
  lists contradict each other only about services stored while a cursor was being
  read; an existing service is "not found" only when a failure was caught.
* rate limiter: the counter never outlives its window; of the requests it counts at
  most twice the limit are let in during one window's length; nothing prolongs a
  window or starts its count again; the reset time that is announced is enough.
  (Requests that Redis does not count are let in without a bound, by design.)
* orders: what a client was told stays; an addition amounts to one atomic step
  on an order of the client, with an id that the catalog vouched for.
* users: a login names one user, but where nothing makes it unique and two
  registrations raced; what was acknowledged logs in; neither a token nor the
  cache names another user; a mask finds all it should and nobody else, but for
  the characters by which its storage hides names or takes any.
* event bus: nothing the broker has read is lost or overtaken; all is handled;
  repetitions, losses and republications are each paid for by a failure.

## 2. The modules

In all service modules a *task* is one request in flight, `pc[t]` the call it is about
to make, and an action is what its coroutine does from one call to Redis, a storage or
another service to the next: that is where coroutines meet. A response stays at its `pc`
(`"hit"`, `"not_found"`, ...) until `Respond`, so that invariants speak of answers.
Histories (`acked`, `known`, `told`, `creds`, `missed`, `scanned`, `excused`, `shut`,
`slipped`, `recent`, `handled`, `routed`) are written by actions and read by properties
only. Fault constants (`RedisFaults`, `StorageFaults`, ...) switch failures on; a run
names those it has.

Every other definition marked "Mutant" is a plausible bug, used to show that a
property fails when the code is broken; no action of `Next` uses it.

**RedisConnection.** `ctx` is `null`, `live`, `broken` (closed by the server,
unnoticed by hiredis: `err` is 0) or `err`. `EnsureConnected` keeps a context
without an error (`redis_cache.cpp:14-35`). `CommandOutcomes` is what a command
can come back with: done; done with the reply lost; refused (`-LOADING`,
`-MISCONF`, `-OOM`); not sent. A command always comes back: hiredis has a
connect timeout but no command timeout, so a silent server really blocks the
worker thread, see "Not modelled".

**ServiceCatalog** and **CatalogCache.** `ServiceCatalog` is what a reader may rely
on: services are added one at a time; an answer is true at a moment of the request,
with two exceptions. A catalog that reads its services one after the other (`scanning`)
lists all there were when the read began and, of those added since, any; and one with a
cache may give a list it has `kept` since it read it. One that does not last may lose
all at once. It leaves open how stale a list may be: that is what `StaleOnlyWhenMissed`
and `StaleListEnds` say. `CatalogCache` does this in up to four calls per request.
`build` is one of four: `memory`, `postgres`, `mongo`, and `cached`, which is MongoDB
with Redis; `IfCached` names the call to Redis that the other three leave out. `db`
holds the services (they never change and are never deleted, so a service stands for
its record), `live` and `docs` are the keys, `saved` and `savedDocs` the same in
Redis's last RDB file. `ListGet`, `ListFind`, `ListFetch` and `ListSet` are the steps
of GET, `Insert`, `ListDel` those of POST, `DocGet`, `DocFind`, `DocSet` those of GET by
id. In memory the list is read under the lock, and over PostgreSQL by one `SELECT`.
Over MongoDB (`Scans`) it comes from a cursor sorted by `_id` that is no snapshot
(`storage.cpp:124-131`), and an `_id` is made by the client before `InsertOne`: so
`ListFind` fixes what the cursor finds by all means, what is stored when the find is
sent, and `ListFetch`, when it has been drained, adds any of what was stored meanwhile.
The list may thus have a later service and not an earlier one, and be cached so; the
history `scanned` has the services stored while a cursor was open. Each copy of the
list carries as history the services whose DEL *missed* it: a DEL that was not executed
misses the key; any DEL misses the RDB file and the lists that are being read or are yet
to be cached. Over MongoDB `FindById` catches what is thrown and returns `nullopt`, a
404: the answer `"caught"`, kept apart from the 404 of a service that was looked for
and not found; over PostgreSQL it is a 500. In memory a restart forgets all, and so
the history of what was promised. `Catalog == INSTANCE ServiceCatalog WITH ...` takes
`db` for the services, the copies in Redis, its RDB file and the hands of a GET about to
Set (`Kept`) for the lists that are kept and, as the answer of a task, what it has read
and is going to send (`Told`): an answer is fixed at the read, while the fill of the
cache and the response come later. A 500 and a `"caught"` 404 tell nothing of the
catalog. The two expiry actions keep a copy in the RDB file no longer than the live key,
which is never older.

**RateLimiter.** One key, integer time in ticks (`TicksPerSecond` of them make a
second, so that the rounding of TTL to whole seconds shows). The mutex is held
over INCR, EXPIRE and TTL (`Holders`); `Tick` and Redis failures come between.
An INCR whose reply is lost, an EXPIRE that is not executed, an RDB copy made
between the two and a process that dies between them leave a counter that never
expires: the history `slipped` records that this has happened to the counter in
Redis, so that the properties can say that *only* this leaves it so. A request whose
INCR gets no reply is let in (`redis_cache.cpp:108-119`) and counted by nobody: it is a
step of the model and ends as an answer, but `recent`, and so `TwiceTheLimitAtMost`,
speaks of those that were told their count.

**OrderBook** and **Orders.** `OrderBook` is what a client may rely on: an order
is for ever its opener's; services are added one per request, by the owner, only under
ids that are `vouched` for at that moment; a book that does not last may be forgotten as
a whole. `Orders` does this in up to five steps per request (find, check the owner and
the body, GET to the catalog, insert, fetch). `build`, chosen at the start, is the build
that runs: `memory` (lab2), `postgres` (lab3: `BIGINT` ids with a foreign key), `mixed`
(lab4, lab5: `TEXT` ids, the services in MongoDB) or `mongo` (`-DUSE_MONGODB`). In
memory a call is atomic under the lock and a restart loses everything; elsewhere the
insert and the fetch are separate, and a listing fetches one order after the other;
over MongoDB its cursor may read orders opened meanwhile too (`Later`).

A `service_id` is a text that the client sends, and the code turns it into two other
things. It is put into the URL of the catalog unescaped (`orders_handler.cpp:141-142`),
so with a `?`, a `..` or more digits the URL may be that of a service with another id, or of
a page that is no service's (`Elsewhere`), and is answered 200: `Target` says which,
`Offered` are the texts with a 200. And over PostgreSQL with the foreign key the number
at the start of the text is stored (`std::stoll`, `storage.cpp:90`): `Number`, `Stores`.
If it throws, or the number is no service's, the client gets a 500 (`Violates`); that
can happen in lab3, after a look-up that failed or was answered for another URL. `excused` is
the history of the texts that an error of the catalog other than 404 let in.

Over MongoDB `FindById` and `AddService` catch every failure and return `nullopt`: the
first is answered as a 404 (`"caught"`), and `OrderServicesHandler` dereferences the
second (`orders_handler.cpp:154`). `DereferenceNull` is undefined behaviour: the process
dies or the answer is any garbage (`"garbage"`). `Book == INSTANCE OrderBook WITH ...`
maps each request under way to a pending `ask` for what it is going to store, and takes
`Offered` and `excused` for what is vouched for: texts, that is, of which the catalog
said 200 or an error, not services that exist (see `ServicesExist`).

**UserRegistry**, **Users** and **NameMask.** `UserRegistry` is what a client may rely on:
an account is opened under a login that was free at a moment of the request, and is
free still where logins are unique; it never changes; an answer is true at a moment of
the request, except that a registry that reads its users one after the other lists all
there were when the read began and, of those who came since, any, and that one with a
cache may say of a login that nobody has it; one that does not last may lose all at
once. `Users` does this in several calls.
`Registry == INSTANCE UserRegistry WITH ...` takes the rows for the accounts and, as
the answer of a task, what it has found and acts upon (`Said`): a registration first
answers itself that its login is free and then opens the account, which a failure may
keep from the client. Registration (rate limit, FindByLogin, Create), login
(rate limit, FindByLogin, token) and queries, in lab5 with the cache of
`user:login:{login}`; `build` is `memory`, `postgres`, `mongo` or `cached`
(PostgreSQL with Redis). Only the table of PostgreSQL makes logins and emails
UNIQUE (`Violates`); the storage in memory has an index, `login_to_id_`, that a
second user of a login takes over (`byLogin`, kept apart from `users`), and over
MongoDB `FindByLogin` returns any of the documents (`OneOf`). Listings over MongoDB, all
of the users or those a mask finds, come from a cursor without a snapshot, as in the
catalog: `AllFind` and `MaskFind` send the find, `AllFetch` and `MaskFetch` drain it, and
a user stored meanwhile is found or not (`storage.cpp:152-173`). The history `raced` has
the logins stored while another request was about to store them. The
verdict of the rate limiter is left open here (`RateLimit`): `RateLimiter` says
which it is. A missing email is the empty string, which is one email for
`UNIQUE (email)`. `NameMask` says what a mask finds in a name: a substring with the
case of single bytes folded (memory: a Cyrillic letter is two bytes and keeps its
case), `LIKE` with `lower()` of both sides, its wildcards `%` and `_` and the backslash
that escapes what follows it (PostgreSQL), a regular expression with the option `i`
(MongoDB), where a mask that is none throws. A name is a sequence of a few characters
that stand for the kinds there are. Of regular expressions the dot is modelled, and the
parenthesis that alone is none; what a mask with any other operator finds (`Operators`:
`$` for `$ ^ * + ? [ ] { } ) |`, and the backslash), or whether it throws, is left
open: `Matching` lets it be any logins, `Refused` lets it be a 500.

**Delivery** and **EventBus.** In `Delivery` nothing is promised of a message that is
sent, which may be lost unnoticed, unlike what `event_driven_design.md:185` says (see
`events_loss` under "Findings"); once accepted it is owed to every queue that wants it
until the queue's consumer has handled it; it may be handled again only while it is
owed. `Delivered == INSTANCE Delivery WITH ...` takes what the broker has read
(`routed`) for what is accepted, and the content of a queue for what is owed (`Owed`):
an unacknowledged message stays there, so that a redelivery is a second `Handle` and the
acknowledgement is the `Discharge`. `queue[q]` holds unacknowledged messages too; with
`prefetch_count=1` at most one is out per connection. A lost connection shows to the
consumer when it next uses it (`ConsumerRetry`), so a consumer may finish its handler
over a dead connection. The broker notices at once, or keeps the connection half-open
(`half`) with the message it holds (`held`) until heartbeats are missed (`heartbeat=600`
in `consumer.py`); meanwhile the consumer is back and is given later messages: `strayed`
records which messages were so held. The producer's `wire` is what it has written and
the broker has not read; a fault loses it (`ProducerLost`), the end of a cycle does not,
since `close()` flushes. `fact` gives each message the entry of `EVENTS` it was made
from, for a producer that starts its list over after a failure publishes the same facts
under new ids. `Route` is the broker's reading of a message and its writing to disk
together: a message that a crash of the broker catches between the two counts as not
read, and is lost with the wire by `BrokerRestart`, which keeps durable queues and
persistent messages. Since the producer uses no publisher confirms this matters: such a
message may be lost. What this leaves out is only that the broker may have delivered it
before it crashed.

## 3. The runs

| run | instance | shows |
|---|---|---|
| `catalog_list` | each build, list and create, 2 requests, 2 services, all faults | `StaleOnlyWhenMissed`, `AnswerExplained`, `MissIsFresh`, `DisagreementNeedsAScan`, implements `ServiceCatalog` |
| `catalog_live` | each build, all requests, 2 at a time, 1 service, all faults, fair | `NotFoundIsTrue`, `StaleListEnds`, `NoStaleListReturns` |
| `rate_window` | 2 requests, limit 2, window 1 s of 3 ticks, all faults, fair | `CounterExpires`, `TwiceTheLimitAtMost`, `ResetCoversTtl`, `WindowIsFixed`, `WindowEnds` |
| `orders_add` | each build, 2 requests, 2 clients, 1 order, the id of a service and another text that makes a URL of it, failures of storage, catalog and process, any catalog status | `ToldStays`, `AnswersBetween`, `OrderNotFoundIsTrue`, `AddedIsShown`, implements `OrderBook` |
| `users_auth` | each build, 2 requests, 2 users, 2 logins and passwords, 1 email and none, 3 masks, complete bodies and not, failures of storage and process | `TwoUsersNeedARace`, `TokenNamesOwner`, `RegistrationsCount`, implements `UserRegistry` |
| `users_query` | each build, 1 user, 2 logins with names that share letters, 17 masks, queries by login (in lab5 through the cache), all faults, fair | `QueryAnswersTrue`, `MaskFindsAll`, `MaskFindsOnly`, `RegisteredIsFound`, `NoDenialReturns` |
| `events_queues` | 2 queues, 3 messages, the last of a second cycle, 2 faults, fair | `RoutedIsKept`, `HandledInOrder`, `RepeatsNeedFaults`, `LossIsTheEnd`, `LossNeedsAFault`, `RepublishedByFaults`, `QueuedIsHandled`, implements `Delivery` |

Each of them checks `TypeOK` too, but `catalog_live` and `users_query`,
whose modules another run checks it for. Five more runs find a
violation each: see "Findings".

**Bounds.** Two requests at a time are enough for every race here: each is between one
request that has looked and one that changes what it looked at, and in between the
second runs to its end as often as it likes, since tasks are reused (the number of
requests in a behaviour is not bounded). Two services are what a list needs for one of
them to be missing, or for two lists to disagree. With two orders the states of
`orders_add` are too many; `AnswersBetween` speaks of one order at a time, and
`AnswersHold` proves it for any number. `OrderIds` and `UserIds` bound how many orders
are opened and users registered; `RequestOpen` and `RequestRegister` see to it that a
request finds an id free. In `RateLimiter` the counter stops at `MaxCount` (limit + 1),
beyond which nothing tells counters apart; `recent`, the ages of those let in, is
bounded by the property about it. Three ticks to a second are the fewest for which TTL
is rounded both down (one tick, to 0) and up (two, to 1) and a window of one second is
the shortest the code admits. In `EventBus`, `MaxIds` bounds the messages (one more than
the `EVENTS` of the instance, so that a second cycle begins) and `MaxFaults` the
failures: one can hit a message, and one its redelivery. Queries by mask run in
`users_auth`, with a mask of each outcome; what a mask finds depends on the rows alone,
so `users_query` only evaluates it in each state. Its masks have between them every
character of `NameMask`, wildcards alone and beside a letter, on one name and on both;
the names have the letters in either case and wildcards, a backslash and an operator
that stand for themselves; the masks have the backslash before each kind of character,
itself included. One user is enough there for a stale cache, since two logins ask for
him and for nobody. `users_auth` has no failures of Redis, which there decides only who
is limited, and that is left open with or without them; `users_query` has them all, and
the theorems speak of both. `catalog_list` has no GET by id, which would make it too
large with two services: for it the run `catalog_live` checks `NotFoundIsTrue`, and that
it implements `ServiceCatalog` is proved.

**Symmetry** is used for tasks, and for services, orders, clients, users and logins
where the specification treats them alike; never in a run with a temporal
property, but for the implementations of `OrderBook`, `UserRegistry` and `ServiceCatalog`,
whose own specifications are symmetric in the same sets and have
no fairness.

**Fairness.** `WF(Handle(t))`: the coroutine scheduler runs every ready coroutine,
and every call to a storage or Redis returns or throws. `WF(Tick)`, `WF(Expire...)`:
time passes, and Redis expires keys. `Expire` needs no strong fairness: a key
with a TTL expires whether or not it is read, and a key set again gets a new TTL
and is another copy, so the fair expiry removes *some* copy again and again, while
staleness ends because, once all DELs and fills of before a write are over, every
new copy is fresh. Requests and faults are never fair. In `EventBus` both scripts
retry for ever (`while True` around their connection) and the broker delivers, so
`WF(Consume(q))` and `WF(Route)`, and it looks for missed heartbeats, so
`WF(HeartbeatMissed(q))`; failures are finitely many there because with
failures for ever no message need ever be handled. Publishing is not fair.

**Assumptions of the models.** A malformed order id is a 500 over PostgreSQL and a
404 elsewhere and changes nothing, so it is not an id; over PostgreSQL an order id in a path
stands for the number that `std::stoll` reads in it. The catalog keeps its services
(`CatalogCreates` only adds): all but the one in memory do. Ids of a listing come in any
order. A queue has one half-open connection at a time. What the producer has written
is lost at once when its connection is. The queries of PostgreSQL that ask for a
replica (`kSlave`) get the only host there is.
A restart of Redis loads the RDB file or nothing (no AOF is configured). A
transaction or statement that throws may have been carried out.

## 4. Proofs

Proved by TLAPS for every value of the constants (tasks, services, orders, limits,
windows, clocks), whatever the faults unless said:

* `CatalogCacheProofs`: `TypeCorrect`; `StalenessHasACause` and
  `AnswersAreExplained` from the invariant `StaleInv`: every copy, wherever it is
  (key, RDB file, hands of a request), lacks an acknowledged service only if it
  was missed by that service's DEL. It is needed because a copy moves: the key's
  staleness is that of the RDB file or of a fill in flight some steps before.
  `MissesAreFresh` from a copy read being at least as new as the request.
  `ListsDisagreeByScans` from `ScanInv`: every list is stored, and of any two either one
  contains the other or they differ by services in `scanned` only. The induction needs
  that what is stored only grows, that a new list has all of it but for what was stored
  while the cursor was open (`NewListAgrees`), that no other step makes a list
  (`NoNewLists`), and that a restart of the build in memory, which has no cache
  (`NoCache`), leaves none behind.
* `CatalogCacheProofs` also has `NotFoundHolds`: a miss of `service:{id}` goes on to
  MongoDB, where what was acknowledged is.
* `CatalogCacheProofs`, the refinement: `ImplementsServiceCatalog`, for every build,
  from `CatalogInv`, which joins `StaleInv`, `ScanInv` and that every document in Redis,
  its RDB file or about to be put there is stored (`DocsInv`). Each step is then a read
  that fixes one answer or begins or ends a scan (`ListStepsAnswer`, `DocStepsAnswer`), an
  insertion (`InsertPublishes`), an end of requests (`RespondFinishes`,
  `RestartForgetsOrFinishes`) or changes nothing that is promised (`QuietStep`: a `DEL`, a
  fill, all that Redis does, none of which makes a list that was not kept before:
  `KeptLists`, `KeptShrinks`).
* `CatalogCacheProofs` also has `StalenessIsOver`, an action property: once no list without
  a stored service is left in Redis, its RDB file or the hands of a request, no step
  brings one (`StepBringsNoStaleList`): all lists but those read from MongoDB are
  copies of copies.
* `RateLimiterProofs`: `TypeCorrect`; `CounterHasTtl` from `ExpiryInv` (a counter
  without a TTL is one that slipped, or the one request that made it holds the mutex
  and is about to send EXPIRE); `ResetCovers` from `ResetInv` (no request is marked
  refused while the counter has no key, and the reset covers the TTL), on lemmas on
  division that bound the error of rounding to seconds. `TwiceTheLimit`, of
  those that Redis told their count, from
  `WindowInv`: those let in of late are some of earlier windows, at most `Limit` and
  each old enough to be forgotten when the key's TTL ends, and those of the window of
  the key, at most as many as it has counted, the request that holds the mutex
  included. `WindowStaysFixed`, an action property, from `NewKeyHasNoTtl`: a request
  about to send EXPIRE is one whose INCR made the key, so no TTL is there that its
  EXPIRE could prolong.
* `OrdersProofs`: `InvariantHolds`, and from its `OrdersInv` `TypeCorrect`,
  `WhatIsToldStays`, `NotFoundHolds`, `AdditionsAreShown` and `AnswersHold`, for
  every build. `OrdersInv` says of each place in a handler what has been found out
  of the request (`CallOK`: an order is its opener's for ever, so the owner's check
  stays true across the call to the catalog) and of a listing under way that it
  has, or has still to fetch, all that was known when it arrived (`FetchingOK`):
  `AnswersBetween` speaks of the end of a loop, so it is not inductive by itself.
  `OthersKeep` proves once that a step by another task, which can only add orders
  and services, disturbs none of this, so each action's lemma is about its own task.
* `OrdersProofs` also has, from `BookInv` (a request about to insert has a text that the
  catalog answered 200, or with an error; over PostgreSQL with the foreign key what is
  stored is a service), `IdsChecked`: for every `service_id` in an order the catalog
  answers 200, unless an error once let it in (`IdsAnswered`). That the service *exists*
  (`ServicesExist`) takes more: the foreign key of lab3 (`ForeignKeyHolds`, for any texts
  and errors), or, without it, that the catalog gives no error but 404 and that no text
  makes the URL of another page (`ServicesChecked`); the code sees to neither of these,
  and the run `orders_errors` refutes it for the first. `ImplementsBook`, the refinement of
  `OrderBook`, assumes neither.
* `UsersProofs`: `Invariance`, and from its `UsersInv` `TypeCorrect`, `RaceNeeded`,
  `TokensNameOwners`, `RegistrationsHonoured` and `QueriesTrue`, for every build.
  `UsersInv` says of the rows that a stored user has a login and a password (`RowsOK`)
  and that two share a login only if it was raced and nothing makes it UNIQUE
  (`SharedOK`); of the index in memory that it leads to an owner of the login
  (`IndexOK`); of each cached or saved answer that it has only owners of its login
  (`CacheOK`); of the histories that they are borne out by the rows (`ToldOK`, `CredsOK`);
  and of each task what has been found out at its place (`TaskOK`): one about to
  store a user found the login free, and if it no more is, it was raced.
  `UniqueLogins`, assuming that only builds over PostgreSQL run, is
  `OneUserPerLogin`; the run `users_memory` shows that the assumption is needed.
* `UsersProofs` also has `MasksFindAll` and `MasksFindOnly`, for names and masks of any
  length: a mask finds every name it stands in unless it has a character by which its
  storage hides names (`Hiding`: Cyrillic letters in memory, the backslash over
  PostgreSQL, operators of regular expressions over MongoDB), and nobody else unless it
  has one that stands for others (`Wildcards`). A cut of the text that `LIKE` admits for
  `%mask%` and a place where the mask stands in the name are made one from the other
  (`SqlFinds`, `SqlFindsOnly`). Where this takes induction it is done with a set of
  counterexamples and its least element (`Least`), since the theorems of induction
  cannot be instantiated.
* `UsersProofs`, the refinement: `ImplementsUserRegistry`, for every build and all
  faults, from `UsersInv`. A task's step fixes one answer (`AnswerStep`; that the answer
  is true follows from `RowsOK` and `IndexOK`, and of the cache's from `CacheOK` and,
  that it names the one owner, `SharedOK`) or ends a scan (`ScanStep`), opens an account
  (`StoreOpens`: where logins are UNIQUE, `Violates` has just seen that this one is
  free), gives up or ends its answer (`FinishStep`), or changes nothing that is promised
  (`QuietStep`).
* `UsersProofs` also has `DenialIsOver`, an action property: once nothing denies a login
  somebody has (a key, its copy in the RDB file, a query about to Set), nothing denies it
  again.
* `EventBusProofs`: `Typing`, `WireInvariant` (the wire holds the last messages
  published, in order, and the broker has read all of the running cycle but them)
  and `QueueInvariant` (a queue is in order, all in it comes after all that was
  handled, but for what strayed, and a connection's message is in it until it is
  acknowledged, after its handler has run); from these
  `NothingRoutedIsLost`, `OrderIsKept` and `LossIsAtTheEnd`. `LossIsPaidFor`,
  `RepeatsArePaidFor` and `RepublicationIsPaidFor` count: each inductive invariant
  bounds a set's cardinality by `faults`, with one more where a failure has been
  paid for and its effect is yet to come. `DeliversAtLeastOnce`, the refinement of
  `Delivery`, comes from the same invariants: what the broker reads is later than all
  it has read (`RouteAccepts`), and a consumer handles only what is in its queue, also
  over a connection that is dead (`ConsumerStepDelivers`).

Only model-checked: liveness (`StaleListEnds`, `WindowEnds`, `RegisteredIsFound`,
`QueuedIsHandled`), which is beyond the prover. What of each is safety is proved:
staleness never begins anew (`StalenessIsOver`, `DenialIsOver`), the window never moves and
its counter has a TTL (`WindowStaysFixed`, `CounterHasTtl`), and what is queued stays
until it is handled (`NothingRoutedIsLost`, `DeliversAtLeastOnce`). What only a run shows
is that expiry and the consumers, which are fair, get there.

## 5. Findings

Each is a run that TLC refutes; `PROJECT.json` quotes the document and the line.

| run | what the code does |
|---|---|
| `catalog_race` | a list read before a POST is cached after its DEL (`services_handler.cpp:67`) |
| `rate_stuck` | one failed command leaves the counter without TTL, and the client refused for good (`redis_cache.cpp:121`) |
| `orders_errors` | any catalog answer but 404 lets a service through (`orders_handler.cpp:146`) |
| `events_loss` | a published message that the broker had not read is lost with the connection: no publisher confirms (`producer.py:108`) |
| `users_memory` | in memory, two registrations of one login both succeed (`auth_handler.cpp:74` of lab2) |

Met while modelling too, as behaviours of the models that the properties name or
allow, without a run of their own:

* a DEL that fails is ignored and the old list served (`redis_cache.cpp:91`; `missed`);
* a MongoDB failure in `FindById` is a 404 (`storage.cpp:143` of the catalog, `:171` of
  the orders; `"caught"`);
* a refusal in the last half second of a window announces a whole window
  (`redis_cache.cpp:132`; `ResetCoversTtl` bounds the reset by the window only);
* over MongoDB a failed addition dereferences an empty optional
  (`orders_handler.cpp:154`; `DereferenceNull`);
* only one user can leave out the email (`auth_handler.cpp:79`; `Violates`);
* over PostgreSQL the loser of two registrations of a login gets a 500, not a 409
  (`auth_handler.cpp:101`);
* "no such user" is cached for 30 s and outlives a registration
  (`users_handler.cpp:72`; `RegisteredIsFound` says that it ends);
* over MongoDB nothing makes a login unique, and two registrations at a time both
  succeed as in memory (`storage.cpp:189` of the users; `TwoUsersNeedARace`);
* in memory a mask of Cyrillic letters finds only names in the same case
  (`storage.cpp:197`; the `must` of `Promises`); over PostgreSQL a backslash in a mask escapes
  what follows, and over MongoDB operators of regular expressions do not stand for
  themselves, so that the masks `a\b` and `$b` do not find the names they stand in
  (`storage.cpp:78-85`, `:165-167`; `Hiding`); and over PostgreSQL and MongoDB the wildcards of
  `LIKE` and of regular expressions find more than the mask (its `may`), or nothing but a
  500 (`Compiles`);
* in memory a token outlives the ids it speaks of: after a restart its `sub` is the
  next user who is given that id (`jwt.cpp:71`; `TokenNamesOwner` speaks of one life
  of the process);
* a redelivered event is handled again, whatever its `event_id` (`consumer.py:45`), where
  `lab6/README.md:129` says that duplicates are cut off by it; `RepeatsNeedFaults` bounds how
  often;
* a `service_id` such as `<id>?x` or `..` is looked up at the URL it makes, which is
  answered 200, and stored as it is: with `TEXT` ids the order then has a service that does
  not exist (`orders_handler.cpp:141-142`; `Offered`, `ServicesChecked`); over PostgreSQL
  with the foreign key its number is stored, or the client gets a 500 (`Violates`);
* a list read over MongoDB while services are stored may have a later one and not an
  earlier one, and be cached so (`storage.cpp:124-131` of the catalog; `ListFetch`,
  `DisagreementNeedsAScan`); likewise the listings of users (`storage.cpp:152-173`);
* while Redis fails, logins and registrations are not limited at all
  (`redis_cache.cpp:108-119`), which is what `performance_design.md` means by fail-open;
* with `heartbeat=600` a half-open connection keeps its message back while the consumer
  is given later ones (`consumer.py:68`; `strayed`).

## 6. Not modelled

Formats, headers, passwords' hashing and the wording of answers: no property is about
them. Of the JWT the signature and the expiry after 24 h: `Users` models what a token
says and whom it is given to, `Orders` starts from its claims or their absence. The
email endpoint keeps no state: it makes one call to Unisender and passes on what comes
back. `UserStorage::FindById` is called by no handler. A Redis that accepts commands and
never answers: `redisCommand` has no timeout, so the request holds `mutex_` and its
worker thread, and with two worker threads a second such request stops the service; the
models let every command come back. The schemas' constraints appear where a handler can
meet them: `UNIQUE`, primary keys, and the `FOREIGN KEY` of `order_services` to the
services in lab3, which an addition violates after a look-up that failed or was answered
for another URL (`Violates`); those of clients and providers cannot be violated, since
the ids come from tokens and users are never deleted. nginx, compose files, diagrams and
Swagger have no state; the restarts compose causes are actions. The tests were read for
what they say of the code.

## 7. Plan

Done in this order, the most important behaviour first: `CatalogCache`,
`RateLimiter`, `Orders` with its abstract specification, `Users` with `NameMask`,
`EventBus` with half-open connections; each with its proofs; then the abstract
`Delivery`, `ServiceCatalog` and `UserRegistry` and the proofs that the modules implement
them. Left:

1. A silent Redis: two worker threads, the mutex and a Redis that does not answer,
   against `performance_design.md:215`, by which requests then go to the database.
2. `Marketplace`: users, catalog and orders composed, with tokens of 24 h and ids
   that the builds in memory give again after a restart.
3. The expiry of a token at its boundary.
