# Arc Relay in TLA+

TLA+ models of Arc Relay, checked by TLC on small instances and proved with
TLAPS for all values of the constants. Every definition is a translation of Go
code; `PROJECT.json` gives the lines it stands for, the runs, the mutants that
show each property can fail, the findings, the hazards and the theorems.

## The system

One process (`cmd/arc-relay`) puts MCP servers behind a gateway. Requests come
in over HTTP, are authenticated, pass a middleware pipeline and go to a backend:
a container spoken to over stdio, a container or service spoken to over HTTP, or
a remote service. State is in two SQLite databases; everything else is in memory
and lost with the process. A command line client (`cmd/arc-sync`) keeps project
configuration, skills and recorded conversations in step with the relay.

| Part | State | Operations that change it | What makes it hard |
|---|---|---|---|
| Archive queue and dispatcher | `archive_queue`, circuit breaker, wake-up channel | enqueue, drain, retry, clear, retarget, test | snapshot without lock, crash between send and delete, backoff, breaker against admins |
| Proxy manager | backends, containers, `servers.status` | start, stop, recreate, rebuild, delete, boot, shutdown | one mutex through Docker operations, scripts of several critical sections |
| Health monitor | failure counts, attempts, cooldown, `servers.health` | probe, mark, recover, on-demand check | stale snapshot, writes after a slow ping, goroutines racing users |
| Stdio bridge, remote proxy | pending requests, session id | send, read, close, re-initialise | answers out of order, close during a send |
| OAuth manager | tokens, pending states | authorise, callback, refresh | concurrent refresh, rotation |
| Endpoints, access tiers, profiles | cache, tiers | enumerate, classify, filter | enumeration against stop |
| Middleware pipeline | configuration | process, save | inheritance, early stop |
| Memory ingest and watcher | sessions, messages, client offsets | scan, send, insert | lost answers, restarts, duplicates |
| Memory extraction | watermarks, queue | enqueue, extract, sweep, poison | retries, workers, rate limit |
| Device auth, OAuth provider, invites, handoff nonces | codes, tokens | create, approve, consume, expire | consumed once, expiry against use |
| Skills, recipes, upstream checker | versions, assignments, drift | publish, yank, assign, check | latest pointer, concurrent publish |
| Client sync, file safety, backup | files | write, rename, rotate | crash between steps |

`PROJECT.json` lists every part with its sources and says which are modelled.

## Modules

### Archive

`ArchiveQueue` is the `archive_queue` table: a row per message with status,
attempts, time to wait and destination, and one operator per store method, each
one SQL statement and so atomic. `ArchiveDispatcher` is everything that works on
the table: the delivery loop of `archive_dispatcher.go` with a program counter
(`idle`, `gate`, `fetch`, `decrypt`, `item`, `settle`, `count`), the breaker's
fields, the one-token channel `pollCh`, the pipelines that enqueue under the
config they were built with, the dashboard's handlers as scripts of store calls,
and the process stopping, crashing and starting. Time is relative: `Tick` ages
rows and the open circuit. Payloads are message names; a destination is a URL
with a credential. `batch` is the snapshot a drain works from, and no lock
protects it.

`ArchiveContract` is the promise: a payload is kept until some receiver took it
or an admin discards it after it was held. `KeepsContract` is the contract under
a refinement mapping.

### Servers

`ServerLifecycle` is the proxy manager and the health monitor. Each goroutine
(a request, a recovery, the monitor reconnecting in place, start-up, shutdown)
has in `job` the manager calls it still has to make. `StartServer` and
`StopServer` are two steps each: taking the mutex, and finishing with one of
their outcomes; the mutex is free between the calls of a script. The monitor's
cycle is a snapshot of rows (`visiting`), a probe in three steps (`probe`) and
writes that take no lock. `status` keeps the deleted rows as `"deleted"`, which
no update changes. Docker is a set of servers with a container, left alone by a
crash. `Stateless` servers (remote, external HTTP) have none; `GitBuilt` servers
take the build path through `buildFromGitRepo`.

Six variables are history: `failed`, `stopAsked`, `quiet` and `written` here, `accepted`
and `unseen` in the dispatcher; no guard of the code's actions reads them.

Left out of this module: the endpoint cache and its enumeration goroutines, and
failing status writes (the code ignores their errors).

## Runs

| Run | Instance | Shows |
|---|---|---|
| `archive_batch` | 2 messages, batch of 2, 2 URLs, 1 admin, 1 disruption | `TypeOK`, `BatchDue`, `OpenMeansNoDrain`, `NoLostWakeup` |
| `archive_disruptions` | 1 message, 3 disruptions | `BreakerCoherent`, `KeepsContract` |
| `archive_liveness` | 2 messages, batch of 1, 1 disruption | `EventuallySettled`, `CircuitRecovers` |
| `archive_stranded`, `archive_rewrite` | 1 message, 2 URLs or 2 credentials | two comments the code does not live up to |
| `server_container` | 1 container server, 2 concurrent requests, 2 requests, crashes or shutdowns in all | `TypeOK`, `MapsAgree`, `RunningIsServed`, `GivesUp` |
| `server_remote` | 1 remote server, 2 concurrent requests, 3 in all | `RunningIsServed`, `GivesUp` |
| `server_liveness` | 1 container server, 1 request at a time, 2 in all | `ErrorIsActedOn`, `HealthSettles`, `ShutdownEnds` |
| `server_cooldown`, `server_budget`, `server_stop_undone`, `server_stuck_starting` | 1 server, 1 request at a time | four statements of comments and docs that the code does not live up to |

A disruption is a restart, a store error or an admin request. Bounds: two
messages are enough for one to be overtaken or starved by another, and a batch
of two for a failure in the middle of a drain; backoff and pause tables of two
entries reach their end; a threshold of two tells the first failure from the
last. For servers, two concurrent requests with the monitor and a recovery give
four goroutines at one mutex; with the start at boot, two or three requests
include start, stop and start again around a crash. `GivesUp` is tight: the bound `maxRecoverAttempts`
without the extra one is violated, by a user's restart during a recovery.
Servers meet only at the mutex and in the monitor's loop, where another server
only adds delay, so one server is used.

Requests, crashes and signals are limited by `MaxRequests` and `MaxDisruptions`;
`failCounts`, `since` and `quiet` saturate at the value they are compared with.

### Fairness

Weak fairness for what a running goroutine, Go's timers and finite Docker, HTTP
and SQL calls guarantee. Strong fairness where a `select` must not ignore the
stop channel for ever (`LoopStop`) and where shutdown waits for the manager's
`RWMutex`, which starves nobody. No fairness for requests, crashes, signals,
failing or succeeding sends, starts and pings.

## Findings

- A retarget during a drain does not reach the items already read.
- `RewriteHeldDelivery` skips rows whose URL is unchanged, so a new credential
  does not reach held rows.
- A successful recovery clears the cooldown, so there is no minimum time between
  attempts.
- A start through the API does not renew the recovery attempts.
- A stopped server can be started by the monitor: a failed rebuild, or a probe
  that fails after the stop, puts it in error.
- A git build without a temporary directory leaves `starting` for ever.

The models also show, without a run of their own: a send in flight during a
retarget reschedules with the old attempt count; the monitor's loop waits for
the mutex while a recovery goroutine holds it; after a crash the monitor can
mark a server stopped that the auto-start has just brought up; a delete that
races a start leaves a container without a row.

## Proofs

`ArchiveDispatcherProofs` proves, for every set of messages, URLs, credentials
and admins and every threshold and table, `TypeCorrect`, `BatchStaysDue`,
`OpenCircuitSendsNothing`, `BreakerStaysCoherent`, `WakeupsAreKept` and
`ImplementsContract`. The assumptions are the named ones of `ArchiveQueue` and
`ArchiveDispatcher`: the tables are functions into the naturals and the
thresholds are positive. The inductive invariant is

    Inv == TypeOK /\ DrainShape /\ BatchDue /\ OpenMeansNoDrain
             /\ BreakerCoherent /\ AcceptedIsTrue

`DrainShape` ties the program counter to the batch and the outcome (an outcome
only between send and count, a batch only within a drain); without it a settle
step could touch a row that is not in the batch. `AcceptedIsTrue` says that a
send recorded as accepted was accepted, which the contract's `Complete` needs.
The refinement is one step per action: each is a contract step or a stutter.
`NoLostWakeup` is inductive by itself.

`ServerLifecycleProofs` proves, for any number of servers of each kind and of
concurrent requests and for all thresholds, `ServerTypeCorrect`,
`MapsStayEqual` and `RunningStaysServed`, from `ServersAssumption` (only
container servers are built from git) and `CallersAssumption` (requests, monitor,
recoveries, start-up and shutdown are different goroutines). The inductive
invariant is

    Inv == TypeOK /\ HolderInside /\ MonitorScripts /\ MapsEqual /\ Served

`HolderInside` says that the mutex is held only by a goroutine inside a start or
stop, and that a start holds it only for a server without a backend: so a start,
which removes the old container of that name from Docker, never removes one the
manager still counts on. `MonitorScripts` says which
calls the monitor can have left and that it reconnects stateless servers only;
nobody else drops a backend, which is why a drop never separates the two maps.
`Served` narrows the exception in `RunningIsServed` from "the monitor is busy
with the server" to "the monitor is at its start of the server": that is the
only moment when the monitor has dropped a backend and not yet written a status.
`MapsEqual` holds at every step, not only while the mutex is free. `GivesUp` is
not proved: it needs the order of a recovery's attempt, failure and reset.

Only model-checked: liveness, and the violations.

## What is left

In this order: the stdio bridge; memory ingest and watcher, then extraction; the
OAuth manager and the remote proxy; endpoint cache, access tiers and the request
path; the middleware pipeline; codes and nonces that are consumed once (device
authorisation, OAuth provider, invites, handoff); skills, recipes and the
upstream checker; client sync, file replacement and backup rotation. Each gets a
module with named parts of its invariant, an MC instance, and proofs where an
invariant spans several actions. Single-use codes share an abstract module that
each store refines. Not planned: rendering, text transformation, cryptography,
command line parsing, configuration parsing.
