--------------------------- MODULE ServerLifecycle ---------------------------
(***************************************************************************)
(* The MCP servers behind the relay: the proxy manager of                  *)
(* internal/proxy/proxy.go that starts and stops them, the health monitor  *)
(* of internal/proxy/health.go that probes and recovers them, the request  *)
(* handlers that let people start, stop, recreate, probe and delete them,  *)
(* and the process starting up, shutting down and crashing.                *)
(*                                                                         *)
(* Every goroutine runs a short script of manager calls.  StartServer and  *)
(* StopServer hold the manager's mutex from beginning to end, Docker       *)
(* operations included, and nothing is held from one call of a script to   *)
(* the next.  Status writes of the monitor take no lock at all.            *)
(***************************************************************************)
EXTENDS Integers, Sequences

CONSTANTS
  Servers,
  Stateless,           \* remote and external HTTP servers: no container
  GitBuilt,            \* stdio servers whose image is built from a git clone
  Users,               \* concurrent requests
  failThreshold, maxRecoverAttempts,
  recoveryCooldown,    \* in ticks
  MaxRequests,         \* bound: user requests, crashes and shutdowns
  free                 \* nobody holds the manager's mutex

ASSUME ServersAssumption ==
  /\ Servers # {} /\ Stateless \subseteq Servers /\ GitBuilt \subseteq Servers \ Stateless
  /\ failThreshold \in Nat \ {0} /\ maxRecoverAttempts \in Nat \ {0}
  /\ recoveryCooldown \in Nat /\ MaxRequests \in Nat
ASSUME CallersAssumption ==
  /\ free \notin Servers \cup Users \cup {"monitor", "boot", "shutdown"}
  /\ Servers \cap (Users \cup {"monitor", "boot", "shutdown"}) = {}
  /\ Users \cap {"monitor", "boot", "shutdown"} = {}

VARIABLES
  status, health,      \* the columns of the servers table
  backend, container,  \* the manager's maps backends and containers, as sets of keys
  docker,              \* servers with a container in Docker
  mutex,               \* the goroutine inside StartServer or StopServer
  job,                 \* what each goroutine still has to do
  failed,              \* history: recoveries failed in a row
  queue,               \* servers main has yet to start, and to stop at shutdown
  visiting,            \* rows of the monitor's cycle not yet visited, as listed
  probe,               \* the monitor's probe in progress
  failCounts, recoverAttempts,
  since,               \* time since lastRecover; recoveryCooldown when unset
  phase,               \* "up", "closing" (signalled) or "stopping" (StopAll)
  requests,
  stopAsked,           \* history: a user's stop was carried out and nobody asked to start since
  quiet,               \* history: time since a recovery attempt began
  written              \* history: rows whose status this process has written

rowVars == <<status, health, written>>
jobVars == <<job, failed>>
mapVars == <<backend, container, docker>>
monVars == <<visiting, probe>>
recVars == <<failCounts, recoverAttempts, since, quiet>>
procVars == <<phase, requests, stopAsked>>
vars == <<rowVars, mapVars, mutex, jobVars, queue, monVars, recVars, procVars>>

\* The recovery goroutine of server s is called s.
Callers == Users \cup Servers \cup {"monitor", "boot", "shutdown"}
Steps == {"stop", "start", "fetch", "drop", "reset", "remove", "image", "get", "probe"}
Statuses == {"stopped", "starting", "running", "error", "deleted"}
Healths == {"unknown", "healthy", "unhealthy"}

AnyServer == CHOOSE s \in Servers : TRUE
NoJob == [srv |-> AnyServer, todo |-> <<>>]
NoProbe == [srv |-> AnyServer, at |-> "none"]
NoRows == [s \in {} |-> 0]

TypeOK ==
  /\ status \in [Servers -> Statuses] /\ health \in [Servers -> Healths]
  /\ backend \subseteq Servers /\ docker \subseteq Servers \ Stateless
  /\ container \subseteq Servers \ Stateless
  /\ mutex \in Callers \cup {free}
  /\ job \in [Callers -> [srv : Servers, todo : Seq(Steps)]]
  /\ failed \in [Servers -> Nat]
  /\ queue \in [{"boot", "shutdown"} -> SUBSET Servers]
  /\ DOMAIN visiting \subseteq Servers
  /\ \A s \in DOMAIN visiting : visiting[s] \in [status : Statuses, health : Healths]
  /\ probe \in [srv : Servers, at : {"none", "get", "mark", "ping"}]
  /\ failCounts \in [Servers -> 0..failThreshold]
  /\ recoverAttempts \in [Servers -> 0..maxRecoverAttempts]
  /\ since \in [Servers -> 0..recoveryCooldown] /\ quiet \in [Servers -> 0..recoveryCooldown]
  /\ phase \in {"up", "closing", "stopping"} /\ requests \in 0..MaxRequests
  /\ stopAsked \subseteq Servers /\ written \subseteq Servers

\* A relay that has just started on an empty database and was then given its
\* servers, which are created stopped.
Init ==
  /\ status = [s \in Servers |-> "stopped"] /\ health = [s \in Servers |-> "unknown"]
  /\ backend = {} /\ container = {} /\ docker = {}
  /\ mutex = free
  /\ job = [c \in Callers |-> NoJob] /\ failed = [s \in Servers |-> 0]
  /\ queue = [q \in {"boot", "shutdown"} |-> {}]
  /\ visiting = NoRows /\ probe = NoProbe
  /\ failCounts = [s \in Servers |-> 0]
  /\ recoverAttempts = [s \in Servers |-> 0]
  /\ since = [s \in Servers |-> recoveryCooldown]
  /\ quiet = [s \in Servers |-> recoveryCooldown]
  /\ phase = "up" /\ requests = 0
  /\ stopAsked = {} /\ written = {}

-----------------------------------------------------------------------------
(* Scripts *)

Busy(c) == job[c].todo # <<>>
Doing(c, step) == Busy(c) /\ Head(job[c].todo) = step
Give(c, s, todo) ==
  /\ job' = [job EXCEPT ![c] = [srv |-> s, todo |-> todo]]
  /\ UNCHANGED failed

\* The call returned nil: on to the next one.
Proceed(c) ==
  /\ job' = [job EXCEPT ![c] =
               IF Len(@.todo) = 1 THEN NoJob ELSE [srv |-> @.srv, todo |-> Tail(@.todo)]]
  /\ failed' = IF Doing(c, "reset") THEN [failed EXCEPT ![job[c].srv] = 0] ELSE failed

\* Mutant of Abort: the failed recovery still counts as in progress.
AbortKeepsRecovering(c) ==
  /\ job' = [job EXCEPT ![c] = IF c \in Servers THEN [srv |-> @.srv, todo |-> <<"never">>]
                                                 ELSE NoJob]
  /\ failed' = IF c \in Servers \cup {"monitor"}
                 THEN [failed EXCEPT ![job[c].srv] = @ + 1] ELSE failed

\* The call returned an error: every script ends at its first error.
Abort(c) ==
  /\ job' = [job EXCEPT ![c] = NoJob]
  /\ failed' = IF c \in Servers \cup {"monitor"}
                 THEN [failed EXCEPT ![job[c].srv] = @ + 1] ELSE failed

\* UPDATE servers SET ... WHERE id = ?: a deleted row stays deleted.
SetStatus(s, v) ==
  /\ status' = [status EXCEPT ![s] = IF @ = "deleted" THEN @ ELSE v]
  /\ written' = written \cup {s}
SetHealth(s, v) == health' = [health EXCEPT ![s] = v]

-----------------------------------------------------------------------------
(* StartServer and StopServer *)

StartRefused(c) ==
  /\ Doing(c, "start") /\ mutex = free
  /\ job[c].srv \in backend
  /\ Abort(c)
  /\ UNCHANGED <<rowVars, mapVars, mutex, queue, monVars, recVars, procVars>>

\* Mutant of StartBegin: a server that is already running is started again.
StartBeginUnchecked(c) ==
  LET s == job[c].srv IN
  /\ Doing(c, "start") /\ mutex = free
  /\ mutex' = c
  /\ IF s \in Stateless THEN UNCHANGED <<status, written>> ELSE SetStatus(s, "starting")
  /\ UNCHANGED <<health, mapVars, jobVars, queue, monVars, recVars, procVars>>

StartBegin(c) ==
  LET s == job[c].srv IN
  /\ Doing(c, "start") /\ mutex = free
  /\ s \notin backend
  /\ mutex' = c
  /\ IF s \in Stateless THEN UNCHANGED <<status, written>> ELSE SetStatus(s, "starting")
  /\ UNCHANGED <<health, mapVars, jobVars, queue, monVars, recVars, procVars>>

\* StartContainer removes a leftover container of the same name first.
StartSucceeds(c) ==
  LET s == job[c].srv IN
  /\ Doing(c, "start") /\ mutex = c
  /\ backend' = backend \cup {s}
  /\ docker' = docker \cup ({s} \ Stateless)
  /\ container' = container \cup ({s} \ Stateless)
  /\ SetStatus(s, "running")
  /\ mutex' = free
  /\ Proceed(c)
  /\ UNCHANGED <<health, queue, monVars, recVars, procVars>>

\* Mutant of StartFails: an error path leaves the mutex locked.
StartFailsLocked(c) ==
  LET s == job[c].srv IN
  /\ Doing(c, "start") /\ mutex = c
  /\ SetStatus(s, "error")
  /\ Abort(c)
  /\ UNCHANGED <<health, mapVars, mutex, queue, monVars, recVars, procVars>>

\* The image cannot be built or pulled (a leftover container is untouched), the
\* container cannot be started (the leftover is gone), or it cannot be attached
\* to and stopping it again may fail.  A git clone without a temporary
\* directory returns before the status is set.
StartFails(c) ==
  LET s == job[c].srv IN
  /\ Doing(c, "start") /\ mutex = c
  /\ \/ /\ SetStatus(s, "error")
        /\ docker' \in {docker, docker \ {s}, docker \cup ({s} \ Stateless)}
     \/ s \in GitBuilt /\ UNCHANGED <<status, written, docker>>
  /\ mutex' = free
  /\ Abort(c)
  /\ UNCHANGED <<health, backend, container, queue, monVars, recVars, procVars>>

StopBegin(c) ==
  /\ Doing(c, "stop") /\ mutex = free
  /\ mutex' = c
  /\ UNCHANGED <<rowVars, mapVars, jobVars, queue, monVars, recVars, procVars>>

\* Somebody other than the monitor is going to start s.
WillStart(s) ==
  \/ s \in queue["boot"]
  \/ \E c \in Users \cup {"boot"} :
       job[c].srv = s /\ \E i \in DOMAIN job[c].todo : job[c].todo[i] = "start"

NoteStop(c, s) ==
  stopAsked' = IF c \in Users /\ Len(job[c].todo) = 1 /\ ~WillStart(s)
                 THEN stopAsked \cup {s} ELSE stopAsked

\* Mutant of StopEnd: the status column is not written.
StopEndSilent(c) ==
  LET s == job[c].srv IN
  /\ Doing(c, "stop") /\ mutex = c
  /\ backend' = backend \ {s}
  /\ docker' \in {docker, docker \ ({s} \cap container)}
  /\ container' = container \ {s}
  /\ SetHealth(s, "unknown")
  /\ NoteStop(c, s)
  /\ mutex' = free
  /\ Proceed(c)
  /\ UNCHANGED <<status, written, queue, monVars, recVars, phase, requests>>

\* StopServer succeeds even if Docker does not stop the container.
StopEnd(c) ==
  LET s == job[c].srv IN
  /\ Doing(c, "stop") /\ mutex = c
  /\ backend' = backend \ {s}
  /\ docker' \in {docker, docker \ ({s} \cap container)}
  /\ container' = container \ {s}
  /\ SetStatus(s, "stopped") /\ SetHealth(s, "unknown")
  /\ NoteStop(c, s)
  /\ mutex' = free
  /\ Proceed(c)
  /\ UNCHANGED <<queue, monVars, recVars, phase, requests>>

-----------------------------------------------------------------------------
(* The other calls of the scripts *)

\* servers.Get between StopServer and StartServer.
Fetch(c) ==
  /\ Doing(c, "fetch")
  /\ IF status[job[c].srv] = "deleted" THEN Abort(c) ELSE Proceed(c)
  /\ UNCHANGED <<rowVars, mapVars, mutex, queue, monVars, recVars, procVars>>

\* RetryServer drops the backend in a critical section of its own.
Drop(c) ==
  /\ Doing(c, "drop") /\ mutex = free
  /\ backend' = backend \ {job[c].srv}
  /\ Proceed(c)
  /\ UNCHANGED <<rowVars, container, docker, mutex, queue, monVars, recVars, procVars>>

ResetRecoveryState(s) ==
  /\ failCounts' = [failCounts EXCEPT ![s] = 0]
  /\ recoverAttempts' = [recoverAttempts EXCEPT ![s] = 0]
  /\ since' = [since EXCEPT ![s] = recoveryCooldown]
  /\ UNCHANGED quiet

Reset(c) ==
  /\ Doing(c, "reset")
  /\ ResetRecoveryState(job[c].srv)
  /\ Proceed(c)
  /\ UNCHANGED <<rowVars, mapVars, mutex, queue, monVars, procVars>>

Remove(c) ==
  /\ Doing(c, "remove")
  /\ status' = [status EXCEPT ![job[c].srv] = "deleted"]
  /\ Proceed(c)
  /\ UNCHANGED <<health, written, mapVars, mutex, queue, monVars, recVars, procVars>>

\* A new image is built or pulled, without the manager's mutex.  A build that
\* fails puts the server in error although it may be running.
RenewImage(c) ==
  /\ Doing(c, "image")
  /\ \/ Proceed(c) /\ UNCHANGED <<status, written>>
     \/ Abort(c) /\ UNCHANGED <<status, written>>
     \/ Abort(c) /\ SetStatus(job[c].srv, "error")
  /\ UNCHANGED <<health, mapVars, mutex, queue, monVars, recVars, procVars>>

\* CheckHealth: GetBackend, then a ping, then the write.
GetBackend(c) ==
  /\ Doing(c, "get") /\ mutex = free
  /\ IF job[c].srv \in backend THEN Proceed(c) ELSE Abort(c)
  /\ UNCHANGED <<rowVars, mapVars, mutex, queue, monVars, recVars, procVars>>

Probe(c) ==
  /\ Doing(c, "probe")
  /\ \E v \in {"healthy", "unhealthy"} : SetHealth(job[c].srv, v)
  /\ Proceed(c)
  /\ UNCHANGED <<status, written, mapVars, mutex, queue, monVars, recVars, procVars>>

-----------------------------------------------------------------------------
(* Requests *)

Request(u) ==
  /\ ~Busy(u)
  /\ requests < MaxRequests /\ requests' = requests + 1
  /\ UNCHANGED <<rowVars, mapVars, mutex, queue, monVars, recVars, phase>>

Exists(s) == status[s] # "deleted"

\* A server found in error is stopped first.
WebStart(u, s) ==
  /\ Request(u) /\ Exists(s)
  /\ Give(u, s, IF status[s] = "error" THEN <<"stop", "start", "reset">>
                                       ELSE <<"start", "reset">>)
  /\ stopAsked' = stopAsked \ {s}

ApiStart(u, s) ==
  /\ Request(u) /\ Exists(s)
  /\ Give(u, s, <<"start">>)
  /\ stopAsked' = stopAsked \ {s}

Stop(u, s) ==
  /\ Request(u)
  /\ Give(u, s, <<"stop">>)
  /\ UNCHANGED stopAsked

Delete(u, s) ==
  /\ Request(u)
  /\ Give(u, s, <<"stop", "remove">>)
  /\ UNCHANGED stopAsked

Recreate(u, s) ==
  /\ Request(u) /\ Exists(s)
  /\ Give(u, s, <<"stop", "fetch", "start", "reset">>)
  /\ stopAsked' = stopAsked \ {s}

\* Rebuild and restart, or pull and recreate.
RenewAndRecreate(u, s) ==
  /\ Request(u) /\ Exists(s) /\ s \notin Stateless
  /\ Give(u, s, <<"image", "stop", "fetch", "start", "reset">>)
  /\ stopAsked' = stopAsked \ {s}

Rebuild(u, s) ==
  /\ Request(u) /\ Exists(s) /\ s \notin Stateless
  /\ Give(u, s, <<"image">>)
  /\ UNCHANGED stopAsked

CheckHealth(u, s) ==
  /\ Request(u)
  /\ Give(u, s, <<"get", "probe">>)
  /\ UNCHANGED stopAsked

-----------------------------------------------------------------------------
(* The health monitor *)

Monitoring == probe.at = "none" /\ ~Busy("monitor")

\* The ticker fires: list the servers.
CheckAll ==
  /\ Monitoring /\ visiting = NoRows
  /\ visiting' = [s \in {t \in Servers : Exists(t)} |->
                    [status |-> status[s], health |-> health[s]]]
  /\ UNCHANGED <<rowVars, mapVars, mutex, jobVars, queue, probe, recVars, procVars>>

Visited(s) == visiting' = [t \in DOMAIN visiting \ {s} |-> visiting[t]]
Listed(s, v) == s \in DOMAIN visiting /\ visiting[s].status = v

\* Mutant of VisitOther: rows that are not running or in error are left alone.
VisitOtherIgnores(s) ==
  /\ Monitoring /\ s \in DOMAIN visiting
  /\ visiting[s].status \notin {"running", "error"}
  /\ Visited(s)
  /\ UNCHANGED <<rowVars, mapVars, mutex, jobVars, queue, probe, recVars, procVars>>

VisitOther(s) ==
  /\ Monitoring /\ s \in DOMAIN visiting
  /\ visiting[s].status \notin {"running", "error"}
  /\ IF visiting[s].status = "stopped" /\ visiting[s].health # "unknown"
       THEN SetHealth(s, "unknown") ELSE UNCHANGED health
  /\ Visited(s)
  /\ UNCHANGED <<status, written, mapVars, mutex, jobVars, queue, probe, recVars, procVars>>

CheckRunning(s) ==
  /\ Monitoring /\ Listed(s, "running")
  /\ probe' = [srv |-> s, at |-> "get"]
  /\ Visited(s)
  /\ UNCHANGED <<rowVars, mapVars, mutex, jobVars, queue, recVars, procVars>>

\* GetBackend waits for the manager's mutex.
ProbeGet ==
  /\ probe.at = "get" /\ mutex = free
  /\ probe' = [probe EXCEPT !.at = IF probe.srv \in backend THEN "ping" ELSE "mark"]
  /\ UNCHANGED <<rowVars, mapVars, mutex, jobVars, queue, visiting, recVars, procVars>>

ProbeMark ==
  /\ probe.at = "mark"
  /\ SetStatus(probe.srv, "stopped") /\ SetHealth(probe.srv, "unknown")
  /\ failCounts' = [failCounts EXCEPT ![probe.srv] = 0]
  /\ probe' = NoProbe
  /\ UNCHANGED <<mapVars, mutex, jobVars, queue, visiting, recoverAttempts, since, quiet, procVars>>

ProbeHealthy ==
  /\ probe.at = "ping"
  /\ failCounts' = [failCounts EXCEPT ![probe.srv] = 0]
  /\ SetHealth(probe.srv, "healthy")
  /\ probe' = NoProbe
  /\ UNCHANGED <<status, written, mapVars, mutex, jobVars, queue, visiting, recoverAttempts, since,
                 quiet, procVars>>

\* Only the comparison with failThreshold is ever made.
OneMoreFail(s) == IF failCounts[s] < failThreshold THEN failCounts[s] + 1 ELSE failThreshold

ProbeFails ==
  LET s == probe.srv IN
  /\ probe.at = "ping"
  /\ failCounts' = [failCounts EXCEPT ![s] = OneMoreFail(s)]
  /\ SetHealth(s, "unhealthy")
  /\ IF OneMoreFail(s) >= failThreshold THEN SetStatus(s, "error")
                                        ELSE UNCHANGED <<status, written>>
  /\ probe' = NoProbe
  /\ UNCHANGED <<mapVars, mutex, jobVars, queue, visiting, recoverAttempts, since, quiet, procVars>>

Recovering(s) == Busy(s)

\* Mutant of MayRecover: the attempts are never exhausted.
MayRecoverForever(s) == ~Recovering(s) /\ since[s] >= recoveryCooldown

MayRecover(s) ==
  /\ ~Recovering(s)
  /\ since[s] >= recoveryCooldown
  /\ recoverAttempts[s] < maxRecoverAttempts

SkipRecover(s) ==
  /\ Monitoring /\ Listed(s, "error") /\ ~MayRecover(s)
  /\ Visited(s)
  /\ UNCHANGED <<rowVars, mapVars, mutex, jobVars, queue, probe, recVars, procVars>>

\* Mutant of BeginAttempt: the attempt is not counted.
BeginAttemptUncounted(s) ==
  /\ since' = [since EXCEPT ![s] = 0]
  /\ quiet' = [quiet EXCEPT ![s] = 0]
  /\ UNCHANGED <<failCounts, recoverAttempts>>

BeginAttempt(s) ==
  /\ since' = [since EXCEPT ![s] = 0]
  /\ quiet' = [quiet EXCEPT ![s] = 0]
  /\ recoverAttempts' = [recoverAttempts EXCEPT ![s] = @ + 1]
  /\ UNCHANGED failCounts

\* Stateless servers are reconnected by the monitor itself, the others by a
\* goroutine of their own.
TryRecover(s) ==
  /\ Monitoring /\ Listed(s, "error") /\ MayRecover(s)
  /\ BeginAttempt(s)
  /\ IF s \in Stateless THEN Give("monitor", s, <<"drop", "start", "reset">>)
                        ELSE Give(s, s, <<"stop", "fetch", "start", "reset">>)
  /\ Visited(s)
  /\ UNCHANGED <<rowVars, mapVars, mutex, queue, probe, procVars>>

Tick ==
  /\ since' = [s \in Servers |-> IF since[s] < recoveryCooldown THEN since[s] + 1 ELSE since[s]]
  /\ quiet' = [s \in Servers |-> IF quiet[s] < recoveryCooldown THEN quiet[s] + 1 ELSE quiet[s]]
  /\ UNCHANGED <<rowVars, mapVars, mutex, jobVars, queue, monVars, failCounts, recoverAttempts,
                 procVars>>

-----------------------------------------------------------------------------
(* The process *)

\* main starts the listed servers one after the other, whatever their status.
BootNext(s) ==
  /\ s \in queue["boot"] /\ ~Busy("boot")
  /\ Give("boot", s, <<"start">>)
  /\ queue' = [queue EXCEPT !["boot"] = @ \ {s}]
  /\ UNCHANGED <<rowVars, mapVars, mutex, monVars, recVars, procVars>>

\* A signal: the monitor's context is cancelled.  A cycle under way goes on, and
\* requests are still served.
Shutdown ==
  /\ phase = "up" /\ phase' = "closing"
  /\ requests < MaxRequests /\ requests' = requests + 1
  /\ UNCHANGED <<rowVars, mapVars, mutex, jobVars, queue, monVars, recVars, stopAsked>>

StopAll ==
  /\ phase = "closing" /\ mutex = free
  /\ phase' = "stopping"
  /\ queue' = [queue EXCEPT !["shutdown"] = backend]
  /\ UNCHANGED <<rowVars, mapVars, mutex, jobVars, monVars, recVars, requests, stopAsked>>

StopNext(s) ==
  /\ s \in queue["shutdown"] /\ ~Busy("shutdown")
  /\ Give("shutdown", s, <<"stop">>)
  /\ queue' = [queue EXCEPT !["shutdown"] = @ \ {s}]
  /\ UNCHANGED <<rowVars, mapVars, mutex, monVars, recVars, procVars>>

\* The process ends and another begins: rows and containers are all that is left,
\* and main lists the rows to start them.
Restart ==
  /\ backend' = {} /\ container' = {}
  /\ mutex' = free
  /\ job' = [c \in Callers |-> NoJob] /\ failed' = [s \in Servers |-> 0]
  /\ queue' = [queue EXCEPT !["boot"] = {s \in Servers : Exists(s)}, !["shutdown"] = {}]
  /\ visiting' = NoRows /\ probe' = NoProbe
  /\ failCounts' = [s \in Servers |-> 0]
  /\ recoverAttempts' = [s \in Servers |-> 0]
  /\ since' = [s \in Servers |-> recoveryCooldown]
  /\ quiet' = [s \in Servers |-> recoveryCooldown]
  /\ phase' = "up"
  /\ stopAsked' = {} /\ written' = {}
  /\ UNCHANGED <<status, health, docker>>

Exit ==
  /\ phase = "stopping" /\ queue["shutdown"] = {} /\ ~Busy("shutdown")
  /\ Restart
  /\ UNCHANGED requests

Crash ==
  /\ requests < MaxRequests /\ requests' = requests + 1
  /\ Restart

-----------------------------------------------------------------------------
Call(c) ==
  \/ StartRefused(c) \/ StartBegin(c) \/ StartSucceeds(c) \/ StartFails(c)
  \/ StopBegin(c) \/ StopEnd(c)
  \/ Fetch(c) \/ Drop(c) \/ Reset(c) \/ Remove(c) \/ RenewImage(c)
  \/ GetBackend(c) \/ Probe(c)

Requests(u, s) ==
  \/ WebStart(u, s) \/ ApiStart(u, s) \/ Stop(u, s) \/ Delete(u, s)
  \/ Recreate(u, s) \/ RenewAndRecreate(u, s) \/ Rebuild(u, s) \/ CheckHealth(u, s)

Visit(s) == VisitOther(s) \/ CheckRunning(s) \/ SkipRecover(s) \/ TryRecover(s)
ProbeStep == ProbeGet \/ ProbeMark \/ ProbeHealthy \/ ProbeFails

Next ==
  \/ \E c \in Callers : Call(c)
  \/ \E u \in Users, s \in Servers : Requests(u, s)
  \/ CheckAll \/ (\E s \in Servers : Visit(s)) \/ ProbeStep
  \/ Tick
  \/ (\E s \in Servers : BootNext(s) \/ StopNext(s))
  \/ Shutdown \/ StopAll \/ Exit \/ Crash

Spec == Init /\ [][Next]_vars

\* Goroutines run, Docker operations and pings end, the ticker fires and time
\* passes.  sync.RWMutex starves nobody: strong fairness where shutdown waits for
\* it while recoveries may come and go.  Nobody has to make a request or crash.
Fairness ==
  /\ \A c \in Callers \ {"shutdown"} : WF_vars(Call(c))
  /\ WF_vars(CheckAll) /\ (\A s \in Servers : WF_vars(Visit(s))) /\ WF_vars(ProbeStep)
  /\ WF_vars(Tick)
  /\ \A s \in Servers : WF_vars(BootNext(s)) /\ WF_vars(StopNext(s))
  /\ SF_vars(StopAll) /\ SF_vars(Call("shutdown")) /\ WF_vars(Exit)

FairSpec == Spec /\ Fairness

-----------------------------------------------------------------------------
(* What holds *)

\* Whenever nobody is inside StartServer or StopServer, the manager's two maps
\* agree: a server that runs in a container has a backend exactly when it has a
\* container ID (proxy.go, startStdio, startHTTP, StopServer).  And a container
\* the manager knows of exists: no concurrent start has replaced it.
MapsAgree ==
  /\ mutex = free => backend \ Stateless = container
  /\ container \subseteq docker

\* A row says "running" only of a server requests can reach, unless the row was
\* left by an earlier process or the monitor is reconnecting that very server
\* (StartServer, StopServer and RetryServer against the writes of checkRunning).
RunningIsServed ==
  \A s \in Servers :
    mutex = free /\ status[s] = "running" /\ s \in written
      /\ ~(Busy("monitor") /\ job["monitor"].srv = s)
      => s \in backend

\* The monitor gives up: between two successful restarts of a server at most
\* maxRecoverAttempts recoveries fail, and one more that was already under way
\* when a user's restart cleared the count (tryRecover, ResetRecoveryState).
GivesUp == \A s \in Servers : failed[s] <= maxRecoverAttempts + 1

\* No server rests in "error" while it has recovery attempts left (tryRecover).
ErrorIsActedOn ==
  \A s \in Servers :
    (status[s] = "error") ~> (status[s] # "error" \/ recoverAttempts[s] = maxRecoverAttempts)

\* A health check that ends after its server was stopped does not leave a
\* stopped server "healthy" for good (checkAll, CheckHealth).
HealthSettles ==
  \A s \in Servers :
    (status[s] = "stopped" /\ health[s] # "unknown")
      ~> (status[s] # "stopped" \/ health[s] = "unknown")

\* A signal ends the process, whatever starts, stops and recoveries are under
\* way: every path out of StartServer and StopServer gives the mutex back to
\* StopAll (main.go).
ShutdownEnds == (phase # "up") ~> (phase = "up")

-----------------------------------------------------------------------------
(* What the repository says and the code does not do *)

\* health.go: "recoveryCooldown is the minimum time between recovery attempts
\* for a server."
CooldownBetweenAttempts ==
  [][\A s \in Servers : recoverAttempts'[s] > recoverAttempts[s] => quiet[s] >= recoveryCooldown]_vars

\* health.go: ResetRecoveryState is called "after a successful auto-recovery or
\* manual restart so the server gets a fresh retry budget".  A restart while no
\* recovery is under way.
Restarted(u) ==
  /\ Len(job[u].todo) = 1 /\ job'[u].todo = <<>>
  /\ ~Recovering(job[u].srv) /\ ~Busy("monitor")
  /\ Doing(u, "reset") \/ (Doing(u, "start") /\ job[u].srv \in backend' \ backend)
ManualRestartRenewsBudget ==
  [][\A u \in Users : Restarted(u) => recoverAttempts'[job[u].srv] = 0]_vars

\* SKILL.md, "After `arc-sync server stop`": "The proxy will reject requests to
\* a stopped server."  Requests are served by the backends map.
StopIsHonoured == stopAsked \cap backend = {}

\* README: "auto-recovery for failed servers": a start that failed does not leave
\* its server "starting".
StartingEnds == \A s \in Servers : (status[s] = "starting") ~> (status[s] # "starting")
=============================================================================
