----------------------- MODULE ServerLifecycleProofs -----------------------
(***************************************************************************)
(* Proofs about ServerLifecycle for every set of servers and requests.     *)
(***************************************************************************)
EXTENDS ServerLifecycle, TLAPS

USE DEF rowVars, jobVars, mapVars, monVars, recVars, procVars

-----------------------------------------------------------------------------
(* Types, one part of the state at a time *)

RowType ==
  /\ status \in [Servers -> Statuses] /\ health \in [Servers -> Healths]
  /\ written \subseteq Servers
MapType ==
  /\ backend \subseteq Servers /\ docker \subseteq Servers \ Stateless
  /\ container \subseteq Servers \ Stateless
JobType ==
  /\ mutex \in Callers \cup {free}
  /\ job \in [Callers -> [srv : Servers, todo : Seq(Steps)]]
  /\ failed \in [Servers -> Nat]
  /\ queue \in [{"boot", "shutdown"} -> SUBSET Servers]
MonType ==
  /\ DOMAIN visiting \subseteq Servers
  /\ \A s \in DOMAIN visiting : visiting[s] \in [status : Statuses, health : Healths]
  /\ probe \in [srv : Servers, at : {"none", "get", "mark", "ping"}]
RecType ==
  /\ failCounts \in [Servers -> 0..failThreshold]
  /\ recoverAttempts \in [Servers -> 0..maxRecoverAttempts]
  /\ since \in [Servers -> 0..recoveryCooldown] /\ quiet \in [Servers -> 0..recoveryCooldown]
ProcType ==
  /\ phase \in {"up", "closing", "stopping"} /\ requests \in 0..MaxRequests
  /\ stopAsked \subseteq Servers

LEMMA TypeParts == TypeOK <=> RowType /\ MapType /\ JobType /\ MonType /\ RecType /\ ProcType
BY DEF TypeOK, RowType, MapType, JobType, MonType, RecType, ProcType

LEMMA AnyServerType == AnyServer \in Servers
BY ServersAssumption DEF AnyServer

\* No job is a job, and no probe a probe.
LEMMA IdleTypes ==
  /\ NoJob \in [srv : Servers, todo : Seq(Steps)]
  /\ NoProbe \in [srv : Servers, at : {"none", "get", "mark", "ping"}]
  /\ NoJob.todo = <<>>
BY AnyServerType DEF NoJob, NoProbe, Steps

LEMMA CallerTypes ==
  /\ Users \subseteq Callers /\ Servers \subseteq Callers
  /\ "monitor" \in Callers /\ "boot" \in Callers /\ "shutdown" \in Callers
  /\ free \notin Callers /\ "monitor" \notin Servers
BY CallersAssumption DEF Callers

\* What every script step leaves of the other goroutines' jobs.
LEMMA ProceedJob ==
  ASSUME JobType, NEW c \in Callers, Busy(c), Proceed(c)
  PROVE  /\ job' \in [Callers -> [srv : Servers, todo : Seq(Steps)]]
         /\ failed' \in [Servers -> Nat]
         /\ \A d \in Callers : d # c => job'[d] = job[d]
         /\ Len(job[c].todo) = 1 => job'[c] = NoJob
         /\ Len(job[c].todo) # 1 => /\ job'[c].srv = job[c].srv
                                    /\ job'[c].todo = Tail(job[c].todo)
<1> job[c] \in [srv : Servers, todo : Seq(Steps)] /\ job[c].todo # <<>>
  BY DEF JobType, Busy
<1> Tail(job[c].todo) \in Seq(Steps)
  OBVIOUS
<1> NoJob \in [srv : Servers, todo : Seq(Steps)]
  BY IdleTypes
<1> DEFINE rest == [srv |-> job[c].srv, todo |-> Tail(job[c].todo)]
<1>1. /\ rest \in [srv : Servers, todo : Seq(Steps)]
      /\ rest.srv = job[c].srv /\ rest.todo = Tail(job[c].todo)
  OBVIOUS
<1>2. job' = [job EXCEPT ![c] = IF Len(job[c].todo) = 1 THEN NoJob ELSE rest]
  BY DEF Proceed, JobType
<1> HIDE DEF rest
<1>3. failed' \in [Servers -> Nat]
  BY DEF Proceed, JobType
<1> QED
  BY <1>1, <1>2, <1>3 DEF JobType

LEMMA AbortJob ==
  ASSUME JobType, NEW c \in Callers, Abort(c)
  PROVE  /\ job' \in [Callers -> [srv : Servers, todo : Seq(Steps)]]
         /\ failed' \in [Servers -> Nat]
         /\ \A d \in Callers : d # c => job'[d] = job[d]
         /\ job'[c] = NoJob
BY IdleTypes DEF Abort, JobType

LEMMA GiveJob ==
  ASSUME JobType, NEW c \in Callers, NEW s \in Servers, NEW todo \in Seq(Steps), Give(c, s, todo)
  PROVE  /\ job' \in [Callers -> [srv : Servers, todo : Seq(Steps)]]
         /\ failed' \in [Servers -> Nat]
         /\ \A d \in Callers : d # c => job'[d] = job[d]
         /\ job'[c].srv = s /\ job'[c].todo = todo
BY DEF Give, JobType

LEMMA SetStatusType ==
  ASSUME RowType, NEW s \in Servers, NEW v \in Statuses, SetStatus(s, v)
  PROVE  /\ status' \in [Servers -> Statuses] /\ written' \subseteq Servers
BY DEF SetStatus, RowType

LEMMA SetHealthType ==
  ASSUME RowType, NEW s \in Servers, NEW v \in Healths, SetHealth(s, v)
  PROVE  health' \in [Servers -> Healths]
BY DEF SetHealth, RowType

\* The server a goroutine works on.
LEMMA JobServer ==
  ASSUME JobType, NEW c \in Callers
  PROVE  job[c].srv \in Servers /\ job[c].todo \in Seq(Steps)
BY DEF JobType

LEMMA InitType == Init => TypeOK
<1> SUFFICES ASSUME Init PROVE TypeOK
  OBVIOUS
<1>1. RowType /\ MapType
  BY DEF Init, RowType, MapType, Statuses, Healths
<1>2. JobType
  BY IdleTypes, CallersAssumption DEF Init, JobType
<1>3. MonType
  BY IdleTypes DEF Init, MonType, NoRows
<1>4. RecType /\ ProcType
  BY ServersAssumption DEF Init, RecType, ProcType
<1> QED
  BY <1>1, <1>2, <1>3, <1>4, TypeParts

LEMMA RowStep ==
  ASSUME RowType, JobType, MonType, Next
  PROVE  RowType'
<1> USE DEF RowType
<1>1. ASSUME NEW c \in Callers, Call(c) PROVE RowType'
  <2> DEFINE s == job[c].srv
  <2> s \in Servers
    BY JobServer
  <2> HIDE DEF s
  <2>1. CASE StartRefused(c) \/ StopBegin(c) \/ Fetch(c) \/ Drop(c) \/ Reset(c) \/ GetBackend(c)
    BY <2>1 DEF StartRefused, StopBegin, Fetch, Drop, Reset, GetBackend
  <2>2. CASE StartBegin(c) \/ StartSucceeds(c) \/ StartFails(c) \/ RenewImage(c)
    <3>1. health' = health /\ (UNCHANGED <<status, written>> \/ SetStatus(s, "starting")
                                \/ SetStatus(s, "running") \/ SetStatus(s, "error"))
      BY <2>2 DEF StartBegin, StartSucceeds, StartFails, RenewImage, s
    <3> QED
      BY <3>1, SetStatusType DEF Statuses
  <2>3. CASE StopEnd(c)
    <3>1. SetStatus(s, "stopped") /\ SetHealth(s, "unknown")
      BY <2>3 DEF StopEnd, s
    <3> QED
      BY <3>1, SetStatusType, SetHealthType DEF Statuses, Healths
  <2>4. CASE Remove(c)
    BY <2>4 DEF Remove, Statuses, s
  <2>5. CASE Probe(c)
    <3>1. PICK v \in {"healthy", "unhealthy"} : SetHealth(s, v)
      BY <2>5 DEF Probe, s
    <3> QED
      BY <2>5, <3>1, SetHealthType DEF Probe, Healths
  <2> QED
    BY <1>1, <2>1, <2>2, <2>3, <2>4, <2>5 DEF Call
<1>2. ASSUME NEW u \in Users, NEW s \in Servers, Requests(u, s) PROVE RowType'
  BY <1>2 DEF Requests, WebStart, ApiStart, Stop, Delete, Recreate, RenewAndRecreate, Rebuild,
              CheckHealth, Request
<1>3. ASSUME NEW s \in Servers, Visit(s) PROVE RowType'
  BY <1>3 DEF Visit, VisitOther, CheckRunning, SkipRecover, TryRecover, SetHealth, Healths
<1>4. CASE ProbeStep
  <2>1. probe.srv \in Servers
    BY DEF MonType
  <2>2. CASE ProbeGet \/ ProbeHealthy
    BY <2>1, <2>2 DEF ProbeGet, ProbeHealthy, SetHealth, Healths
  <2>3. CASE ProbeMark
    BY <2>1, <2>3, SetStatusType, SetHealthType DEF ProbeMark, Statuses, Healths
  <2>4. CASE ProbeFails
    <3>1. SetHealth(probe.srv, "unhealthy")
          /\ (SetStatus(probe.srv, "error") \/ UNCHANGED <<status, written>>)
      BY <2>4 DEF ProbeFails
    <3> QED
      BY <2>1, <3>1, SetStatusType, SetHealthType DEF Statuses, Healths
  <2> QED
    BY <1>4, <2>2, <2>3, <2>4 DEF ProbeStep
<1>5. CASE CheckAll \/ Tick \/ Shutdown \/ StopAll
  BY <1>5 DEF CheckAll, Tick, Shutdown, StopAll
<1>6. ASSUME NEW s \in Servers, BootNext(s) \/ StopNext(s) PROVE RowType'
  BY <1>6 DEF BootNext, StopNext
<1>7. CASE Exit \/ Crash
  BY <1>7 DEF Exit, Crash, Restart
<1> QED
  BY <1>1, <1>2, <1>3, <1>4, <1>5, <1>6, <1>7 DEF Next

LEMMA MapStep ==
  ASSUME MapType, JobType, Next
  PROVE  MapType'
<1> USE DEF MapType
<1>1. ASSUME NEW c \in Callers, Call(c) PROVE MapType'
  <2> DEFINE s == job[c].srv
  <2> s \in Servers
    BY JobServer
  <2> HIDE DEF s
  <2>1. CASE StartSucceeds(c)
    BY <2>1 DEF StartSucceeds, s
  <2>2. CASE StartFails(c)
    BY <2>2 DEF StartFails, s
  <2>3. CASE StopEnd(c) \/ Drop(c)
    BY <2>3 DEF StopEnd, Drop, s
  <2>4. CASE UNCHANGED mapVars
    BY <2>4
  <2> QED
    BY <1>1, <2>1, <2>2, <2>3, <2>4
    DEF Call, StartRefused, StartBegin, StopBegin, Fetch, Reset, Remove, RenewImage, GetBackend,
        Probe
<1>2. ASSUME NEW u \in Users, NEW s \in Servers, Requests(u, s) PROVE MapType'
  BY <1>2 DEF Requests, WebStart, ApiStart, Stop, Delete, Recreate, RenewAndRecreate, Rebuild,
              CheckHealth, Request
<1>3. ASSUME NEW s \in Servers, Visit(s) \/ BootNext(s) \/ StopNext(s) PROVE MapType'
  BY <1>3 DEF Visit, VisitOther, CheckRunning, SkipRecover, TryRecover, BootNext, StopNext
<1>4. CASE ProbeStep \/ CheckAll \/ Tick \/ Shutdown \/ StopAll
  BY <1>4 DEF ProbeStep, ProbeGet, ProbeMark, ProbeHealthy, ProbeFails, CheckAll, Tick, Shutdown,
              StopAll
<1>5. CASE Exit \/ Crash
  BY <1>5 DEF Exit, Crash, Restart
<1> QED
  BY <1>1, <1>2, <1>3, <1>4, <1>5 DEF Next

\* Every script is a sequence of steps.
LEMMA Scripts ==
  /\ <<"stop", "start", "reset">> \in Seq(Steps) /\ <<"start", "reset">> \in Seq(Steps)
  /\ <<"start">> \in Seq(Steps) /\ <<"stop">> \in Seq(Steps)
  /\ <<"stop", "remove">> \in Seq(Steps) /\ <<"image">> \in Seq(Steps)
  /\ <<"stop", "fetch", "start", "reset">> \in Seq(Steps)
  /\ <<"image", "stop", "fetch", "start", "reset">> \in Seq(Steps)
  /\ <<"get", "probe">> \in Seq(Steps) /\ <<"drop", "start", "reset">> \in Seq(Steps)
BY DEF Steps

\* A call ends with its goroutine going on, giving up, or still inside.
LEMMA CallJob ==
  ASSUME NEW c \in Callers, Call(c)
  PROVE  /\ Busy(c) /\ UNCHANGED queue
         /\ Proceed(c) \/ Abort(c) \/ UNCHANGED jobVars
         /\ mutex' \in {mutex, c, free}
BY DEF Call, Doing, StartRefused, StartBegin, StartSucceeds, StartFails, StopBegin, StopEnd, Fetch,
       Drop, Reset, Remove, RenewImage, GetBackend, Probe

\* A request gives its goroutine, which was idle, a script without "drop".
LEMMA RequestJob ==
  ASSUME NEW u \in Users, NEW s \in Servers, Requests(u, s)
  PROVE  /\ ~Busy(u)
         /\ \E todo \in Seq(Steps) :
              /\ Give(u, s, todo)
              /\ \A i \in DOMAIN todo : todo[i] # "drop"
         /\ UNCHANGED <<rowVars, mapVars, mutex, queue, monVars, recVars, phase>>
<1>1. ~Busy(u) /\ UNCHANGED <<rowVars, mapVars, mutex, queue, monVars, recVars, phase>>
  BY DEF Requests, WebStart, ApiStart, Stop, Delete, Recreate, RenewAndRecreate, Rebuild,
              CheckHealth, Request
<1>2. \/ Give(u, s, <<"stop", "start", "reset">>) \/ Give(u, s, <<"start", "reset">>)
      \/ Give(u, s, <<"start">>) \/ Give(u, s, <<"stop">>) \/ Give(u, s, <<"stop", "remove">>)
      \/ Give(u, s, <<"stop", "fetch", "start", "reset">>) \/ Give(u, s, <<"image">>)
      \/ Give(u, s, <<"image", "stop", "fetch", "start", "reset">>) \/ Give(u, s, <<"get", "probe">>)
  BY DEF Requests, WebStart, ApiStart, Stop, Delete, Recreate, RenewAndRecreate, Rebuild, CheckHealth
<1> DEFINE P(todo) == todo \in Seq(Steps) /\ \A i \in DOMAIN todo : todo[i] # "drop"
<1>3. /\ P(<<"stop", "start", "reset">>) /\ P(<<"start", "reset">>) /\ P(<<"start">>)
      /\ P(<<"stop">>) /\ P(<<"stop", "remove">>) /\ P(<<"stop", "fetch", "start", "reset">>)
      /\ P(<<"image">>) /\ P(<<"image", "stop", "fetch", "start", "reset">>)
      /\ P(<<"get", "probe">>)
  BY Scripts
<1>4. \E todo : P(todo) /\ Give(u, s, todo)
  <2> HIDE DEF P
  <2> QED
    BY <1>2, <1>3
<1> QED
  BY <1>1, <1>4

LEMMA JobStep ==
  ASSUME MapType, JobType, Next
  PROVE  JobType'
<1>1. ASSUME NEW c \in Callers, Call(c) PROVE JobType'
  BY <1>1, CallJob, ProceedJob, AbortJob DEF JobType
<1>2. ASSUME NEW u \in Users, NEW s \in Servers, Requests(u, s) PROVE JobType'
  BY <1>2, RequestJob, GiveJob, CallerTypes DEF JobType
<1>3. ASSUME NEW s \in Servers, Visit(s) PROVE JobType'
  <2>1. CASE TryRecover(s)
    <3>1. /\ UNCHANGED <<mutex, queue>>
          /\ \/ Give("monitor", s, <<"drop", "start", "reset">>)
             \/ Give(s, s, <<"stop", "fetch", "start", "reset">>)
      BY <2>1 DEF TryRecover
    <3>2. /\ job' \in [Callers -> [srv : Servers, todo : Seq(Steps)]]
          /\ failed' \in [Servers -> Nat]
      BY <3>1, GiveJob, CallerTypes, Scripts
    <3> QED
      BY <3>1, <3>2 DEF JobType
  <2> QED
    BY <1>3, <2>1 DEF Visit, VisitOther, CheckRunning, SkipRecover, JobType
<1>4. ASSUME NEW s \in Servers, BootNext(s) \/ StopNext(s) PROVE JobType'
  <2>1. /\ mutex' = mutex
        /\ Give("boot", s, <<"start">>) \/ Give("shutdown", s, <<"stop">>)
        /\ queue' \in [{"boot", "shutdown"} -> SUBSET Servers]
    BY <1>4 DEF BootNext, StopNext, JobType
  <2>2. /\ job' \in [Callers -> [srv : Servers, todo : Seq(Steps)]]
        /\ failed' \in [Servers -> Nat]
    BY <2>1, GiveJob, CallerTypes, Scripts
  <2> QED
    BY <2>1, <2>2 DEF JobType
<1>5. CASE StopAll
  BY <1>5 DEF StopAll, JobType, MapType
<1>6. CASE ProbeStep \/ CheckAll \/ Tick \/ Shutdown
  BY <1>6 DEF ProbeStep, ProbeGet, ProbeMark, ProbeHealthy, ProbeFails, CheckAll, Tick, Shutdown,
              JobType
<1>7. CASE Exit \/ Crash
  BY <1>7, IdleTypes DEF Exit, Crash, Restart, JobType
<1> QED
  BY <1>1, <1>2, <1>3, <1>4, <1>5, <1>6, <1>7 DEF Next

LEMMA MonStep ==
  ASSUME RowType, MonType, Next
  PROVE  MonType'
<1>1. ASSUME NEW c \in Callers, Call(c) PROVE MonType'
  BY <1>1 DEF Call, StartRefused, StartBegin, StartSucceeds, StartFails, StopBegin, StopEnd, Fetch,
              Drop, Reset, Remove, RenewImage, GetBackend, Probe, MonType
<1>2. ASSUME NEW u \in Users, NEW s \in Servers, Requests(u, s) PROVE MonType'
  BY <1>2, RequestJob DEF MonType
<1>3. ASSUME NEW s \in Servers, Visit(s) PROVE MonType'
  <2>1. Visited(s) /\ (probe' = probe \/ probe' = [srv |-> s, at |-> "get"])
    BY <1>3 DEF Visit, VisitOther, CheckRunning, SkipRecover, TryRecover
  <2> QED
    BY <2>1 DEF Visited, MonType
<1>4. CASE ProbeStep
  <2>1. visiting' = visiting /\ \/ probe' = NoProbe
                                \/ probe' = [probe EXCEPT !.at = "ping"]
                                \/ probe' = [probe EXCEPT !.at = "mark"]
    BY <1>4 DEF ProbeStep, ProbeGet, ProbeMark, ProbeHealthy, ProbeFails
  <2> QED
    BY <2>1, IdleTypes DEF MonType
<1>5. CASE CheckAll
  BY <1>5 DEF CheckAll, MonType, RowType
<1>6. CASE Tick \/ Shutdown \/ StopAll
  BY <1>6 DEF Tick, Shutdown, StopAll, MonType
<1>7. ASSUME NEW s \in Servers, BootNext(s) \/ StopNext(s) PROVE MonType'
  BY <1>7 DEF BootNext, StopNext, MonType
<1>8. CASE Exit \/ Crash
  BY <1>8, IdleTypes DEF Exit, Crash, Restart, MonType, NoRows
<1> QED
  BY <1>1, <1>2, <1>3, <1>4, <1>5, <1>6, <1>7, <1>8 DEF Next

LEMMA RecStep ==
  ASSUME RecType, JobType, MonType, Next
  PROVE  RecType'
<1> USE ServersAssumption DEF RecType
<1>1. ASSUME NEW c \in Callers, Call(c) PROVE RecType'
  <2>1. CASE Reset(c)
    BY <2>1, JobServer DEF Reset, ResetRecoveryState
  <2> QED
    BY <1>1, <2>1 DEF Call, StartRefused, StartBegin, StartSucceeds, StartFails, StopBegin, StopEnd,
                      Fetch, Drop, Remove, RenewImage, GetBackend, Probe
<1>2. ASSUME NEW u \in Users, NEW s \in Servers, Requests(u, s) PROVE RecType'
  BY <1>2, RequestJob
<1>3. ASSUME NEW s \in Servers, Visit(s) PROVE RecType'
  <2>1. CASE TryRecover(s)
    BY <2>1 DEF TryRecover, BeginAttempt, MayRecover
  <2> QED
    BY <1>3, <2>1 DEF Visit, VisitOther, CheckRunning, SkipRecover
<1>4. CASE ProbeStep
  <2>1. probe.srv \in Servers
    BY DEF MonType
  <2> QED
    BY <1>4, <2>1 DEF ProbeStep, ProbeGet, ProbeMark, ProbeHealthy, ProbeFails, OneMoreFail
<1>5. CASE Tick
  BY <1>5 DEF Tick
<1>6. CASE CheckAll \/ Shutdown \/ StopAll
  BY <1>6 DEF CheckAll, Shutdown, StopAll
<1>7. ASSUME NEW s \in Servers, BootNext(s) \/ StopNext(s) PROVE RecType'
  BY <1>7 DEF BootNext, StopNext
<1>8. CASE Exit \/ Crash
  BY <1>8 DEF Exit, Crash, Restart
<1> QED
  BY <1>1, <1>2, <1>3, <1>4, <1>5, <1>6, <1>7, <1>8 DEF Next

LEMMA ProcStep ==
  ASSUME ProcType, JobType, Next
  PROVE  ProcType'
<1> USE ServersAssumption DEF ProcType
<1>1. ASSUME NEW c \in Callers, Call(c) PROVE ProcType'
  <2>1. CASE StopEnd(c)
    BY <2>1, JobServer DEF StopEnd, NoteStop
  <2> QED
    BY <1>1, <2>1 DEF Call, StartRefused, StartBegin, StartSucceeds, StartFails, StopBegin,
                      Fetch, Drop, Reset, Remove, RenewImage, GetBackend, Probe
<1>2. ASSUME NEW u \in Users, NEW s \in Servers, Requests(u, s) PROVE ProcType'
  BY <1>2 DEF Requests, WebStart, ApiStart, Stop, Delete, Recreate, RenewAndRecreate, Rebuild,
              CheckHealth, Request
<1>3. ASSUME NEW s \in Servers, Visit(s) \/ BootNext(s) \/ StopNext(s) PROVE ProcType'
  BY <1>3 DEF Visit, VisitOther, CheckRunning, SkipRecover, TryRecover, BootNext, StopNext
<1>4. CASE ProbeStep \/ CheckAll \/ Tick
  BY <1>4 DEF ProbeStep, ProbeGet, ProbeMark, ProbeHealthy, ProbeFails, CheckAll, Tick
<1>5. CASE Shutdown \/ StopAll \/ Exit \/ Crash
  BY <1>5 DEF Shutdown, StopAll, Exit, Crash, Restart
<1> QED
  BY <1>1, <1>2, <1>3, <1>4, <1>5 DEF Next

LEMMA TypeStep == TypeOK /\ [Next]_vars => TypeOK'
<1>0. RowType' /\ MapType' /\ JobType' /\ MonType' /\ RecType' /\ ProcType' => TypeOK'
  BY DEF TypeOK, RowType, MapType, JobType, MonType, RecType, ProcType
<1>1. ASSUME TypeOK, Next PROVE TypeOK'
  BY <1>0, <1>1, TypeParts, RowStep, MapStep, JobStep, MonStep, RecStep, ProcStep
<1>2. ASSUME TypeOK, UNCHANGED vars PROVE TypeOK'
  BY <1>2 DEF TypeOK, vars
<1> QED
  BY <1>1, <1>2

\* The state of the manager, the rows and the monitor keeps its type; in
\* particular recoverAttempts never exceeds maxRecoverAttempts (tryRecover).
THEOREM ServerTypeCorrect == Spec => []TypeOK
BY InitType, TypeStep, PTL DEF Spec

-----------------------------------------------------------------------------
(* The inductive invariant *)

\* The mutex is held only inside StartServer, of a server without a backend,
\* or inside StopServer.
HolderInside ==
  mutex # free =>
    /\ Doing(mutex, "start") \/ Doing(mutex, "stop")
    /\ Doing(mutex, "start") => job[mutex].srv \notin backend

\* Only the monitor drops a backend without stopping its server, and only of
\* servers without a container.
MonitorScripts ==
  /\ job["monitor"].todo \in {<<>>, <<"drop", "start", "reset">>, <<"start", "reset">>, <<"reset">>}
  /\ Busy("monitor") => job["monitor"].srv \in Stateless
  /\ \A c \in Callers \ {"monitor"} : \A i \in DOMAIN job[c].todo : job[c].todo[i] # "drop"

\* MapsAgree without regard to the mutex: the model changes both maps at once.
MapsEqual == backend \ Stateless = container /\ container \subseteq docker

\* RunningIsServed, with the exception narrowed to the monitor being between
\* dropping a backend and having started it again.
Retrying(s) == Doing("monitor", "start") /\ job["monitor"].srv = s
Served ==
  \A s \in Servers : status[s] = "running" /\ s \in written /\ ~Retrying(s) => s \in backend

Inv == TypeOK /\ HolderInside /\ MonitorScripts /\ MapsEqual /\ Served

\* A step that changes one goroutine's job leaves what the others are doing.
LEMMA DoingFrame ==
  ASSUME NEW d, job'[d] = job[d], NEW step
  PROVE  Doing(d, step)' <=> Doing(d, step)
BY DEF Doing, Busy

LEMMA InitInv == Init => Inv
<1> SUFFICES ASSUME Init PROVE Inv
  OBVIOUS
<1>1. \A c \in Callers : job[c].todo = <<>>
  BY IdleTypes DEF Init
<1>2. HolderInside /\ MapsEqual /\ Served
  BY DEF Init, HolderInside, MapsEqual, Served
<1>3. MonitorScripts
  BY <1>1, CallerTypes DEF MonitorScripts, Busy
<1> QED
  BY <1>2, <1>3, InitType DEF Inv

LEMMA HolderStep ==
  ASSUME Inv, Next
  PROVE  HolderInside'
<1> JobType /\ MapType /\ HolderInside /\ MonitorScripts
  BY TypeParts DEF Inv
<1> USE CallerTypes
<1> mutex \in Callers \cup {free}
  BY DEF JobType
<1>1. ASSUME NEW c \in Callers, Call(c) PROVE HolderInside'
  <2>1. CASE StartBegin(c) \/ StopBegin(c)
    BY <2>1 DEF StartBegin, StopBegin, HolderInside, Doing, Busy
  <2>2. CASE StartSucceeds(c) \/ StartFails(c) \/ StopEnd(c)
    BY <2>2 DEF StartSucceeds, StartFails, StopEnd, HolderInside
  <2>3. CASE StartRefused(c) \/ Drop(c) \/ GetBackend(c)
    BY <2>3 DEF StartRefused, Drop, GetBackend, HolderInside
  <2>4. CASE Fetch(c) \/ Reset(c) \/ Remove(c) \/ RenewImage(c) \/ Probe(c)
    <3>1. /\ UNCHANGED <<mutex, backend>>
          /\ Proceed(c) \/ Abort(c)
          /\ Busy(c) /\ ~Doing(c, "start") /\ ~Doing(c, "stop")
      BY <2>4 DEF Fetch, Reset, Remove, RenewImage, Probe, Doing
    <3>2. mutex # free => mutex \in Callers /\ mutex # c
      BY <3>1 DEF HolderInside
    <3>3. mutex # free => job'[mutex] = job[mutex]
      BY <3>1, <3>2, ProceedJob, AbortJob
    <3> QED
      BY <3>1, <3>3 DEF HolderInside, Doing, Busy
  <2> QED
    BY <1>1, <2>1, <2>2, <2>3, <2>4 DEF Call
<1>2. ASSUME NEW c \in Callers, NEW s \in Servers, NEW todo \in Seq(Steps),
             ~Busy(c), Give(c, s, todo), UNCHANGED <<mutex, backend>>
      PROVE  HolderInside'
  <2>1. mutex # free => mutex \in Callers /\ mutex # c
    BY <1>2 DEF HolderInside, Doing
  <2>2. mutex # free => job'[mutex] = job[mutex]
    BY <1>2, <2>1, GiveJob
  <2> QED
    BY <1>2, <2>2 DEF HolderInside, Doing, Busy
<1>3. ASSUME UNCHANGED <<mutex, backend, job>> PROVE HolderInside'
  BY <1>3 DEF HolderInside, Doing, Busy
<1>4. ASSUME NEW u \in Users, NEW s \in Servers, Requests(u, s) PROVE HolderInside'
  BY <1>2, <1>4, RequestJob
<1>5. ASSUME NEW s \in Servers, Visit(s) PROVE HolderInside'
  <2>1. CASE TryRecover(s)
    <3>1. /\ UNCHANGED <<mutex, backend>> /\ ~Busy("monitor") /\ ~Busy(s)
          /\ \/ Give("monitor", s, <<"drop", "start", "reset">>)
             \/ Give(s, s, <<"stop", "fetch", "start", "reset">>)
      BY <2>1 DEF TryRecover, Monitoring, MayRecover, Recovering
    <3> QED
      BY <3>1, <1>2, Scripts
  <2>2. CASE VisitOther(s) \/ CheckRunning(s) \/ SkipRecover(s)
    BY <1>3, <2>2 DEF VisitOther, CheckRunning, SkipRecover
  <2> QED
    BY <1>5, <2>1, <2>2 DEF Visit
<1>6. ASSUME NEW s \in Servers, BootNext(s) \/ StopNext(s) PROVE HolderInside'
  BY <1>2, <1>6, Scripts DEF BootNext, StopNext
<1>7. CASE ProbeStep \/ CheckAll \/ Tick \/ Shutdown \/ StopAll
  BY <1>3, <1>7 DEF ProbeStep, ProbeGet, ProbeMark, ProbeHealthy, ProbeFails, CheckAll, Tick,
                    Shutdown, StopAll
<1>8. CASE Exit \/ Crash
  BY <1>8 DEF Exit, Crash, Restart, HolderInside
<1> QED
  BY <1>1, <1>4, <1>5, <1>6, <1>7, <1>8 DEF Next

LEMMA Tails ==
  /\ Len(<<"drop", "start", "reset">>) = 3 /\ Len(<<"start", "reset">>) = 2
  /\ Len(<<"reset">>) = 1
  /\ Tail(<<"drop", "start", "reset">>) = <<"start", "reset">>
  /\ Tail(<<"start", "reset">>) = <<"reset">>
OBVIOUS

LEMMA ScriptsStep ==
  ASSUME Inv, Next
  PROVE  MonitorScripts'
<1> JobType /\ MonitorScripts
  BY TypeParts DEF Inv
<1> USE CallerTypes
<1> DEFINE NoDrop(todo) == \A i \in DOMAIN todo : todo[i] # "drop"
<1>1. ASSUME NEW c \in Callers \ {"monitor"}, job'["monitor"] = job["monitor"],
             \A d \in Callers : d # c => job'[d] = job[d], NoDrop(job'[c].todo)
      PROVE  MonitorScripts'
  BY <1>1 DEF MonitorScripts, Busy
<1>2. ASSUME UNCHANGED job PROVE MonitorScripts'
  BY <1>2 DEF MonitorScripts, Busy
<1>3. ASSUME NEW c \in Callers, Call(c) PROVE MonitorScripts'
  <2>1. Busy(c)
    BY <1>3, CallJob
  <2>2. job[c].todo \in Seq(Steps) /\ job[c].todo # <<>>
    BY <2>1, JobServer DEF Busy
  <2>3. CASE c # "monitor"
    <3>1. NoDrop(job[c].todo)
      BY <2>3 DEF MonitorScripts
    <3>2. NoDrop(Tail(job[c].todo)) /\ NoDrop(NoJob.todo)
      BY <2>2, <3>1, IdleTypes
    <3>3. CASE Proceed(c)
      <4>1. /\ \A d \in Callers : d # c => job'[d] = job[d]
            /\ job'[c].todo = NoJob.todo \/ job'[c].todo = Tail(job[c].todo)
        BY <2>1, <3>3, ProceedJob
      <4>2. NoDrop(job'[c].todo)
        BY <3>2, <4>1
      <4> QED
        BY <1>1, <2>3, <4>1, <4>2
    <3>4. CASE Abort(c)
      BY <1>1, <2>3, <3>2, <3>4, AbortJob
    <3>5. CASE UNCHANGED jobVars
      BY <1>2, <3>5
    <3> QED
      BY <1>3, <3>3, <3>4, <3>5, CallJob
  <2>4. CASE c = "monitor"
    <3>1. \A d \in Callers \ {"monitor"} : job'[d] = job[d]
      BY <1>3, <2>1, <2>4, CallJob, ProceedJob, AbortJob
    <3>2. CASE Proceed(c)
      <4>1. job[c].srv \in Stateless
        BY <2>1, <2>4 DEF MonitorScripts
      <4>2. \/ job[c].todo = <<"drop", "start", "reset">>
            \/ job[c].todo = <<"start", "reset">>
            \/ job[c].todo = <<"reset">>
        BY <2>2, <2>4 DEF MonitorScripts
      <4>3. \/ job'[c] = NoJob
            \/ /\ job'[c].srv = job[c].srv
               /\ job'[c].todo \in {<<"start", "reset">>, <<"reset">>}
        <5>1. /\ Len(job[c].todo) = 1 => job'[c] = NoJob
              /\ Len(job[c].todo) # 1 => /\ job'[c].srv = job[c].srv
                                         /\ job'[c].todo = Tail(job[c].todo)
          BY <2>1, <3>2, ProceedJob
        <5> QED
          BY <4>2, <5>1, Tails
      <4> QED
        BY <2>4, <3>1, <4>1, <4>3, IdleTypes DEF MonitorScripts, Busy
    <3>3. CASE Abort(c)
      <4>1. job'["monitor"].todo = <<>>
        BY <2>4, <3>3, AbortJob, IdleTypes
      <4> QED
        BY <3>1, <4>1 DEF MonitorScripts, Busy
    <3>4. CASE UNCHANGED jobVars
      BY <1>2, <3>4
    <3> QED
      BY <1>3, <3>2, <3>3, <3>4, CallJob
  <2> QED
    BY <2>3, <2>4
<1>4. ASSUME NEW c \in Callers \ {"monitor"}, NEW s \in Servers, NEW todo \in Seq(Steps),
             Give(c, s, todo), NoDrop(todo)
      PROVE  MonitorScripts'
  <2>1. /\ \A d \in Callers : d # c => job'[d] = job[d]
        /\ job'[c].todo = todo
    BY <1>4, GiveJob
  <2>2. NoDrop(job'[c].todo)
    BY <1>4, <2>1
  <2> QED
    BY <1>1, <2>1, <2>2
<1>5. ASSUME NEW u \in Users, NEW s \in Servers, Requests(u, s) PROVE MonitorScripts'
  <2>1. u # "monitor"
    BY CallersAssumption
  <2> QED
    BY <1>4, <1>5, <2>1, RequestJob
<1>6. ASSUME NEW s \in Servers, Visit(s) PROVE MonitorScripts'
  <2>1. CASE TryRecover(s) /\ s \in Stateless
    <3>1. Give("monitor", s, <<"drop", "start", "reset">>)
      BY <2>1 DEF TryRecover
    <3>2. /\ \A d \in Callers : d # "monitor" => job'[d] = job[d]
          /\ job'["monitor"].srv = s
          /\ job'["monitor"].todo = <<"drop", "start", "reset">>
      BY <3>1 DEF Give, JobType
    <3>3. \A d \in Callers \ {"monitor"} : NoDrop(job'[d].todo)
      BY <3>2 DEF MonitorScripts
    <3>4. /\ job'["monitor"].todo \in {<<>>, <<"drop", "start", "reset">>, <<"start", "reset">>,
                                       <<"reset">>}
          /\ job'["monitor"].srv \in Stateless
      BY <2>1, <3>2
    <3> QED
      BY <3>3, <3>4 DEF MonitorScripts
  <2>2. CASE TryRecover(s) /\ s \notin Stateless
    <3>1. Give(s, s, <<"stop", "fetch", "start", "reset">>)
      BY <2>2 DEF TryRecover
    <3>2. NoDrop(<<"stop", "fetch", "start", "reset">>)
      OBVIOUS
    <3> QED
      BY <1>4, <3>1, <3>2, Scripts
  <2>3. CASE VisitOther(s) \/ CheckRunning(s) \/ SkipRecover(s)
    BY <1>2, <2>3 DEF VisitOther, CheckRunning, SkipRecover
  <2> QED
    BY <1>6, <2>1, <2>2, <2>3 DEF Visit
<1>7. ASSUME NEW s \in Servers, BootNext(s) \/ StopNext(s) PROVE MonitorScripts'
  <2>1. NoDrop(<<"start">>) /\ NoDrop(<<"stop">>)
    OBVIOUS
  <2>2. Give("boot", s, <<"start">>) \/ Give("shutdown", s, <<"stop">>)
    BY <1>7 DEF BootNext, StopNext
  <2> QED
    BY <1>4, <2>1, <2>2, Scripts
<1>8. CASE ProbeStep \/ CheckAll \/ Tick \/ Shutdown \/ StopAll
  BY <1>2, <1>8 DEF ProbeStep, ProbeGet, ProbeMark, ProbeHealthy, ProbeFails, CheckAll, Tick,
                    Shutdown, StopAll
<1>9. CASE Exit \/ Crash
  BY <1>9, IdleTypes DEF Exit, Crash, Restart, MonitorScripts, Busy
<1> QED
  BY <1>3, <1>5, <1>6, <1>7, <1>8, <1>9 DEF Next

LEMMA MapsStep ==
  ASSUME Inv, Next
  PROVE  MapsEqual'
<1> JobType /\ MapType /\ HolderInside /\ MonitorScripts /\ MapsEqual
  BY TypeParts DEF Inv
<1> USE DEF MapsEqual
<1>1. ASSUME NEW c \in Callers, Call(c) PROVE MapsEqual'
  <2> DEFINE s == job[c].srv
  <2> s \in Servers
    BY JobServer
  <2> HIDE DEF s
  <2>1. CASE StartSucceeds(c)
    BY <2>1 DEF StartSucceeds, s
  <2>2. CASE StartFails(c)
    <3>1. s \notin backend
      BY <2>2, CallerTypes DEF StartFails, HolderInside, s
    <3>2. s \notin container
      BY <3>1
    <3> QED
      BY <2>2, <3>2 DEF StartFails, s
  <2>3. CASE StopEnd(c)
    BY <2>3 DEF StopEnd, s, MapType
  <2>4. CASE Drop(c)
    <3>1. c = "monitor"
      <4>1. job[c].todo \in Seq(Steps) /\ job[c].todo # <<>> /\ Head(job[c].todo) = "drop"
        BY <2>4, JobServer DEF Drop, Doing, Busy
      <4>2. 1 \in DOMAIN job[c].todo /\ job[c].todo[1] = "drop"
        BY <4>1
      <4> QED
        BY <4>2 DEF MonitorScripts
    <3>2. s \in Stateless
      BY <2>4, <3>1 DEF Drop, Doing, MonitorScripts, s
    <3> QED
      BY <2>4, <3>2 DEF Drop, s
  <2>5. CASE UNCHANGED mapVars
    BY <2>5
  <2> QED
    BY <1>1, <2>1, <2>2, <2>3, <2>4, <2>5
    DEF Call, StartRefused, StartBegin, StopBegin, Fetch, Reset, Remove, RenewImage, GetBackend,
        Probe
<1>2. ASSUME NEW u \in Users, NEW s \in Servers, Requests(u, s) PROVE MapsEqual'
  BY <1>2, RequestJob
<1>3. ASSUME NEW s \in Servers, Visit(s) \/ BootNext(s) \/ StopNext(s) PROVE MapsEqual'
  BY <1>3 DEF Visit, VisitOther, CheckRunning, SkipRecover, TryRecover, BootNext, StopNext
<1>4. CASE ProbeStep \/ CheckAll \/ Tick \/ Shutdown \/ StopAll
  BY <1>4 DEF ProbeStep, ProbeGet, ProbeMark, ProbeHealthy, ProbeFails, CheckAll, Tick, Shutdown,
              StopAll
<1>5. CASE Exit \/ Crash
  BY <1>5 DEF Exit, Crash, Restart
<1> QED
  BY <1>1, <1>2, <1>3, <1>4, <1>5 DEF Next

\* A write of another status than "running" cannot break Served.
LEMMA ServedByWrite ==
  ASSUME Served, RowType, NEW s \in Servers, NEW v \in Statuses \ {"running"}, SetStatus(s, v),
         \A r \in Servers \ {s} : r \in backend => r \in backend',
         \A r \in Servers \ {s} : Retrying(r) => Retrying(r)' \/ r \in backend'
  PROVE  Served'
BY DEF Served, SetStatus, RowType

\* A step that writes no status and takes away no backend keeps Served, if the
\* monitor does not end a retry by it.
LEMMA ServedByFrame ==
  ASSUME Served, UNCHANGED <<status, written>>, backend \subseteq backend',
         \A r \in Servers : Retrying(r) => Retrying(r)' \/ r \in backend'
  PROVE  Served'
BY DEF Served

LEMMA ServedStep ==
  ASSUME Inv, Next
  PROVE  Served'
<1> RowType /\ JobType /\ MonType /\ HolderInside /\ MonitorScripts /\ Served
  BY TypeParts DEF Inv
<1> USE CallerTypes
<1>1. ASSUME job'["monitor"] = job["monitor"], NEW r PROVE Retrying(r)' <=> Retrying(r)
  BY <1>1 DEF Retrying, Doing, Busy
<1>2. ASSUME NEW c \in Callers, Call(c) PROVE Served'
  <2> DEFINE s == job[c].srv
  <2> s \in Servers
    BY JobServer
  <2>0. c # "monitor" => job'["monitor"] = job["monitor"]
    BY <1>2, CallJob, ProceedJob, AbortJob
  \* When the monitor is not the caller, or is not at its start, no retry ends.
  <2>1. ASSUME ~Doing(c, "start"), NEW r, Retrying(r) PROVE Retrying(r)'
    <3>1. c # "monitor"
      BY <2>1 DEF Retrying
    <3> QED
      BY <1>1, <2>0, <2>1, <3>1
  <2>2. ASSUME Doing(c, "start"), NEW r, Retrying(r), r # s PROVE Retrying(r)'
    <3>1. c # "monitor"
      BY <2>2 DEF Retrying
    <3> QED
      BY <1>1, <2>0, <2>2, <3>1
  <2>3. CASE StartRefused(c)
    <3>1. Doing(c, "start") /\ s \in backend /\ UNCHANGED <<status, written, backend>>
      BY <2>3 DEF StartRefused
    <3> HIDE DEF s
    <3> QED
      BY <2>2, <3>1, ServedByFrame
  <2>4. CASE StartBegin(c)
    <3>1. UNCHANGED <<job, backend>> /\ (UNCHANGED <<status, written>> \/ SetStatus(s, "starting"))
      BY <2>4 DEF StartBegin
    <3>2. \A r : Retrying(r) => Retrying(r)'
      BY <1>1, <3>1
    <3> HIDE DEF s
    <3> QED
      BY <3>1, <3>2, ServedByFrame, ServedByWrite DEF Statuses
  <2>5. CASE StartSucceeds(c)
    <3>1. Doing(c, "start") /\ SetStatus(s, "running") /\ backend' = backend \cup {s}
      BY <2>5 DEF StartSucceeds
    <3> HIDE DEF s
    <3> QED
      BY <2>2, <3>1 DEF Served, SetStatus, RowType
  <2>6. CASE StartFails(c)
    <3>1. Doing(c, "start") /\ UNCHANGED backend /\ s \notin backend
      BY <2>6 DEF StartFails, HolderInside
    <3>2. CASE SetStatus(s, "error")
      <4> HIDE DEF s
      <4> QED
        BY <2>2, <3>1, <3>2, ServedByWrite DEF Statuses
    <3>3. CASE s \in GitBuilt /\ UNCHANGED <<status, written>>
      <4>1. s \notin Stateless
        BY <3>3, ServersAssumption
      <4>2. c # "monitor"
        BY <3>1, <4>1 DEF MonitorScripts, Doing
      <4>3. \A r : Retrying(r) => Retrying(r)'
        BY <1>1, <2>0, <4>2
      <4> QED
        BY <3>1, <3>3, <4>3, ServedByFrame
    <3> QED
      BY <2>6, <3>2, <3>3 DEF StartFails
  <2>7. CASE StopEnd(c)
    <3>1. ~Doing(c, "start") /\ SetStatus(s, "stopped") /\ backend' = backend \ {s}
      BY <2>7 DEF StopEnd, Doing
    <3> HIDE DEF s
    <3> QED
      BY <2>1, <3>1, ServedByWrite DEF Statuses
  <2>8. CASE Drop(c)
    <3>1. c = "monitor"
      <4>1. job[c].todo \in Seq(Steps) /\ job[c].todo # <<>> /\ Head(job[c].todo) = "drop"
        BY <2>8, JobServer DEF Drop, Doing, Busy
      <4>2. 1 \in DOMAIN job[c].todo /\ job[c].todo[1] = "drop"
        BY <4>1
      <4> QED
        BY <4>2 DEF MonitorScripts
    <3>2. job[c].todo = <<"drop", "start", "reset">>
      BY <2>8, <3>1 DEF Drop, Doing, Busy, MonitorScripts
    <3>3. job'[c].srv = s /\ job'[c].todo = <<"start", "reset">>
      <4>1. Busy(c) /\ Proceed(c)
        BY <2>8 DEF Drop, Doing
      <4>2. Len(job[c].todo) # 1 /\ Tail(job[c].todo) = <<"start", "reset">>
        BY <3>2, Tails
      <4> QED
        BY <4>1, <4>2, ProceedJob
    <3>4. Doing("monitor", "start")' /\ job'["monitor"].srv = s
      BY <3>1, <3>3 DEF Doing, Busy
    <3>5. ~Doing("monitor", "start") /\ UNCHANGED <<status, written>> /\ backend' = backend \ {s}
      BY <2>8, <3>1 DEF Drop, Doing
    <3> HIDE DEF s
    <3> QED
      BY <3>4, <3>5 DEF Served, Retrying
  <2>9. CASE Remove(c)
    <3>1. ~Doing(c, "start") /\ UNCHANGED <<backend, written>>
          /\ status' = [status EXCEPT ![s] = "deleted"]
      BY <2>9 DEF Remove, Doing
    <3> HIDE DEF s
    <3> QED
      BY <2>1, <3>1 DEF Served, RowType
  <2>10. CASE RenewImage(c)
    <3>1. /\ ~Doing(c, "start") /\ UNCHANGED backend
          /\ SetStatus(s, "error") \/ UNCHANGED <<status, written>>
      BY <2>10 DEF RenewImage, Doing
    <3> HIDE DEF s
    <3> QED
      BY <2>1, <3>1, ServedByFrame, ServedByWrite DEF Statuses
  <2>11. CASE StopBegin(c) \/ Fetch(c) \/ Reset(c) \/ GetBackend(c) \/ Probe(c)
    <3>1. ~Doing(c, "start") /\ UNCHANGED <<status, written, backend>>
      BY <2>11 DEF StopBegin, Fetch, Reset, GetBackend, Probe, Doing
    <3> QED
      BY <2>1, <3>1, ServedByFrame
  <2> QED
    BY <1>2, <2>3, <2>4, <2>5, <2>6, <2>7, <2>8, <2>9, <2>10, <2>11 DEF Call
\* Nobody but the monitor's own calls takes it out of a retry.
<1>3. ASSUME UNCHANGED <<status, written, backend>>,
             job'["monitor"] = job["monitor"] \/ ~Busy("monitor")
      PROVE  Served'
  <2>1. \A r : Retrying(r) => Retrying(r)'
    BY <1>1, <1>3 DEF Retrying, Doing
  <2> QED
    BY <1>3, <2>1, ServedByFrame
<1>4. ASSUME NEW u \in Users, NEW s \in Servers, Requests(u, s) PROVE Served'
  <2>1. u # "monitor"
    BY CallersAssumption
  <2> QED
    BY <1>3, <1>4, <2>1, RequestJob, GiveJob
<1>5. ASSUME NEW s \in Servers, Visit(s) PROVE Served'
  <2>1. UNCHANGED <<status, written, backend>> /\ ~Busy("monitor")
    BY <1>5 DEF Visit, VisitOther, CheckRunning, SkipRecover, TryRecover, Monitoring
  <2> QED
    BY <1>3, <2>1
<1>6. CASE ProbeStep
  <2>1. probe.srv \in Servers
    BY DEF MonType
  <2>2. UNCHANGED <<backend, job>> /\ \/ UNCHANGED <<status, written>>
                                      \/ SetStatus(probe.srv, "stopped")
                                      \/ SetStatus(probe.srv, "error")
    BY <1>6 DEF ProbeStep, ProbeGet, ProbeMark, ProbeHealthy, ProbeFails
  <2>3. \A r : Retrying(r) => Retrying(r)'
    BY <1>1, <2>2
  <2> QED
    BY <2>1, <2>2, <2>3, ServedByFrame, ServedByWrite DEF Statuses
<1>7. ASSUME NEW s \in Servers, BootNext(s) \/ StopNext(s) PROVE Served'
  <2>1. /\ UNCHANGED <<status, written, backend>>
        /\ Give("boot", s, <<"start">>) \/ Give("shutdown", s, <<"stop">>)
    BY <1>7 DEF BootNext, StopNext
  <2> QED
    BY <1>3, <2>1, GiveJob, Scripts
<1>8. CASE CheckAll \/ Tick \/ Shutdown \/ StopAll
  BY <1>3, <1>8 DEF CheckAll, Tick, Shutdown, StopAll
<1>9. CASE Exit \/ Crash
  BY <1>9 DEF Exit, Crash, Restart, Served
<1> QED
  BY <1>2, <1>4, <1>5, <1>6, <1>7, <1>8, <1>9 DEF Next

LEMMA ServerInvariance == Spec => []Inv
<1>1. ASSUME Inv, Next PROVE Inv'
  <2>1. TypeOK'
    BY <1>1, TypeStep DEF Inv
  <2> QED
    BY <1>1, <2>1, HolderStep, ScriptsStep, MapsStep, ServedStep DEF Inv
<1>2. ASSUME Inv, UNCHANGED vars PROVE Inv'
  <2>1. TypeOK'
    BY <1>2, TypeStep DEF Inv
  <2>2. HolderInside' /\ MonitorScripts' /\ MapsEqual' /\ Served'
    BY <1>2 DEF Inv, vars, HolderInside, MonitorScripts, MapsEqual, Served, Retrying, Doing, Busy
  <2> QED
    BY <2>1, <2>2 DEF Inv
<1> QED
  BY <1>1, <1>2, InitInv, PTL DEF Spec

\* The manager's maps agree and its containers exist, whatever starts, stops,
\* recoveries and crashes interleave (StartServer, StopServer, RetryServer).
THEOREM MapsStayEqual == Spec => []MapsAgree
<1>1. Inv => MapsAgree
  BY DEF Inv, MapsEqual, MapsAgree
<1> QED
  BY <1>1, ServerInvariance, PTL

\* A server whose row this process has set to "running" has a backend, unless
\* the monitor is reconnecting it (checkRunning, RetryServer).
THEOREM RunningStaysServed == Spec => []RunningIsServed
<1>1. Inv => RunningIsServed
  BY DEF Inv, Served, Retrying, Doing, RunningIsServed
<1> QED
  BY <1>1, ServerInvariance, PTL
============================================================================
