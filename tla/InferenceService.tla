--------------------------- MODULE InferenceService ---------------------------
(***************************************************************************)
(* The inference API from start-up to the answer: ModelRegistry.cc reads    *)
(* its configuration and loads the backends, InferenceController.cc         *)
(* validates requests and submits them, InferenceMetrics.cc counts, the     *)
(* result goes back to the connection's loop, and ManagementController.cc   *)
(* reports.  The scheduler is what BoundedTaskPool promises: a bounded line *)
(* and a number of workers.                                                 *)
(*                                                                          *)
(* /v1/infer closes the connection with its answer, so a request and its    *)
(* connection are one.                                                      *)
(***************************************************************************)
EXTENDS Integers, Sequences, SequencesExt, FiniteSetsExt

CONSTANTS Installations, \* a build, an environment and a registry file:
                         \*   [built, settings, readable, default, models]
          Requests,      \* requests
          Wanted,        \* what a request asks for, field by field
          Settings,      \* the settings: name -> [fallback, maximum]
          Bounds,        \* buckets_ of the histograms, ascending
          Timings        \* what a task may take: [queue, backend, total]

(* What an entry of the registry file comes to; a valid one has a name. *)
Entries == {e \in [name : STRING, backend : STRING, priority : Int, enabled : BOOLEAN,
                   valid : BOOLEAN] : e.valid => e.name # ""}

(* A setting that is set is a sequence of one number. *)
Installation == [built : SUBSET STRING, settings : [DOMAIN Settings -> Seq(Nat)],
                 readable : BOOLEAN, default : STRING, models : Seq(Entries)]

ASSUME ServiceAssumption ==
  /\ {"port", "workers", "capacity"} = DOMAIN Settings
  /\ \A n \in DOMAIN Settings :
       Settings[n].maximum \in Nat /\ Settings[n].fallback \in 1 .. Settings[n].maximum
  /\ Bounds \in Seq(Nat) /\ Bounds # <<>>
  /\ \A i \in 1 .. Len(Bounds) - 1 : Bounds[i] < Bounds[i + 1]
  /\ Timings \subseteq [queue : Nat, backend : Nat, total : Nat]
  /\ \A t \in Timings : t.queue + t.backend <= t.total
  /\ Installations \subseteq Installation
  /\ \A d \in Installations : \A n \in DOMAIN Settings : Len(d.settings[n]) <= 1

VARIABLES
  document,         \* the installation
  stage,            \* of main(): "configure", "load", "initialize", "serving"
                    \*   or "stopped"; "badConfig", "noBackend": returned 1
  registrations,    \* registrations_
  defaultModel,     \* defaultModel_
  line,             \* the scheduler's queue
  task,             \* the model and backend each accepted request was given
  phase,            \* where a request is
  conn,             \* whether its connection is up
  sequence,         \* the counter of nextRequestId()
  id,               \* requestId of a request
  reply,            \* what it was answered with
  result,           \* what infer() returned: "success" or an error code
  requests,         \* requests_ of the metrics, a counter per label
  rejections,       \* rejections_, a counter per reason
  totalDuration, queueDuration, backendDuration,  \* the histograms, all
                                                  \*   labels as one
  gauge,            \* queueDepth_
  scraped           \* what /metrics last said

registry   == <<document, registrations, defaultModel>>
names      == <<sequence, id>>
histograms == <<totalDuration, queueDuration, backendDuration>>
metrics    == <<requests, rejections, histograms, gauge>>
serviceVars == <<registry, stage, line, task, phase, conn, names, reply, result, metrics,
                 scraped>>

Unassigned == [model |-> "none", backend |-> "none"]

-----------------------------------------------------------------------------
(* ModelRegistry *)

Names(regs) == {regs[i].name : i \in 1 .. Len(regs)}

(* Fault: the name alone is compared. *)
DuplicateName(regs, e) == \E i \in 1 .. Len(regs) : regs[i].name = e.name

Duplicate(regs, e) ==
  \E i \in 1 .. Len(regs) : regs[i].name = e.name /\ regs[i].backend = e.backend

(* An entry is read: skipped unless enabled, then checked, then added.  A   *)
(* backend that was not built is registered without one, and the first      *)
(* registration gives an empty default its name.                            *)
ReadEntry(so_far, e) ==
  CASE ~so_far.ok \/ ~e.enabled          -> so_far
    [] so_far.ok /\ e.enabled /\ ~e.valid -> [so_far EXCEPT !.ok = FALSE, !.regs = <<>>]
    [] so_far.ok /\ e.enabled /\ e.valid /\ Duplicate(so_far.regs, e) ->
         [so_far EXCEPT !.ok = FALSE]
    [] OTHER ->
         [so_far EXCEPT
            !.default = IF @ = "" THEN e.name ELSE @,
            !.regs = Append(@, [name |-> e.name, backend |-> e.backend,
                                priority |-> e.priority,
                                present |-> e.backend \in document.built,
                                available |-> FALSE])]

ReadEntries(models) ==
  FoldLeft(ReadEntry, [ok |-> TRUE, regs |-> <<>>, default |-> document.default], models)

(* positiveEnvironment(): the setting as a sequence, <<>> if it is not set, *)
(* <<0>> if it is not a number; the result is <<>> if it is refused.        *)
PositiveEnvironment(value, setting) ==
  CASE value = <<>>                                              -> <<setting.fallback>>
    [] value # <<>> /\ Head(value) \in 1 .. setting.maximum    -> value
    [] value # <<>> /\ Head(value) \notin 1 .. setting.maximum -> <<>>

Setting(n) == PositiveEnvironment(document.settings[n], Settings[n])

Capacity == Head(Setting("capacity"))
WorkerCount   == Head(Setting("workers"))

ReadSettings ==
  /\ stage = "configure"
  /\ stage' = IF \E n \in DOMAIN Settings : Setting(n) = <<>> THEN "badConfig" ELSE "load"
  /\ UNCHANGED <<registry, line, task, phase, conn, names, reply, result, metrics, scraped>>

(* loadFromFile() in a build with backends. *)
LoadFromFile ==
  /\ stage = "load" /\ document.built # {}
  /\ IF ~document.readable
       THEN stage' = "badConfig" /\ UNCHANGED <<registrations, defaultModel>>
       ELSE LET read == ReadEntries(document.models)
                ok   == /\ read.ok /\ read.regs # <<>>
                        /\ read.default \in Names(read.regs)
            IN /\ defaultModel' = read.default
               /\ registrations' = IF read.ok /\ ~ok THEN <<>> ELSE read.regs
               /\ stage' = IF ok THEN "initialize" ELSE "badConfig"
  /\ UNCHANGED <<document, line, task, phase, conn, names, reply, result, metrics, scraped>>

(* A build without backends registers the mock, whose backend is "auto". *)
AddMock ==
  /\ stage = "load" /\ document.built = {}
  /\ registrations' = <<[name |-> "mock", backend |-> "auto", priority |-> 0,
                         present |-> TRUE, available |-> FALSE]>>
  /\ defaultModel' = "mock"
  /\ stage' = "initialize"
  /\ UNCHANGED <<document, line, task, phase, conn, names, reply, result, metrics, scraped>>

(* initialize() from start(): every backend present is loaded and warmed    *)
(* up, and one that works is enough.                                        *)
Initialize ==
  /\ stage = "initialize"
  /\ \E works \in SUBSET {i \in 1 .. Len(registrations) : registrations[i].present} :
       /\ registrations' = [i \in 1 .. Len(registrations) |->
            [registrations[i] EXCEPT !.available = i \in works]]
       /\ stage' = IF works = {} THEN "noBackend" ELSE "serving"
  /\ UNCHANGED <<document, defaultModel, line, task, phase, conn, names, reply,
                 result, metrics, scraped>>

Resolved(model) == IF model = "default" THEN defaultModel ELSE model

HasModel(model) == Resolved(model) \in Names(registrations)

Candidate(r, model, backend) ==
  r.available /\ r.name = model /\ (backend = "auto" \/ r.backend = backend)

(* resolve(): one pass over the registrations, a higher priority wins. *)
Resolve(model, backend) ==
  FoldLeft(LAMBDA best, r : IF /\ Candidate(r, Resolved(model), backend)
                               /\ best = Unassigned \/ r.priority > best.priority
                            THEN r ELSE best, Unassigned, registrations)

-----------------------------------------------------------------------------
(* InferenceMetrics *)

Labels(model, backend, status) ==
  [model |-> model, backend |-> backend, status |-> status]

NoCounters == <<>>

(* ++ on an entry of a std::map, which starts at 0. *)
Counted(counters, label) ==
  [l \in DOMAIN counters \union {label} |->
     (IF l \in DOMAIN counters THEN counters[l] ELSE 0) + (IF l = label THEN 1 ELSE 0)]

EmptyHistogram == [count |-> 0, buckets |-> [i \in 1 .. Len(Bounds) |-> 0]]

(* observe(): every bucket whose bound is not exceeded. *)
Observe(h, d) ==
  [count   |-> h.count + 1,
   buckets |-> [i \in 1 .. Len(Bounds) |->
                  IF d <= Bounds[i] THEN h.buckets[i] + 1 ELSE h.buckets[i]]]

-----------------------------------------------------------------------------
(* ManagementController, and what the registry says of itself *)

AvailableBackendCount == Cardinality({i \in 1 .. Len(registrations) : registrations[i].available})

(* healthyBackendCount(): a backend that was loaded stays healthy. *)
HealthyBackendCount ==
  Cardinality({i \in 1 .. Len(registrations) :
                 registrations[i].available /\ registrations[i].present})

(* handleHealth() *)
Health ==
  CASE HealthyBackendCount = 0                                            -> "unavailable"
    [] HealthyBackendCount \in 1 .. Len(registrations) - 1                -> "degraded"
    [] HealthyBackendCount > 0 /\ HealthyBackendCount = Len(registrations) -> "healthy"

(* handleModels() *)
Models == {[name |-> registrations[i].name, backend |-> registrations[i].backend,
            available |-> registrations[i].available] : i \in 1 .. Len(registrations)}

NotScraped == [requests |-> NoCounters, rejections |-> NoCounters, queueDepth |-> 0, completed |-> 0]

(* handleMetrics(): renderPrometheus() under the mutex of the metrics. *)
Scrape ==
  /\ stage = "serving" /\ scraped = NotScraped
  /\ scraped' = [requests |-> requests, rejections |-> rejections,
                 queueDepth |-> gauge, completed |-> totalDuration.count]
  /\ UNCHANGED <<registry, stage, line, task, phase, conn, names, reply, result, metrics>>

-----------------------------------------------------------------------------
NoAnswer == [code |-> "none", status |-> "none", retry |-> FALSE, id |-> 0]

ServiceInit ==
  /\ document \in Installations
  /\ stage = "configure" /\ registrations = <<>> /\ defaultModel = ""
  /\ line = <<>>
  /\ task = [r \in Requests |-> Unassigned]
  /\ phase = [r \in Requests |-> "new"]
  /\ conn = [r \in Requests |-> TRUE]
  /\ sequence = 1 /\ id = [r \in Requests |-> 0]
  /\ reply = [r \in Requests |-> NoAnswer]
  /\ result = [r \in Requests |-> "none"]
  /\ requests = NoCounters /\ rejections = NoCounters /\ gauge = 0
  /\ totalDuration = EmptyHistogram /\ queueDuration = EmptyHistogram
  /\ backendDuration = EmptyHistogram
  /\ scraped = NotScraped

(* parseBackendType(): no backend is "auto", an unknown one is refused. *)
ParseBackendType(name) ==
  CASE name = ""                                   -> "auto"
    [] name \in {"auto", "tensorflow", "tensorrt"} -> name
    [] OTHER                                       -> "none"

(* What buildRequest() makes of the form. *)
ModelName(r) == IF Wanted[r].model = "" THEN "default" ELSE Wanted[r].model
BackendOf(r) == ParseBackendType(Wanted[r].backend)

(* The checks of buildRequest(), in order.  A threshold is a sequence like  *)
(* a setting, in tenths; <<99>> is not a number.                            *)
Checks(r) ==
  LET w == Wanted[r]
  IN <<<<"METHOD_NOT_ALLOWED",     w.method # "POST">>,
       <<"INVALID_IMAGE_COUNT",    w.files # 1>>,
       <<"INVALID_IMAGE",          w.field # "image" \/ w.bytes = 0>>,
       <<"UNSUPPORTED_IMAGE_TYPE", w.type \notin {"image/jpeg", "image/png"}>>,
       <<"INVALID_BACKEND",        BackendOf(r) = "none">>,
       <<"INVALID_THRESHOLD",      w.threshold # <<>> /\ Head(w.threshold) \notin 0 .. 10>>>>

(* buildRequest(): the first check that fails returns; "" if none does. *)
BuildRequest(r) ==
  FoldLeft(LAMBDA code, c : IF code = "" /\ c[2] THEN c[1] ELSE code, "", Checks(r))

(* The HTTP status of a code; Retry-After goes with 503. *)
StatusOf(code) ==
  CASE code = "success"                                          -> "200"
    [] code = "METHOD_NOT_ALLOWED"                               -> "405"
    [] code = "UNSUPPORTED_IMAGE_TYPE"                           -> "415"
    [] code \in {"INVALID_IMAGE_COUNT", "INVALID_IMAGE", "INVALID_BACKEND",
                 "INVALID_THRESHOLD"}                            -> "400"
    [] code \in {"BACKEND_UNAVAILABLE", "MODEL_UNAVAILABLE",
                 "IMAGE_DECODE_FAILED"}                          -> "422"
    [] code \in {"SCHEDULER_UNAVAILABLE", "INFERENCE_QUEUE_FULL"} -> "503"
    [] code = "error"                                            -> "500"

Answer(r, code, number) ==
  /\ reply' = [reply EXCEPT ![r] = [code |-> code, status |-> StatusOf(code),
                                      retry |-> StatusOf(code) = "503", id |-> number]]
  /\ phase' = [phase EXCEPT ![r] = "done"]

Arrives(r) == stage \in {"serving", "stopped"} /\ phase[r] = "new"

(* Fault: the counter is read and not moved. *)
RepeatRequestId(r) == id' = [id EXCEPT ![r] = sequence] /\ UNCHANGED sequence

(* nextRequestId() *)
NextRequestId(r) == id' = [id EXCEPT ![r] = sequence] /\ sequence' = sequence + 1

(* handleAsync(): a request that fails validation is answered at once.      *)
(* Nothing is counted: recordValidationFailure() is called from handle(),   *)
(* which the asynchronous callback never lets run.                          *)
RejectInvalid(r) ==
  /\ Arrives(r) /\ BuildRequest(r) # ""
  /\ NextRequestId(r)
  /\ Answer(r, BuildRequest(r), id'[r])
  /\ UNCHANGED <<registry, stage, line, task, conn, result, metrics, scraped>>

(* submit(), with what it says when it does not accept, as an error code. *)
Submission(r) ==
  IF stage = "stopped" THEN "SCHEDULER_UNAVAILABLE"
  ELSE IF ~HasModel(ModelName(r)) THEN "MODEL_UNAVAILABLE"
  ELSE IF Resolve(ModelName(r), BackendOf(r)) = Unassigned THEN "BACKEND_UNAVAILABLE"
  ELSE IF Len(line) >= Capacity THEN "INFERENCE_QUEUE_FULL"
  ELSE "kAccepted"

(* Fault: a refusal is not counted. *)
RejectUncounted(r) ==
  /\ Arrives(r) /\ BuildRequest(r) = "" /\ Submission(r) # "kAccepted"
  /\ NextRequestId(r)
  /\ Answer(r, Submission(r), id'[r])
  /\ rejections' = Counted(rejections, Submission(r))
  /\ UNCHANGED <<registry, stage, line, task, conn, result, requests, histograms,
                 gauge, scraped>>

(* Not accepted: recordSubmissionFailure() with the names the client gave,  *)
(* and the answer.                                                          *)
RejectSubmission(r) ==
  /\ Arrives(r) /\ BuildRequest(r) = "" /\ Submission(r) # "kAccepted"
  /\ NextRequestId(r)
  /\ Answer(r, Submission(r), id'[r])
  /\ requests' = Counted(requests, Labels(ModelName(r), BackendOf(r), "rejected"))
  /\ rejections' = Counted(rejections, Submission(r))
  /\ UNCHANGED <<registry, stage, line, task, conn, result, histograms, gauge,
                 scraped>>

(* Accepted: the task carries the resolved model and the backend chosen     *)
(* now, and stopRead().                                                     *)
Accept(r) ==
  /\ Arrives(r) /\ BuildRequest(r) = "" /\ Submission(r) = "kAccepted"
  /\ NextRequestId(r)
  /\ task' = [task EXCEPT ![r] =
       [model   |-> Resolved(ModelName(r)),
        backend |-> Resolve(ModelName(r), BackendOf(r)).backend]]
  /\ line' = Append(line, r)
  /\ gauge' = Len(line')
  /\ phase' = [phase EXCEPT ![r] = "queued"]
  /\ UNCHANGED <<registry, stage, conn, reply, result, requests, rejections,
                 histograms, scraped>>

Running == {r \in Requests : phase[r] = "running"}

(* A worker takes the front of the line. *)
Take ==
  /\ line # <<>> /\ Cardinality(Running) < WorkerCount
  /\ phase' = [phase EXCEPT ![Head(line)] = "running"]
  /\ line' = Tail(line)
  /\ gauge' = Len(line')
  /\ UNCHANGED <<registry, stage, task, conn, names, reply, result, requests,
                 rejections, histograms, scraped>>

Outcomes == {"success", "IMAGE_DECODE_FAILED", "error"}

(* infer() returns, recordCompletion() counts, and the completion queues    *)
(* the answer to the loop if the connection is still there.                 *)
Complete(r) ==
  /\ phase[r] = "running"
  /\ \E outcome \in Outcomes, took \in Timings :
       /\ result' = [result EXCEPT ![r] = outcome]
       /\ requests' = Counted(requests, Labels(task[r].model, task[r].backend,
                        IF outcome = "success" THEN "success" ELSE "error"))
       /\ totalDuration' = Observe(totalDuration, took.total)
       /\ queueDuration' = Observe(queueDuration, took.queue)
       /\ backendDuration' = Observe(backendDuration, took.backend)
  /\ phase' = [phase EXCEPT ![r] = IF conn[r] THEN "answering" ELSE "done"]
  /\ UNCHANGED <<registry, stage, line, task, conn, names, reply, rejections,
                 gauge, scraped>>

(* Fault: only a success is answered. *)
RespondSuccess(r) ==
  /\ phase[r] = "answering"
  /\ \/ conn[r] /\ result[r] = "success" /\ Answer(r, result[r], id[r])
     \/ /\ ~conn[r] \/ result[r] # "success"
        /\ phase' = [phase EXCEPT ![r] = "done"] /\ UNCHANGED reply
  /\ UNCHANGED <<registry, stage, line, task, conn, names, result, metrics, scraped>>

(* The functor on the loop: the answer, unless the connection went down. *)
Respond(r) ==
  /\ phase[r] = "answering"
  /\ \/ conn[r] /\ Answer(r, result[r], id[r])
     \/ ~conn[r] /\ phase' = [phase EXCEPT ![r] = "done"] /\ UNCHANGED reply
  /\ UNCHANGED <<registry, stage, line, task, conn, names, result, metrics, scraped>>

(* The connection of a request in flight is reset. *)
ConnectionLost(r) ==
  /\ conn[r] /\ phase[r] \in {"queued", "running", "answering"}
  /\ conn' = [conn EXCEPT ![r] = FALSE]
  /\ UNCHANGED <<registry, stage, line, task, phase, names, reply, result, metrics,
                 scraped>>

(* scheduler.stop(): nothing more is accepted, what was accepted is served. *)
StopScheduler ==
  /\ stage = "serving"
  /\ stage' = "stopped"
  /\ UNCHANGED <<registry, line, task, phase, conn, names, reply, result, metrics, scraped>>

ServiceNext ==
  \/ ReadSettings \/ LoadFromFile \/ AddMock \/ Initialize \/ StopScheduler
  \/ \E r \in Requests : RejectInvalid(r) \/ RejectSubmission(r) \/ Accept(r)
  \/ Take \/ Scrape
  \/ \E r \in Requests : Complete(r) \/ Respond(r) \/ ConnectionLost(r)

ServiceSafe == ServiceInit /\ [][ServiceNext]_serviceVars

(* Workers are scheduled and infer() returns, also while stop() waits for    *)
(* them; the loops run functors for sure as long as the service runs.        *)
ServiceSpec ==
  /\ ServiceSafe
  /\ WF_serviceVars(Take)
  /\ \A r \in Requests : /\ WF_serviceVars(Complete(r))
                          /\ WF_serviceVars(stage = "serving" /\ Respond(r))

-----------------------------------------------------------------------------
(* The reference for loadFromFile(). *)
Enabled == {i \in 1 .. Len(document.models) : document.models[i].enabled}

Sound ==
  /\ \A i \in Enabled : document.models[i].valid
  /\ \A i, j \in Enabled : i # j =>
       <<document.models[i].name, document.models[i].backend>> #
       <<document.models[j].name, document.models[j].backend>>
  /\ \E i \in Enabled : document.default \in {"", document.models[i].name}

(* The service starts exactly if its settings are in range and, in a build  *)
(* with backends, the enabled entries of the registry file are valid and    *)
(* distinct by model and backend and one has the name of the default, if it *)
(* has one.                                                                 *)
StartsIfSound ==
  stage \notin {"configure", "load"} =>
    LET fromFile == document.built # {}
        accepted == stage # "badConfig"
    IN /\ accepted <=> /\ \A n \in DOMAIN Settings :
                            Range(document.settings[n]) \subseteq 1 .. Settings[n].maximum
                       /\ fromFile => document.readable /\ Sound
       /\ accepted /\ fromFile => Len(registrations) = Cardinality(Enabled)

(* What "default" stands for. *)
DefaultName ==
  CASE document.built = {} -> "mock"
    [] document.built # {} /\ document.default # "" -> document.default
    [] document.built # {} /\ document.default = "" -> document.models[Min(Enabled)].name

(* The service starts with what a sound installation names and not at all    *)
(* otherwise; and a task runs on the available backend of highest priority   *)
(* among those the request allows, one asked for by name never replaced, and *)
(* the model that "default" stands for is the one the installation names or, *)
(* if it names none, its first.                                              *)
RoutedRight ==
  /\ StartsIfSound
  /\ \A r \in Requests : task[r] # Unassigned =>
       LET allowed == {i \in 1 .. Len(registrations) :
                         Candidate(registrations[i], task[r].model, BackendOf(r))}
       IN /\ \E i \in allowed :
               /\ registrations[i].backend = task[r].backend
               /\ \A j \in allowed : registrations[j].priority <= registrations[i].priority
          /\ task[r].model = IF ModelName(r) = "default" THEN DefaultName ELSE ModelName(r)

(* Whether a code is what a request deserves. *)
Deserves(r, code) ==
  LET wanted == ModelName(r)
      model  == IF wanted = "default" THEN defaultModel ELSE wanted
      named  == {i \in 1 .. Len(registrations) : registrations[i].name = model}
      usable == {i \in named : /\ registrations[i].available
                               /\ BackendOf(r) \in {"auto", registrations[i].backend}}
      wrong  == {n \in 1 .. Len(Checks(r)) : Checks(r)[n][2]}
  IN CASE wrong # {} -> code = Checks(r)[Min(wrong)][1]
       [] OTHER -> CASE code = "SCHEDULER_UNAVAILABLE" -> stage = "stopped"
                     [] code = "MODEL_UNAVAILABLE"     -> named = {}
                     [] code = "BACKEND_UNAVAILABLE"   -> named # {} /\ usable = {}
                     [] code = "INFERENCE_QUEUE_FULL"  -> usable # {}
                     [] OTHER -> usable # {} /\ code = result[r]

(* The requests the scheduler accepted. *)
Accepted == {r \in Requests : phase[r] \in {"queued", "running"} \/ result[r] # "none"}

(* Enough of them to fill the line. *)
LineWasFull == \E waiting \in SUBSET Accepted : Cardinality(waiting) = Capacity

(* An answer is one its request deserves: the first check that fails, no    *)
(* model only if none has the name, no backend only if none that is allowed *)
(* is available, a full line only after requests that fill it, a result     *)
(* only if a backend computed it; it carries the number of its request and  *)
(* of no other, nothing is sent on a connection that is down, and while     *)
(* /healthz says "healthy" no model that /v1/models lists is refused for    *)
(* want of a backend.                                                       *)
AnswerDeserved ==
  \A r \in Requests : reply[r] # NoAnswer =>
    /\ Deserves(r, reply[r].code) /\ conn[r]
    /\ \A q \in Requests \ {r} : reply[r].id # id[q]
    /\ reply[r].code = "BACKEND_UNAVAILABLE" /\ BackendOf(r) = "auto" => Health # "healthy"
    /\ reply[r].code = "MODEL_UNAVAILABLE" =>
         ~\E m \in Models : m.name = ModelName(r)
    /\ reply[r].code = "INFERENCE_QUEUE_FULL" => LineWasFull

(* The label of a request with an outcome. *)
Outcome(r) ==
  IF result[r] # "none"
    THEN Labels(task[r].model, task[r].backend,
                IF result[r] = "success" THEN "success" ELSE "error")
    ELSE Labels(ModelName(r), BackendOf(r), "rejected")

Decided == {r \in Requests : \/ result[r] # "none"
                             \/ phase[r] = "done" /\ BuildRequest(r) = ""}

Refused == {r \in Decided : result[r] = "none"}

(* Every request that reached submit() and has an outcome is counted once,  *)
(* under the model and backend it ran on or, when refused, under the names  *)
(* it asked for; a refused one under its reason too; and no other is        *)
(* counted, so that an invalid request leaves no trace (InvalidCounted).    *)
CountsMatch ==
  /\ DOMAIN requests = {Outcome(r) : r \in Decided}
  /\ \A l \in DOMAIN requests :
       requests[l] = Cardinality({r \in Decided : Outcome(r) = l})
  /\ DOMAIN rejections = {reply[r].code : r \in Refused}
  /\ \A code \in DOMAIN rejections :
       rejections[code] = Cardinality({r \in Refused : reply[r].code = code})

(* The histograms are cumulative, hold one observation per completed task,  *)
(* and agree that a task neither waits nor runs longer than it takes        *)
(* altogether.                                                              *)
HistogramsNest ==
  \A part \in {queueDuration, backendDuration} :
    /\ totalDuration.count = Cardinality({r \in Requests : result[r] # "none"})
    /\ part.count = totalDuration.count
    /\ \A i \in 1 .. Len(Bounds) :
         /\ totalDuration.buckets[i] <= part.buckets[i]
         /\ part.buckets[i] <= part.count
         /\ i > 1 => /\ totalDuration.buckets[i - 1] <= totalDuration.buckets[i]
                     /\ part.buckets[i - 1] <= part.buckets[i]

(* The sum of the counters, as the number of increments. *)
Total(counters) ==
  Cardinality(UNION {{l} \X (1 .. counters[l]) : l \in DOMAIN counters})

NeverAhead(old, new) ==
  DOMAIN old \subseteq DOMAIN new /\ \A l \in DOMAIN old : old[l] <= new[l]

(* A report is from one moment: its counters add up, and are never ahead of  *)
(* the ones there are; the line it shows is within its capacity.             *)
ScrapeAddsUp ==
  /\ NeverAhead(scraped.requests, requests) /\ NeverAhead(scraped.rejections, rejections)
  /\ Total(scraped.requests) = Total(scraped.rejections) + scraped.completed
  /\ scraped # NotScraped => scraped.queueDepth <= Capacity

(* The metrics agree with what happened to the requests that reached         *)
(* submit(): counters, histograms, the gauge of the line, and what a scrape  *)
(* of them showed.                                                           *)
MetricsAgree == CountsMatch /\ HistogramsNest /\ ScrapeAddsUp /\ gauge = Len(line)

(* What the document of the metrics says of requests that fail validation:   *)
(* each is counted, with the status "invalid_request" and under its reason.  *)
InvalidCounted ==
  LET invalid == {r \in Requests : phase[r] = "done" /\ BuildRequest(r) # ""}
      counted == {l \in DOMAIN requests : l.status = "invalid_request"}
  IN /\ invalid # {} => counted # {}
     /\ {reply[r].code : r \in invalid} \subseteq DOMAIN rejections

(* An accepted request is answered, unless its connection is lost; or, once  *)
(* the scheduler is stopped, its answer may be left behind in a loop.        *)
AcceptedAnswered ==
  \A r \in Requests : phase[r] = "queued" ~>
    \/ reply[r] # NoAnswer
    \/ ~conn[r]
    \/ stage = "stopped" /\ phase[r] = "answering"
=============================================================================
