# A verification of MyTinyNetworkLibrary

TLA+ models of the network library, the HTTP server, the inference service, the
log, the timers and the detectors in `src/`, TLC configurations that check them on small instances, and TLAPS
proofs of the results that matter most for every instance.

## 1. The system

The program is an HTTP server for model inference on top of a muduo-style
reactor library.

| Part | State it keeps | Operations | Talks to |
|---|---|---|---|
| `EventLoop` | `quit_`, `looping_`, `callingPendingFunctors_`, `pendingFunctors_`, the eventfd counter | `loop`, `quit`, `runInLoop`, `queueInLoop`, `wakeup`, `handleRead`, `doPendingFunctors` | any thread hands it functors; its poller reports events |
| `Channel`, `EPollPoller` | `events_`, `index_`, the kernel's epoll set | enable/disable reading and writing, `updateChannel`, `removeChannel`, `poll`, `handleEvent` | called by connections on the loop thread |
| `TcpConnection` | `state_`, `reading_`, the channel, the input and output `Buffer` | `send`, `sendInLoop`, `shutdown`, `stopRead`, `connectEstablished`, `connectDestroyed`, `handleRead/Write/Close/Error` | its I/O loop, the server's base loop, the kernel |
| `TcpServer`, `Acceptor` | `connections_`, the thread pool | `newConnection`, `removeConnection(InLoop)`, destructor | base loop and I/O loops |
| `EventLoopThread(Pool)`, `Thread` | `loop_`, `exiting_`, `loops_`, `next_` | `startLoop`, `threadFunc`, `getNextLoop`, destructor | starts and joins the I/O loops |
| `Buffer` | the vector and two indices | `append`, `retrieve...`, `readFd`, `writeFd`, `makeSpace` | one loop thread |
| `HttpContext`, `HttpServer` | parse state, header bytes, content length, the request | `parseRequest`, `onConnection`, `onMessage`, `onRequest` | the connection's input buffer, `send`, `shutdown` |
| `InferenceController` | none (a request counter) | `handleAsync`, `handle`, validation | scheduler; hands the answer back to the connection's loop through a `weak_ptr` |
| `InferenceScheduler` | `running_`, `stopping_`, `tasks_`, the workers | `start`, `submit`, `stop`, `workerLoop` | registry, metrics, backends |
| `ModelRegistry` | registrations, default model | `loadFromFile`, `add`, `initialize`, `resolve` | scheduler, management API |
| `InferenceMetrics` | counters, gauges, histograms | `record...`, `setQueueDepth`, `renderPrometheus` | written by workers and I/O threads |
| `ManagementController` | none | `/healthz`, `/models`, `/metrics` | registry, scheduler, metrics |
| Backends, `YoloV8Processor` | library objects, device buffers, `loaded_`, `status_` | `load`, `warmup`, `run`, `infer`, `close`; `preprocess`, `postprocess` | TensorFlow, TensorRT, CUDA; shared by the workers |
| Log front ends | a small buffer per statement; one shared level | `operator<<`, `~Logger`; `LOG_INFO`... | `g_output`, `std::cout` |
| Asynchronous logging | current, next and full buffers, the log file | `append`, `threadFunc`, `stop`, `rollFile` | every thread writes, one thread flushes |
| Timers | timers ordered by expiration, timerfd | `addTimer`, `handleRead`, `reset` | one loop (which never constructs it) |
| Time wheel (`keepalive/`) | a ring of buckets of entries | `enqueue`, `back`, entry destructor | the example echo server |
| `end2end/` | bindings, device and host buffers | `make_pipe`, `letterbox`, `infer`, `postprocess` | OpenCV, TensorRT |
| `main.cc` | signal thread | start-up and shutdown order | all of the above |

What is hard in this code: functors handed between threads while a loop is
about to block; a state tested on one thread and used on another; writes that
take part of a message, with the half close waiting for the rest; a connection
that is owned by a map on one loop, by functors on another and by a `weak_ptr`
in a worker; peers that close or reset at any moment; a bounded queue with
condition-variable hand-over, drained at stop; a byte vector that moves or
grows; requests cut into arbitrary fragments; library calls that fail half-way
through a load; buffers shared by workers; rounding at every image size; a
timerfd that goes off once.  `PROJECT.json` lists each
hazard at its line with the properties that watch it.

## 2. Modules

| Module | What it models |
|---|---|
| `FunctorExecutor` | abstract: a first-in first-out executor that may be asked to stop |
| `EventLoop` | `EventLoop.cc`, with the eventfd and the poll |
| `SequenceFacts` | lemmas about sequences that the proofs share |
| `EventLoopProofs` | proofs about `EventLoop` |
| `ChannelPoller` | operators for a channel, `EPollPoller`'s bookkeeping and epoll's own |
| `TcpConnection` | one connection with its server, its loops, a worker, a foreign thread and the peer; uses `ChannelPoller` |
| `TcpConnectionProofs` | proofs about `TcpConnection` and the operators of `ChannelPoller` |
| `BoundedTaskPool` | abstract: a bounded line of tasks served by a fixed number of workers |
| `InferenceScheduler` | `InferenceScheduler.cc` |
| `InferenceSchedulerProofs` | proofs about `InferenceScheduler` and `InferenceService` |
| `ByteQueue` | abstract: a queue of bytes |
| `Buffer` | `Buffer.h`, `Buffer.cc` |
| `BufferProofs` | proofs about `Buffer` and `HttpServer` |
| `HttpServer` | `HttpContext.cc` with multipart bodies, `HttpServer.cc`, and the routes of `main.cc`, on one connection's stream |
| `AsyncLogging` | `AsyncLogging.cc` over `FixedBuffer.h`, `LogFile.cc`, `FileUtil.cc` |
| `LogFrontEnd` | `Logging.cc` over `LogStream.cc`, and the other front end, `Logger.cc` |
| `TimerQueue` | `TimerQueue.cc`, `Timer.cc`, `Timestamp` |
| `IdleWheel` | `CircularBuffer.h`, `myEntry.h` and the callbacks of the echo server |
| `TimersProofs` | proofs about `TimerQueue` and `IdleWheel` |
| `YoloV8Processor` | `YoloV8Processor.cc` in exact arithmetic |
| `InferenceBackend` | `TensorRTBackend.cc`, `TensorFlowBackend.cc`, `MockBackend.cc` and the threads that share one |
| `End2End` | `end2end/main.cpp`, `yolov8.hpp`; extends `YoloV8Processor` for the arithmetic |
| `DetectionProofs` | proofs about `YoloV8Processor`, `InferenceBackend` and `End2End` |
| `InferenceService` | `ModelRegistry.cc`, `InferenceController.cc`, `InferenceMetrics.cc`, `ManagementController.cc` over the pool, from start-up to the answer |
| `ServerProgram` | the threads of `main.cc`: `EventLoopThread(Pool)`, `TcpServer`, signal thread, workers, from the construction of the server to the end of `main()` |
| `ProgramProofs` | proofs about `ServerProgram`, `AsyncLogging` and `LogFrontEnd` |
| `MC...` | the instances TLC checks |

A definition whose comment starts with "Fault:" is a bug put into one
definition on purpose, named in `PROJECT.json` with the property that finds it.
No specification uses one.

**EventLoop.** `lpc` is where the loop thread is in `loop()`; the other
variables carry the names of the members.  `queueInLoop()` and `quit()` by a
foreign thread are two steps each, the assignment or the locked push and then
the write to the eventfd (`WriteWakeup`), because the loop runs in between.
The loop thread itself calls only from a handler or a functor.  The history
variables `queued`, `ran` and `direct` record functors; `quitBy` records who
called `quit()`.

**TcpConnection.** Both loops are queues of functors (what `FunctorExecutor`
promises of a loop), and a handler or a functor is one step.  A reply is
`ReplyLen` units, and `write()` takes any number of them.  The peer may send,
close and reset at any time; a reset is seen once as `ECONNRESET`, afterwards
as `EPIPE`.  Requests that arrive pipelined in one chunk are chunks that follow
each other.  `Async` lets requests go to the scheduler (`stopRead()` and a
response from a worker).  `OffLoop` lets a connection be shared with a thread
that uses the public `send()` and `shutdown()`, whose test of `state_`,
assignment and hand-over are separate steps; such a thread is there or not
from the start (`foreign`).  Properties that an unsynchronised foreign
`shutdown()` breaks are stated for connections without one (`OnLoop`).

**InferenceScheduler.** Each region under `mutex_` is one step; notifications
after the unlock, `infer()`, the completion and the joins are steps of their
own, spurious wake-ups included.  The registry is the constant `Route`.

**Buffer.** The vector is a function on its indices; `Grown`, `Moved` and
`Written` are the three ways its memory changes.

**HttpServer.** The stream is a sequence of units: CR and LF, which the parser
searches for, one unit for each kind of request line, header and boundary, `x`
for other text.  A client sends a script of messages cut anywhere; a step is
one line or one body of `parseRequest()`, or one turn of the loop in
`onMessage()`.  `Find`, `Matches` and `ParameterValue` are the searches of
`parseMultipartBody()` as the code makes them, with the position from which
each starts.  The reference is computed from the script, never from the
buffer: which answers each message deserves, with its fields and files, up to
the one that ends the conversation.

**AsyncLogging.** A record is one unit of a buffer (`~Logger()` hands over
buffers of one size).  Buffers keep what was written to them, since the writer
puts them into the file in full; the memory of a destroyed buffer may come back
from `new`.  The file is what `LogFile` and `FileUtil` keep of it: bytes
written, the second it was opened, the period, what is flushed.

**LogFrontEnd.** A statement is a sequence of pieces, texts of some length and
numbers, put one by one into the small buffer, each with the code's own test
for room; the digits of a number are computed as `formatInteger()` computes
them, on integers without a width (the most negative one is not covered).  `level_` is the shared level of `Logger.cc`, set and read by threads in
separate steps.

**InferenceService.** An installation is a build, its settings and a registry
document, each entry reduced to what `loadFromFile()` tests.  The scheduler is
the abstract pool.  `Checks` is the sequence of tests of `buildRequest()` on
the fields of a request.  A request and its connection are one, since the
answer closes the connection.  A scrape of `/metrics` is a step that copies
what `renderPrometheus()` reads under the mutex.

**ServerProgram.** A loop has the steps that start-up and shutdown can fall
between: entry, the test of `quit_`, the poll, the swap, each functor.
`quit()` is two steps.  Each of `socket`, `bind`, `listen`, `eventfd` and
`accept4` may fail; all but the last end the program through `LOG_FATAL`.
Connections are accepted round robin, ask for at most one inference, and may
be closed by the peer; `mpc` and `k` are where `main()` is, the destructors
included.

**TimerQueue.** `clock` is the real time; `Now` is what `Timestamp::now()`
returns, the number of whole seconds, which everything else takes for
microseconds.  `handleRead()` is cut into its callbacks and the turns of
`reset()`, since a callback may add timers and the clock runs on in between.
`EventLoop` never constructs its `timerQueue_`: the model's user does.

**IdleWheel.** Buckets are sets of connections (their entries); an entry is
destroyed when the last bucket lets it go.

**YoloV8Processor, End2End.** A float is read as the rational it stands for
and everything is scaled to integers: lengths in an image are counted in units
of `1 / (2 num)`, where `num / den` is the scale.  Rounding, truncation and
clamping are the code's.  Pixels are positions: what is checked is which one is
read and which element of the tensor is written.

**InferenceBackend.** `load()` is the sequence of library calls of each
backend; it stops after any of them, and a table says which failures call
`close()`.  Afterwards each worker is at a step of `run()`; an image stands for
its tensor and for what the network finds in it, so that a result can be
compared with the request.

## 3. Runs

| Run | Shows | Instance |
|---|---|---|
| `event_loop` | no wake-up lost for a functor or a quit, functors in order, `quit()` ends a running loop, refinement of `FunctorExecutor` (every functor runs unless the loop stops) | 2 threads, 3 functors, 1 channel |
| `scheduler` | what `mutex_` protects (`MonitorInv`: bound, gauge, order, drained at stop, completed once, each task in one place, the stages of `stop()`), no idle worker, accepted work completes, `stop()` returns, refinement of `BoundedTaskPool` | 2 workers, capacity 2, five requests, three of them routable |
| `connection` | poller agrees with epoll and with what is buffered, stream in order and its end last, destroyed once and reported in pairs, by the queues, life cycle and ownership that make it so, released and freed | 3 replies of 2 units, 4 chunks, with and without a foreign thread |
| `connection_leak` | **violated**: after `stopRead()` the peer's close is never seen | 2 replies, 3 chunks |
| `loop_data` | buffer: memory bound, refinement of `ByteQueue`; parser: each message is answered as it deserves, in order, none left behind and nothing of one in the next, the input within the limits; timers: a live one is in one place, runs when due and not before; wheel: an open connection can be shut and is shut once | prepend 2, vector 3, stack buffer 2, chunks of at most 3; 35 kinds of message in scripts of two or three, chunks of any size, limits of 13 and 23 units; 3 timers, 4 ticks, 4 callbacks; a wheel of 3, 3 connections, 7 turns |
| `logging` | a record that fits is whole and its numbers read back; no record lost or overtaken, buffers come back, every record reaches the disk or `stop()` returns | buffers of 2 units, 6 records, 2 seconds; statements around the 4000 bytes of the small buffer; 2 threads on the shared level |
| `service` | configuration checked, requests routed and answered as they deserve, those that reach `submit()` counted, scrapes consistent | 15 installations, 3 requests, 1 worker, a line of 1 or 2, three timings around two histogram bounds |
| `program` | each connection destroyed once, functors reach loops that exist, accepted connections are established, a signal ends a running program | 2 I/O threads, 2 connections |
| `timers_lost` | **violated**: a due timer whose timerfd went off too early never runs | 1 timer, 12 ticks |
| `wheel_life` | **violated**: a connection that is shut for being idle was silent for as many turns as the wheel has buckets | a wheel of 8, 2 connections, 10 turns |
| `invalid_uncounted` | **violated**: a request that fails validation is counted as such | as `service` |
| `detection` | every pixel and every element in bounds; detections chosen as greedy suppression defines; a worker gets its own; nothing leaks from a failed load; a frame fills the canvas, and with an engine of the expected shape it fits its buffer and the boxes fit the frame | canvas 6 by 6, images up to 10 by 10, all triples of 16 boxes; 2 workers on each backend; 33 command lines on 6 engines |

Parts that share no state and are small (what the callbacks of one loop work on,
the log's front and back end, the three parts of detection) are checked in one run: the variable
`part` of the MC module says whose behaviour it is.

**Bounds.** Three functors let one wait in the queue, one in the swapped-out
vector and one be queued by a functor; two threads race each other and the
loop.  Two workers and a queue of two are full with the routable requests
while a worker is on its way; two more are refused by the registry.  Two units
per reply are the least that can be split, and three replies let two wait
behind one.  A vector of five with chunks of three reaches growing, moving and
the split read from every offset.  The header limit is the length of the
longest header that has to pass; its neighbours exceed it in one line and in
sum; the body limit is a multipart body of two parts.  A buffer of two holds
one record (`avail() > len` leaves a slot unused), so six records make the
front end allocate a third buffer twice.  A line of one with one worker has a
request running, one waiting and one refused; a task that neither waits nor
runs, one that runs past the lower bound of the histograms and one that waits as
long and takes longer than both put every bucket to use.  Two I/O threads are the least
for which the order of quits and joins matters.  Three timers let one expire,
one wait and one be added by a callback; seven turns take a wheel of three
round twice.  Images of odd and even sides, wider, higher and smaller than an
even canvas meet every rounding case of the letterbox; three boxes are the
least for a chain in which the middle one is suppressed.

**Deadlock** is not checked where the program may stop: a loop that has quit, a
scheduler nobody submits to, a connection that is gone, a script that is read,
a logger, a queue of timers or a program that has ended.

**Fairness.** A loop thread that can take a step takes one (threads are
scheduled, epoll is level triggered, `epoll_wait` returns when a descriptor is
ready); `wakeup()` follows the push it belongs to; workers are scheduled and
`infer()` returns; the log writer is scheduled, its wait ends after three
seconds and `fwrite()` writes in the end (`FileUtil::append()` repeats a short
write without leaving its loop, so a file that never takes the rest keeps the
writer there, which is not modelled); a join returns when its thread has ended; time
passes.  Nothing is assumed of users: nobody has to submit, send, stop or
signal.  `PollEmpty` and `PollTimeout` (the time-out, `kPollTimeMs` = 10,000,000 ms, which
are 10,000 seconds) and spurious wake-ups are not fair: progress never rests on
them.  `HandleWrite` is fair, which takes for granted that a peer that neither
closes nor resets goes on reading, so that a socket with output waiting becomes
writable.  `Respond` is fair while the service runs and not after `stop()`, when
a loop may return with the answer in its queue.  In `TcpConnection` a peer
that has seen our end of stream closes its side, which is what a client does
after `Connection: close`.

**Known behaviours without a run of their own.**  They follow from the models
or from the code they leave aside:

* a `send()` queued by another thread that runs after the shutdown still
  writes, since `sendInLoop()` tests for `kDisconnected` only;
* the write after a reset gives `EPIPE`, and nothing ignores `SIGPIPE`;
* an unsynchronised `shutdown()` by another thread may overwrite the
  `kDisconnected` of `handleClose()`;
* a connection that was refused with 400 or 413 is read until the peer closes,
  and nothing empties its input buffer (`HttpServer.cc:74`);
* a part whose `filename=` comes before its `name=` gets the file's name as its
  field name (`HttpContext.cc:22` finds the key inside the other);
* a `quit()` before `loop()` is lost (`EventLoop.cc:67`): a signal before the
  base loop is entered, or a shutdown that overtakes an I/O thread on its way
  into `loop()`, leaves the program running;
* responses and `connectDestroyed()` left in the queue of a loop that quits
  never run, and `quit()` may write to the eventfd of a loop that is gone;
* a refused request is counted under the model name its client chose, so the
  table of counters grows with the names; `/healthz` stays healthy after the
  scheduler has stopped;
* a negative `Content-Length` is a huge number to `strtoull()` and answered with
  413, where `推理后端实现-第1步-HTTP基础改造.md:102` has 400 for what is not a
  non-negative integer (`Numbers` and the message `Negative`);
* a recycled log buffer is written in full, with the records of its last use,
  since `length()` is the size of the array (`FixedBuffer.h:32`); records
  appended during the writer's last round are not written, nor is the record
  of a `LOG_FATAL` that aborts with asynchronous output;
* `operator<<(double)` ends without a `return` when the buffer is full
  (`LogStream.cc:97`, undefined behaviour); a line of `Logger.cc` may carry the
  level another thread has just set; the time in a record is cut to 17
  characters, without its seconds;
* the echo server asks for the turns of its wheel only after `loop()` has
  returned, so that the callbacks alone are its program, and its I/O threads
  share the wheel without a lock; the model turns it at any time;
* a TensorFlow run that succeeded is reported as failed when another worker's
  run sets `status_` before it is read (`TensorFlowBackend.cc:90`);
* `cudaSetDevice()` acts on the thread that loads; workers use device 0;
* at the top and left edge of an enlarged image `preprocess()` clamps the index
  and not the fraction, and blends in the second row and column;
* the detector aborts on a directory, which exists and has no suffix;
* nothing compares the engine with what the detector does with it: a canvas of
  floats is copied into an input of half precision or of another size
  (`yolov8.hpp:264`), and `postprocess()` reads four outputs of an engine that
  may have fewer or smaller ones (`yolov8.hpp:293`); the model has both steps go
  on or stop there, with whatever was read.

## 4. Proofs

TLAPS checks, for all values of the constants:

* `EventLoopProofs!TypeCorrect`, `WakeupsNotLost`, `HandedOverInOrder`.
  `NoLostWakeup` is not inductive: it speaks of a loop that is about to poll.
  `WakeupInv` says the same of functors before `loop()` and everywhere from
  the swap to the next poll: the swap empties the queue, whoever fills it
  afterwards raises the eventfd, and only `handleRead()` lowers it, before the
  next swap.
  `HandoverInv` adds that the swapped-out vector is empty outside the run.
* `EventLoopProofs!ImplementsExecutor`: every step of the loop is a step of
  `FunctorExecutor` or changes nothing it shows.
* `BufferProofs!IndicesInOrder`, `MemoryIsBounded`, `ImplementsQueue`: each
  of `Grown`, `Moved` and `Written` keeps the readable bytes (lemmas
  `GrownFacts`, `MovedFacts`, `WrittenFacts`); `append()` and the two-part
  `readFd()` are compositions of them.  Growing happens only if the free space
  in front and behind is too small, which bounds the vector by twice the
  readable bytes.
* `BufferProofs!HttpInputBounded`.  `InputBounded` speaks of a server that
  waits; `BoundInv` adds what each parse state has already found out: the
  header lines taken so far are within the limit, and a body is waited for only
  when its declared length is.
* `BufferProofs!HttpAnswersInOrder`.  `AnsweredInOrder` compares two lists of
  answers and says nothing of the stream, so it is far from inductive.
  `FrameInv` says where the parser is in the client's script: after `n`
  answered messages, at a line of the next one, in its body, or with all of it
  read; what is in the buffer followed by what has not arrived is the rest of
  the script from exactly there (`Remaining`, `Unread`, `Following`); the
  request built so far holds what the lines before that place say, so that
  nothing of an earlier request is in it; and a server that waits has found the
  buffer short of a line or of the body.  A fragment moves units from one side
  of `Remaining` to the other (`FragmentMoves`); the first CRLF of the buffer
  is the end of the line the parser is at, because a line holds none
  (`FirstLine`); the first line that breaks a limit or a rule is the one the
  reference refuses the message for (`FirstOffence`); a repeated header is read
  as the last one (`LastStep`, `HeaderAdded`).
* `InferenceSchedulerProofs!MonitorCorrect`, `NoIdleWorkerCorrect`,
  `ImplementsPool`.  "Bounded, in order, drained, completed once" is not
  inductive: that a stopped scheduler is drained needs to know at which stage
  of `stop()` workers may have exited (`StopProtocol`), and that a completion
  is called once needs to know where every task is (`TaskLedger`).  Both say
  something of the code, so they are part of `MonitorInv`, which TLC checks as
  a whole.  `NoIdleWorker` is inductive on top of it: a task and the awake
  worker that will take it come and go together, and every step that puts a
  worker to sleep has found the queue empty.  The refinement maps what workers
  hold to the pool's work in progress; the pool bounds it by the number of
  workers, which is where `Held` injected into `Workers` is counted.
* `InferenceSchedulerProofs!ServiceRoutesRight`, `ServiceAnswersDeserved`,
  `ServiceMetricsAgree`.  `StartInv` says what start-up has established when
  requests are served: the settings are in range, the document is sound, every
  enabled entry is registered and the default is one of them.  `RouteInv` says
  which registration an accepted request was given to: a candidate for its
  model and backend of the highest priority, which for `resolve()` is an
  argument over the turns of its loop.  `AnswerInv` follows a request from its
  arrival to its answer, and the numbers the requests got; `FullInv` remembers
  that a line that was full held as many accepted requests (`FullLine`).  `MetricsInv` says
  which requests each counter counts (`Tally`), that no histogram runs ahead of
  another, and that a report was right when it was made; without the last,
  counters that only grow could not be compared with an old report.
* `TcpConnectionProofs!TypeCorrect`, `PollerCorrect`, `StreamCorrect`,
  `DestroyedCorrect`.  The lemmas about `ChannelPoller` say that each update
  keeps `index_`, `events_` and the epoll set in step (`ChannelOK`).
  `FlowInv` carries the stream: output is buffered exactly while the channel
  waits for EPOLLOUT, until a close; it holds with a foreign thread too.
  `LoopInv` carries the life cycle of a connection its loop alone uses: the
  functors that may be queued and in which order (`QueueOrder`), what each
  state implies (`LifeCycle`) and who takes the connection out of the map
  (`Ownership`).  None of the three is inductive without the others: that
  `connectDestroyed()` runs once rests on `handleClose()` asking for the
  removal once, which rests on the channel being out of the poller when the
  state is `kDisconnected`.
* `DetectionProofs!DetectionsAreOwn`, `HeldWhileLoaded`: with TensorRT the
  buffers belong to one worker at a time (`executionMutex_`) and hold at each step of
  `run()` what that step has put there (`StageInv`, `RunInv`); the steps of
  `load()` that fail either hold nothing yet or call `close()` (`HeldParts`).
  `TensorStaysInBounds`: `num` is a side of the canvas and `den` the same side of
  the image, so the resized image fits the canvas and every source index, after
  truncation and clamping, fits the image; the proof is integer division, for
  every size.
  `CanvasIsFilled`: the half pixels that `letterbox()` rounds down on one side
  and up on the other add up, for every engine and frame.  `ObjectsAreInFrame`:
  as long as nothing was copied or read past a buffer, clamping keeps the
  objects inside the frame; without that the objects are whatever was read.
  `FramesAreRight` is the whole of `FrameRight`: that nothing is overrun is
  shown of engines that `Suits` describes (an input that takes the canvas, four
  outputs that hold what is found), since the code makes no such test; TLC
  refutes `CopiesFit` for the others.  `CopyInv` says that before `make_pipe()`
  the bindings of the engine are parted into inputs and outputs in the engine's
  order (`Parted`), and that from then on the buffers of an output are of its
  size and the engine writes where it is copied from (`BuffersRight`).
  `SelectionIsRight`: the candidates are taken one at a time (`Collect`), sorted,
  and each is kept or not (`Select`); the lemmas `SelectTurn` and its kin say
  what one turn does to the set kept so far, and `PreInv` and `ChosenInv` that
  the result is that of one preprocessed image and its output.
* `TimersProofs!TimersInOnePlace`, `RunOnlyWhenDue`.  `QueueInv` says that a
  live timer's own entry is in the set if and only if the timer is not in the
  hands of `handleRead()`; `HandInv` that the hands hold each timer once and
  only what is due; `RanInv` that a timer without an interval that has run is
  deleted or in hand, behind the loop of `run()` or ahead of that of `reset()`.
* `TimersProofs!ShutOnce`, `EntriesLiveOneTurn`.  An entry lives exactly as
  long as some bucket holds it, so a connection that is open has one and a
  connection that was shut has none.  The inductive invariant shows more than was asked: only the bucket at
  `tail_` ever holds an entry, and a turn empties it, so `IdleSeconds` plays no
  part in how long a connection may be silent, which is what `wheel_life` finds.
* `ProgramProofs!ConnectionsDestroyedOnce`, `FunctorsHandedToLiveLoops`.
  `StageInv` says what the place of `main()` means for the loops: thread `l` is
  the `l`-th loop of the pool and built when `startLoop()` has returned it; an
  I/O loop is asked to quit, and returns, only when the workers and the
  connections are done with; nothing is accepted before the base loop runs.
  `PlacedInv` says that a functor is in the queue of its connection's loop, or
  of the base loop if it is a removal.  `ConnInv` counts: of the three things
  that can still ask for a removal (being about to be established, being
  connected, a queued removal) a connection has at most one, and none once it
  is out of the map while the base loop runs.  Without this count
  `DestroyedOnce` is not inductive: a second removal would queue a second
  `connectDestroyed()`.  The lemmas `CountAppend` and `CountTail` say what
  `queueInLoop()` and a run of the first functor do to a count.
* `ProgramProofs!LogBuffersComeBack`.  `LogInv` adds that the spare buffer of
  the front end is missing only while a full one waits: that is why a swap that
  gives two buffers away takes two.
* `ProgramProofs!LogNothingLost`, `LogKeptAtStop`.  `LineInv`, the core of
  `LostInv`: the records that occur on the files, then the fresh ones of what
  the writer still has, of the full buffers and of the current one are the
  records appended, in order; every other slot of a buffer, recycled memory
  included, holds a record that is on a file already.  So writing whole buffers
  repeats records and never runs ahead.  `StopInv` says that what the writer
  has in hand covers what `stop()` owes.
* `ProgramProofs!RecordsAreWhole`.  `FrontInv` says that the small buffer
  begins with the pieces that fitted, one behind the other, and that a piece
  that did not fit left no trace.  That the digits read back as the number
  follows the recursion of `formatInteger()`: the lemmas first show that the
  recursive definition defines a function (`PartialExists`, `PartialAgree`,
  `DigitsStep`) and then descend through it (`ReadsAsItself`).

The provers cannot instantiate the library's induction theorems.  Where an
argument runs over data, the lemmas of `SequenceFacts` do it by the least
element of a set of counterexamples (`LeastNat`, `NatSetInduction`), and
`FoldExists` and `TurnByTurn` show of a fold or a flattening that it exists and
what one turn of it does.

Most inductive invariants were first checked by TLC on instances of the runs; the
ones that quantify over functions, which TLC cannot, were not.  The assumptions are the ones the modules name: the
loop thread is not one of the foreign threads, sizes and the number of I/O
threads are natural numbers, a log buffer has room for a record, the
filler byte is a byte; "no worker" is not a worker; a timer's address is a
number, times are natural; an argument that exists and has the suffix of an
image has a frame, and what a network finds has ordered integer corners and is
finite; an engine has at most one input; a network's output is a sequence of
candidates; an installation and a client's script have their types, bounds
of a histogram grow, and a task takes no less time than it waits and runs; a client's lines contain no CRLF, the length it declares
is that of the body, and its message records what the body was built from
(`Truthful`; its part `ReadsBack` says that `parseMultipartBody()` reads a body
back as those parts, see below); the small buffer of the log has more than 35 bytes, what
is written as a number is shorter than `kMaxNumericSize`, and some thread
tells.

Only model-checked, and why:

* everything under fairness: liveness (`AcceptedCompletes`, `StopReturns`,
  `ReadingIsReleased`, `ShutdownCompletes`, `SignalEndsRunningProgram`...) and the fairness
  part of the refinements are out of the prover's reach;
* what `parseMultipartBody()` computes: `Multipart` is recursive over the body,
  so that it reads back the parts a body was built from is `ReadsBack`, which
  `HttpAnswersInOrder` assumes of the client's messages and TLC evaluates for
  every message of the run, whole bodies and broken ones.

## 5. What is not modelled

Not modelled: the text of JSON and of pages; the high-water-mark and
write-complete callbacks, the initial callback of threads and a pool without
threads, none of which the program uses; the synchronous `handle()` of the
controller, which nothing installs; the sums of the histograms and the rounding
errors of floats; the options of sockets and the text of addresses; the data
race of several threads on the time wheel; TensorFlow, TensorRT, CUDA, OpenCV
and stb_image but for what their callers can see; the vendored
`filesystem.hpp`, the installed copy of the headers and the scripts of `tools/`.

Every part with state of its own has a model.
