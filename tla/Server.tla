------------------------------- MODULE Server --------------------------------
(***************************************************************************)
(* The server around one request (src/server/handler.rs, src/main.rs): the *)
(* request waits for a permit, is checked, has its archive built on the    *)
(* blocking pool, is answered, and its body is streamed by another job of  *)
(* the pool, while other requests, seen from outside, use up permits and   *)
(* threads, clients leave and the server is told to stop.                  *)
(***************************************************************************)
EXTENDS StreamBody, RangeHeader, FiniteSets

CONSTANTS Request,  \* the requests, and the
          Me,       \* one that is looked at
          Queries,  \* what Me may ask for
          Totals    \* the sizes of archives

VARIABLES
  phase,     \* "starting", "serving", "draining" (no new requests), "closing" (none
             \* left), "stopping" (the runtime shuts its pool down) or "exited"
  waiting,   \* the requests that wait for a permit, in order
  handling,  \* the requests that have one: it is kept until the response head
  queue,     \* the jobs that wait for a thread of the pool, in order
  running,   \* the jobs that have one
  bodies,    \* the other requests whose body is being received
  stage,     \* Me: "absent", "waiting", "handling", "heading" (its body exists),
             \* "answered" or "left"
  query,     \* what Me asks for
  built,     \* what became of Me's build: "nothing", "archive", "missing" or "failed"
  total,     \* total_size of the archive
  response   \* the head of the response: status, Content-Range

poolVars == <<queue, running>>
meVars == <<stage, query, built, total, response>>
serverVars == <<phase, waiting, handling, poolVars, bodies, meVars>>
allVars == <<vars, serverVars>>

Other == Request \ {Me}

max_concurrent_requests == Setting("MAX_CONCURRENT_REQUESTS")
max_blocking_threads == Setting("BLOCKING_QUEUE_SIZE")
worker_threads == Setting("THREAD_POOL_SIZE")

(***************************************************************************)
(* A query: the first check of the parameters and the path that fails, its *)
(* Range header ("binary" is not text), and whether the file name can be   *)
(* put in a header.                                                        *)
(***************************************************************************)
Flaw == {"none", "empty path", "unknown format", "outside", "missing", "unresolved",
         "leads outside"}
NoHeader == [form |-> "absent"]
BinaryHeader == [form |-> "binary"]
Query == [flaw : Flaw, range : Header \cup {NoHeader, BinaryHeader}, named : BOOLEAN]

ASSUME ServerAssumption ==
  /\ Me \in Request /\ IsFiniteSet(Request)
  /\ Queries \subseteq Query /\ Queries # {}
  /\ Totals \subseteq 1..MaxLength

\* The head of a response; bytes [first, last) of an archive of that size are announced.
NoResponse == [status |-> 0, first |-> 0, last |-> 0]
Error(status) == [NoResponse EXCEPT !.status = status]

Build(r) == <<r, "build">>
Stream(r) == <<r, "stream">>
Queued == {queue[i] : i \in 1..Len(queue)}
Pending(job) == job \in Queued \cup running

\* A request that has nothing to do with the server any more.
Idle(r) == /\ r \notin handling \cup bodies /\ \A i \in 1..Len(waiting) : waiting[i] # r
           /\ ~ Pending(Build(r)) /\ ~ Pending(Stream(r))

-----------------------------------------------------------------------------
ServerInit ==
  /\ Init
  /\ phase = "starting"
  /\ waiting = <<>> /\ handling = {} /\ queue = <<>> /\ running = {} /\ bodies = {}
  /\ stage = "absent" /\ query \in Queries /\ built = "nothing" /\ total = 0
  /\ response = NoResponse

\* The runtime cannot be built without threads; the address may be unusable.
Boot ==
  /\ phase = "starting"
  /\ \/ phase' = IF max_blocking_threads > 0 /\ worker_threads > 0 THEN "serving" ELSE "exited"
     \/ phase' = "closing"
  /\ UNCHANGED <<vars, waiting, handling, poolVars, bodies, meVars>>

Arrive(r) ==
  /\ phase = "serving" /\ Idle(r) /\ (r = Me => stage = "absent")
  /\ waiting' = Append(waiting, r)
  /\ stage' = IF r = Me THEN "waiting" ELSE stage
  /\ UNCHANGED <<vars, phase, handling, poolVars, bodies, query, built, total, response>>

\* The checks of a request that has a permit, one after the other: only a path that
\* exists and cannot be resolved is the server's fault.
Refusal(flaw) == Error(IF flaw = "unresolved" THEN 500 ELSE 400)

Accept(r) ==
  /\ handling' = handling \cup {r} /\ queue' = Append(queue, Build(r))
  /\ stage' = IF r = Me THEN "handling" ELSE stage
  /\ UNCHANGED response

Refuse(r) ==
  /\ IF r = Me THEN stage' = "answered" /\ response' = Refusal(query.flaw)
               ELSE UNCHANGED <<stage, response>>
  /\ UNCHANGED <<handling, queue>>

\* The concurrency limit gives a permit to the first that waits, and the handler
\* runs to its first await.
Admit ==
  /\ waiting # <<>> /\ Cardinality(handling) < max_concurrent_requests
  /\ waiting' = Tail(waiting)
  /\ \/ (Head(waiting) = Me => query.flaw = "none") /\ Accept(Head(waiting))
     \/ (Head(waiting) = Me => query.flaw # "none") /\ Refuse(Head(waiting))
  /\ UNCHANGED <<vars, phase, running, bodies, query, built, total>>

-----------------------------------------------------------------------------
\* The job queued last goes first.
TakeLast ==
  /\ running' = running \cup {queue[Len(queue)]}
  /\ queue' = SubSeq(queue, 1, Len(queue) - 1)
  /\ IF queue[Len(queue)] = Stream(Me) THEN Start ELSE UNCHANGED vars

TakeFirst ==
  /\ running' = running \cup {Head(queue)} /\ queue' = Tail(queue)
  /\ IF Head(queue) = Stream(Me) THEN Start ELSE UNCHANGED vars

\* The pool gives the first job that waits a thread, if there is one.
Dispatch ==
  /\ queue # <<>> /\ Cardinality(running) < max_blocking_threads
  /\ TakeFirst
  /\ UNCHANGED <<phase, waiting, handling, bodies, meVars>>

Finish(job) == job \in running /\ running' = running \ {job} /\ UNCHANGED queue

\* get_or_create returns an archive, or an error that says a file is missing, or
\* another; the job goes on though nobody may wait for it any more.
BuildEnds(r) ==
  /\ Finish(Build(r))
  /\ IF r = Me
     THEN \/ built' = "archive" /\ total' \in Totals
          \/ built' \in {"missing", "failed"} /\ UNCHANGED total
     ELSE UNCHANGED <<built, total>>
  /\ UNCHANGED <<vars, phase, waiting, handling, bodies, stage, query, response>>

\* The task of Me's body has come to its end.
TaskReturns ==
  /\ task = "done" /\ Finish(Stream(Me))
  /\ UNCHANGED <<vars, phase, waiting, handling, bodies, meVars>>

-----------------------------------------------------------------------------
\* The handler goes on when the build has ended.
BuildAwaited(r) == r \in handling /\ ~ Pending(Build(r))

Parsed == ParseRangeHeader(query.range, total)

\* No archive, or a Range header that is not text: an error.
RespondError ==
  /\ stage = "handling" /\ BuildAwaited(Me)
  /\ \/ built = "missing" /\ response' = Error(400)
     \/ built = "failed" /\ response' = Error(500)
     \/ built = "archive" /\ query.range = BinaryHeader /\ response' = Error(400)
  /\ stage' = "answered" /\ handling' = handling \ {Me}
  /\ UNCHANGED <<vars, phase, waiting, poolVars, bodies, query, built, total>>

\* A range that lies outside the archive: 416, without a body.
RespondUnsatisfiable ==
  /\ stage = "handling" /\ BuildAwaited(Me) /\ built = "archive"
  /\ query.range \in Header /\ Parsed = Unsatisfiable
  /\ response' = Error(416)
  /\ stage' = "answered" /\ handling' = handling \ {Me}
  /\ UNCHANGED <<vars, phase, waiting, poolVars, bodies, query, built, total>>

\* A satisfiable range, or the whole archive if there is no header or it is malformed:
\* create_stream_body.
RespondBody ==
  /\ stage = "handling" /\ BuildAwaited(Me) /\ built = "archive"
  /\ \/ /\ query.range \in Header /\ Parsed.kind = "ok"
        /\ response' = [status |-> 206, first |-> Parsed.first, last |-> Parsed.last + 1]
     \/ /\ query.range = NoHeader \/ (query.range \in Header /\ Parsed = Malformed)
        /\ response' = [status |-> 200, first |-> 0, last |-> total]
  /\ CreateBody(response'.last - response'.first)
  /\ queue' = Append(queue, Stream(Me))
  /\ stage' = "heading"
  /\ UNCHANGED <<phase, waiting, handling, running, bodies, query, built, total>>

\* The headers of a response whose body exists: a name that cannot be sent makes it
\* an error, and the body is dropped.
WriteHead ==
  /\ stage = "heading"
  /\ IF query.named THEN UNCHANGED <<vars, response>>
                    ELSE Disconnect /\ response' = Error(400)
  /\ stage' = "answered" /\ handling' = handling \ {Me}
  /\ UNCHANGED <<phase, waiting, poolVars, bodies, query, built, total>>

\* Another request's build has ended: a body, none, or one that is dropped at once.
OtherAnswered(r) ==
  /\ BuildAwaited(r) /\ r # Me
  /\ handling' = handling \ {r}
  /\ \/ UNCHANGED <<queue, bodies>>
     \/ queue' = Append(queue, Stream(r)) /\ bodies' \in {bodies, bodies \cup {r}}
  /\ UNCHANGED <<vars, phase, waiting, running, meVars>>

\* The job of another body ends, at the end of its range or because the client is gone.
OtherStreamed(r) ==
  /\ r # Me /\ Finish(Stream(r))
  /\ UNCHANGED <<vars, phase, waiting, handling, bodies, meVars>>

\* Another client has the whole body, or leaves.
OtherBodyEnds(r) ==
  /\ bodies' = bodies \ {r} /\ r \in bodies
  /\ UNCHANGED <<vars, phase, waiting, handling, poolVars, meVars>>

-----------------------------------------------------------------------------
\* A client leaves before it is answered: it waits no longer, or its handler is
\* dropped and the permit with it.
LeaveWaiting(r) ==
  /\ \E i \in 1..Len(waiting) :
       /\ waiting[i] = r
       /\ waiting' = SubSeq(waiting, 1, i - 1) \o SubSeq(waiting, i + 1, Len(waiting))
  /\ stage' = IF r = Me THEN "left" ELSE stage
  /\ UNCHANGED <<vars, phase, handling, poolVars, bodies, query, built, total, response>>

LeaveHandling(r) ==
  /\ r \in handling /\ (r = Me => stage = "handling")
  /\ handling' = handling \ {r}
  /\ stage' = IF r = Me THEN "left" ELSE stage
  /\ UNCHANGED <<vars, phase, waiting, poolVars, bodies, query, built, total, response>>

\* The body is polled, and dropped, once the response head is out.
BodyStep == stage = "answered" /\ (Consume \/ Disconnect)

-----------------------------------------------------------------------------
\* Ctrl+C, or no way to wait for it: no new requests.
Shutdown ==
  /\ phase = "serving" /\ phase' = "draining"
  /\ UNCHANGED <<vars, waiting, handling, poolVars, bodies, meVars>>

\* Without graceful shutdown serve waits for handlers, not for bodies.
ServeReturnsEarly ==
  /\ phase = "draining"
  /\ waiting = <<>> /\ handling = {}
  /\ phase' = "closing"
  /\ UNCHANGED <<vars, waiting, handling, poolVars, bodies, meVars>>

\* axum::serve returns when all connections have ended.
ServeReturns ==
  /\ phase = "draining"
  /\ waiting = <<>> /\ handling = {} /\ bodies = {} /\ body # "open"
  /\ phase' = "closing"
  /\ UNCHANGED <<vars, waiting, handling, poolVars, bodies, meVars>>

\* async_main drops the state, and with it the watcher; main drops the runtime, whose
\* pool forgets the jobs that have not begun.
CancelAll ==
  /\ phase = "closing" /\ phase' = "stopping"
  /\ queue' = <<>> /\ running' = {}
  /\ IF task # "done" /\ body # "none" THEN task' = "done" ELSE UNCHANGED task
  /\ UNCHANGED <<length, cut, at, hand, channel, received, body,
                 waiting, handling, bodies, meVars>>

DropRuntime ==
  /\ phase = "closing" /\ phase' = "stopping"
  /\ queue' = <<>>
  /\ IF Stream(Me) \in Queued THEN Cancel ELSE UNCHANGED vars
  /\ UNCHANGED <<waiting, handling, running, bodies, meVars>>

\* The runtime waits for the jobs that have.
Exit ==
  /\ phase = "stopping" /\ running = {}
  /\ phase' = "exited"
  /\ UNCHANGED <<vars, waiting, handling, poolVars, bodies, meVars>>

-----------------------------------------------------------------------------
TaskStep == ReadChunk \/ ReadEnd \/ ReadError \/ Send \/ SendFails

Handler == RespondError \/ RespondUnsatisfiable \/ RespondBody \/ WriteHead

Streaming == (TaskStep \/ BodyStep \/ Cut) /\ UNCHANGED serverVars

ServerNext ==
  \/ Boot \/ Shutdown \/ ServeReturns \/ DropRuntime \/ Exit
  \/ Admit \/ Dispatch \/ TaskReturns
  \/ Handler
  \/ Streaming
  \/ \E r \in Request : \/ Arrive(r) \/ BuildEnds(r)
                        \/ LeaveWaiting(r) \/ LeaveHandling(r)
  \/ \E r \in Other : OtherAnswered(r) \/ OtherStreamed(r) \/ OtherBodyEnds(r)

(***************************************************************************)
(* The runtime runs what can run: it gives out permits and threads in the  *)
(* order they were asked for, builds come to an end, handlers go on, and a *)
(* task whose client is gone stops (DisconnectReleases).  What clients and *)
(* operators do is nobody's promise.                                       *)
(***************************************************************************)
ServerFairness ==
  /\ WF_allVars(Admit) /\ WF_allVars(Dispatch) /\ WF_allVars(Handler)
  /\ WF_allVars(TaskStep /\ ~ Spinning /\ UNCHANGED serverVars) /\ WF_allVars(TaskReturns)
  /\ \A r \in Request : WF_allVars(BuildEnds(r))
  /\ \A r \in Other : /\ WF_allVars(OtherAnswered(r))
                      /\ WF_allVars(r \notin bodies /\ OtherStreamed(r))
  /\ WF_allVars(ServeReturns) /\ WF_allVars(DropRuntime) /\ WF_allVars(Exit)

ServerSpec == ServerInit /\ [][ServerNext]_allVars /\ ServerFairness

-----------------------------------------------------------------------------
ServerTypeOK ==
  /\ TypeOK
  /\ phase \in {"starting", "serving", "draining", "closing", "stopping", "exited"}
  /\ waiting \in Seq(Request) /\ handling \subseteq Request /\ bodies \subseteq Other
  /\ queue \in Seq(Request \X {"build", "stream"})
  /\ running \subseteq Request \X {"build", "stream"}
  /\ stage \in {"absent", "waiting", "handling", "heading", "answered", "left"}
  /\ query \in Queries /\ built \in {"nothing", "archive", "missing", "failed"}
  /\ total \in {0} \cup Totals
  /\ response \in [status : {0, 200, 206, 400, 416, 500}, first : Nat, last : Nat]

(***************************************************************************)
(* The head of the response tells the truth: 206 announces the very        *)
(* positions the header asks for, 200 the whole archive to a client that   *)
(* asked for no range that could be understood, 416 none to one that asked *)
(* for positions that do not exist; the body is as long as announced, and  *)
(* a client that has come to its clean end has got all of it.              *)
(***************************************************************************)
ResponseHonest ==
  /\ response.status \in {200, 206} =>
       /\ length = response.last - response.first
       /\ body = "ended" => received = length
  /\ response.status = 206 =>
       /\ Understood(query.range)
       /\ response.first..(response.last - 1) = Asked(query.range, total)
  /\ response.status = 200 =>
       /\ ~ Understood(query.range)
       /\ response.first = 0 /\ response.last = total
  /\ response.status = 416 =>
       Understood(query.range) /\ Asked(query.range, total) = {} /\ body = "none"
  /\ response.status \in {400, 500} => body \in {"none", "dropped"}

(***************************************************************************)
(* Stopping cuts nobody off and leaves nothing running: when serve has     *)
(* returned nobody waits, is handled or is reading a body, nor does anybody*)
(* again, and the process exits with no job of the pool left, whose task   *)
(* might still be reading an archive.                                      *)
(***************************************************************************)
NobodyCutOff ==
  /\ phase \in {"closing", "stopping", "exited"} =>
       waiting = <<>> /\ handling = {} /\ bodies = {} /\ body # "open"
  /\ phase = "exited" =>
       queue = <<>> /\ running = {} /\ (body = "none" \/ task = "done")

\* Every step of the server is a step of its request's stream body, or none.
ImplementsStream == Init /\ [][Next]_vars

\* The other clients go on reading, so that their jobs end.
OthersGoOn == \A r \in Other : WF_allVars(OtherStreamed(r))

(***************************************************************************)
(* The pool keeps StreamBody's promise that there is a thread for the task *)
(* and that it runs, if other clients do not hold the threads for ever.    *)
(***************************************************************************)
TaskServed == OthersGoOn => WF_vars(Task /\ ~ Spinning)

(***************************************************************************)
(* A request is answered and its body comes to an end, unless its client   *)
(* leaves, whatever other requests come and go, as long as clients go on   *)
(* reading: permits and threads that others have had are there again for   *)
(* it, and what it waits for never waits for it.                           *)
(***************************************************************************)
Answered ==
  OthersGoOn /\ WF_allVars(Consume /\ UNCHANGED serverVars) =>
    (stage = "waiting" ~> stage \in {"answered", "left"} /\ body # "open")

(***************************************************************************)
(* Told to stop, the server exits once its clients have got or given up    *)
(* their bodies: no job of the pool and no connection is left behind.      *)
(***************************************************************************)
ShutdownEnds ==
  /\ OthersGoOn /\ (\A r \in Other : WF_allVars(OtherBodyEnds(r)))
  /\ WF_allVars(Consume /\ UNCHANGED serverVars)
  => (phase = "draining" ~> phase = "exited")
=============================================================================
