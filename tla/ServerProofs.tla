---------------------------- MODULE ServerProofs ----------------------------
(***************************************************************************)
(* The server for every set of requests, every configuration, every query  *)
(* and every archive: a Range header selects the positions it asks for,    *)
(* the stream of a request is StreamBody whatever the server does around   *)
(* it, and the head of its response tells the truth.                       *)
(***************************************************************************)
EXTENDS Server, StreamProofs, FiniteSetTheorems

-----------------------------------------------------------------------------
LEMMA SuffixClipped ==
  ASSUME NEW n \in Nat \ {0}, NEW size \in Nat \ {0}
  PROVE  LET a == size - Clip(n, size)
         IN /\ a \in Nat /\ a < size
            /\ \A q \in 0..(size - 1) : size - n <= q <=> a <= q
BY DEF Clip

LEMMA ClosedClipped ==
  ASSUME NEW a \in Nat, NEW b \in Nat, NEW size \in Nat \ {0}, a <= b, a < size
  PROVE  LET c == Clip(b, size - 1)
         IN /\ c \in Nat /\ a <= c /\ c < size
            /\ \A q \in 0..(size - 1) : q <= b <=> q <= c
BY DEF Clip

(***************************************************************************)
(* parse_range_header, for every header, archive and width of numbers: it  *)
(* refuses what cannot be understood, and of what can it selects exactly   *)
(* the positions of the archive that are asked for, or says there are none.*)
(***************************************************************************)
THEOREM RangeCorrect ==
  \A h \in Header, size \in Nat \ {0} :
    LET p == ParseRangeHeader(h, size)
    IN \/ p = Malformed /\ ~ Understood(h)
       \/ p = Unsatisfiable /\ Understood(h) /\ Asked(h, size) = {}
       \/ \E a, b \in Nat : /\ p = Satisfied(a, b) /\ Understood(h)
                            /\ a <= b /\ b < size /\ a..b = Asked(h, size)
<1> SUFFICES ASSUME NEW h \in Header, NEW size \in Nat \ {0}
             PROVE  LET p == ParseRangeHeader(h, size)
                    IN \/ p = Malformed /\ ~ Understood(h)
                       \/ p = Unsatisfiable /\ Understood(h) /\ Asked(h, size) = {}
                       \/ \E a, b \in Nat : /\ p = Satisfied(a, b) /\ Understood(h)
                                            /\ a <= b /\ b < size /\ a..b = Asked(h, size)
  OBVIOUS
<1>0. PICK m \in Nat, n \in Nat : m = h.first /\ n = h.last
  BY DEF Header
<1>5. h.form \in {"no range", "garbled", "suffix", "open", "closed"}
  BY DEF Header
<1>1. CASE h.form \in {"no range", "garbled"}
  BY <1>1 DEF ParseRangeHeader, Understood
<1>2. CASE h.form = "suffix"
  <2>1. ParseRangeHeader(h, size) = ParseSuffix(n, size)
    BY <1>0, <1>2 DEF ParseRangeHeader
  <2>2. Understood(h) <=> Fits(n)
    BY <1>0, <1>2 DEF Understood
  <2>3. Asked(h, size) = {q \in 0..(size - 1) : size - n <= q}
    BY <1>0, <1>2 DEF Asked
  <2>4. CASE n = 0 /\ Fits(n)
    BY <2>1, <2>2, <2>3, <2>4 DEF ParseSuffix
  <2>5. CASE ~ Fits(n)
    BY <2>1, <2>2, <2>5 DEF ParseSuffix
  <2>6. CASE n # 0 /\ Fits(n)
    <3> DEFINE a == size - Clip(n, size)
    <3>0. a \in Nat /\ a < size /\ \A q \in 0..(size - 1) : size - n <= q <=> a <= q
      BY <2>6, SuffixClipped
    <3>1. ParseSuffix(n, size) = Satisfied(a, size - 1)
      BY <2>6 DEF ParseSuffix
    <3> HIDE DEF a
    <3>2. a..(size - 1) = Asked(h, size)
      BY <2>3, <3>0
    <3>3. size - 1 \in Nat /\ a <= size - 1 /\ size - 1 < size
      BY <3>0
    <3> QED BY <2>1, <2>2, <2>6, <3>0, <3>1, <3>2, <3>3
  <2> QED BY <2>4, <2>5, <2>6
<1>3. CASE h.form = "open"
  <2>1. ParseRangeHeader(h, size) = ParseOpen(m, size)
    BY <1>0, <1>3 DEF ParseRangeHeader
  <2>2. Understood(h) <=> Fits(m)
    BY <1>0, <1>3 DEF Understood
  <2>3. Asked(h, size) = {q \in 0..(size - 1) : m <= q}
    BY <1>0, <1>3 DEF Asked
  <2>4. CASE ~ Fits(m)
    BY <2>1, <2>2, <2>4 DEF ParseOpen
  <2>5. CASE Fits(m) /\ m >= size
    <3>1. Asked(h, size) = {}
      BY <2>3, <2>5
    <3>2. ParseOpen(m, size) = Unsatisfiable
      BY <2>5 DEF ParseOpen
    <3> QED BY <2>1, <2>2, <2>5, <3>1, <3>2
  <2>6. CASE Fits(m) /\ m < size
    <3>1. m..(size - 1) = Asked(h, size)
      BY <2>3, <2>6
    <3>2. size - 1 \in Nat /\ m <= size - 1 /\ size - 1 < size
      BY <2>6
    <3>3. ParseOpen(m, size) = Satisfied(m, size - 1)
      BY <2>6 DEF ParseOpen
    <3> QED BY <2>1, <2>2, <2>6, <3>1, <3>2, <3>3
  <2> QED BY <2>4, <2>5, <2>6
<1>4. CASE h.form = "closed"
  <2>1. ParseRangeHeader(h, size) = ParseClosed(m, n, size)
    BY <1>0, <1>4 DEF ParseRangeHeader
  <2>2. Understood(h) <=> Fits(m) /\ Fits(n) /\ m <= n
    BY <1>0, <1>4 DEF Understood
  <2>3. Asked(h, size) = {q \in 0..(size - 1) : m <= q /\ q <= n}
    BY <1>0, <1>4 DEF Asked
  <2>4. CASE ~ Understood(h)
    BY <2>1, <2>2, <2>4 DEF ParseClosed
  <2>5. CASE Understood(h) /\ m >= size
    <3>1. Asked(h, size) = {}
      BY <2>3, <2>5
    <3>2. ParseClosed(m, n, size) = Unsatisfiable
      BY <2>2, <2>5 DEF ParseClosed
    <3> QED BY <2>1, <2>5, <3>1, <3>2
  <2>6. CASE Understood(h) /\ m < size
    <3> DEFINE c == Clip(n, size - 1)
    <3>0. c \in Nat /\ m <= c /\ c < size /\ \A q \in 0..(size - 1) : q <= n <=> q <= c
      BY <2>2, <2>6, ClosedClipped
    <3>1. ParseClosed(m, n, size) = Satisfied(m, c)
      BY <2>2, <2>6 DEF ParseClosed
    <3> HIDE DEF c
    <3>2. m..c = Asked(h, size)
      BY <2>3, <3>0
    <3> QED BY <2>1, <2>6, <3>0, <3>1, <3>2
  <2> QED BY <2>4, <2>5, <2>6
<1> QED BY <1>5, <1>1, <1>2, <1>3, <1>4

-----------------------------------------------------------------------------
(***************************************************************************)
(* The invariant of the server.  Beyond the properties it follows Me: it   *)
(* waits at most once, its build is pending only before it is answered,    *)
(* and the head and the body come into being together.                     *)
(***************************************************************************)
Once(s) == \A i, j \in 1..Len(s) : s[i] = Me /\ s[j] = Me => i = j
Waits(s) == \E i \in 1..Len(s) : s[i] = Me

Tracked ==
  /\ Once(waiting) /\ (Waits(waiting) => stage = "waiting")
  /\ Pending(Build(Me)) => stage \in {"handling", "left"}
  /\ stage \notin {"heading", "answered"} => response = NoResponse /\ body = "none"
  /\ built = "archive" => total \in Totals

ServerInv == StreamInv /\ ServerTypeOK /\ Tracked /\ ResponseHonest

Job == Request \X {"build", "stream"}
Head0 == [status : {0, 200, 206, 400, 416, 500}, first : Nat, last : Nat]

-----------------------------------------------------------------------------
(***************************************************************************)
(* Sequences: the queue of jobs and the requests that wait.                *)
(***************************************************************************)
LEMMA AppendItem ==
  ASSUME NEW S, NEW s \in Seq(S), NEW x \in S, NEW t, t = Append(s, x)
  PROVE  /\ t \in Seq(S) /\ Len(t) = Len(s) + 1 /\ t[Len(s) + 1] = x
         /\ \A i \in 1..Len(s) : t[i] = s[i]
OBVIOUS

LEMMA TailItems ==
  ASSUME NEW S, NEW s \in Seq(S), s # <<>>, NEW t, t = Tail(s)
  PROVE  /\ t \in Seq(S) /\ Head(s) = s[1] /\ Head(s) \in S
         /\ Len(t) \in Nat /\ Len(s) = Len(t) + 1 /\ \A i \in 1..Len(t) : t[i] = s[i + 1]
OBVIOUS

LEMMA JoinedItems ==
  ASSUME NEW S, NEW a \in Seq(S), NEW b \in Seq(S)
  PROVE  /\ a \o b \in Seq(S) /\ Len(a) \in Nat /\ Len(b) \in Nat
         /\ Len(a \o b) = Len(a) + Len(b)
         /\ \A i \in 1..Len(a) : (a \o b)[i] = a[i]
         /\ \A i \in 1..Len(b) : (a \o b)[Len(a) + i] = b[i]
OBVIOUS

LEMMA LeavesQueue ==
  ASSUME NEW s \in Seq(Request), Once(s), NEW k \in 1..Len(s), NEW t,
         Len(t) \in Nat, Len(s) = Len(t) + 1,
         \A i \in 1..Len(t) : (i < k => t[i] = s[i]) /\ (~ (i < k) => t[i] = s[i + 1])
  PROVE  Once(t) /\ (Waits(t) => Waits(s) /\ s[k] # Me)
<1>0. PICK n \in Nat : n = Len(t) /\ n + 1 = Len(s)
  OBVIOUS
<1> DEFINE old(i) == IF i < k THEN i ELSE i + 1
<1>1. ASSUME NEW i \in 1..n PROVE old(i) \in 1..(n + 1) /\ old(i) # k /\ t[i] = s[old(i)]
  BY <1>0
<1>2. ASSUME NEW i \in 1..n, NEW j \in 1..n, old(i) = old(j) PROVE i = j
  BY <1>0, <1>2
<1> HIDE DEF old
<1>3. \A i, j \in 1..(n + 1) : s[i] = Me /\ s[j] = Me => i = j
  BY <1>0 DEF Once
<1>4. Once(t)
  BY <1>0, <1>1, <1>2, <1>3 DEF Once
<1>5. Waits(t) => Waits(s) /\ s[k] # Me
  <2> SUFFICES ASSUME NEW i \in 1..n, t[i] = Me PROVE Waits(s) /\ s[k] # Me
    BY <1>0 DEF Waits
  <2>1. old(i) \in 1..(n + 1) /\ s[old(i)] = Me /\ old(i) # k /\ k \in 1..(n + 1)
    BY <1>0, <1>1
  <2> QED BY <1>0, <1>3, <2>1 DEF Waits
<1> QED BY <1>4, <1>5

LEMMA LeavesMiddle ==
  ASSUME NEW s \in Seq(Request), Once(s), NEW k \in 1..Len(s), NEW t,
         t = SubSeq(s, 1, k - 1) \o SubSeq(s, k + 1, Len(s))
  PROVE  /\ t \in Seq(Request)
         /\ Once(t) /\ (Waits(t) => Waits(s) /\ s[k] # Me)
<1>0. PICK n \in Nat : n = Len(s)
  OBVIOUS
<1> DEFINE a == SubSeq(s, 1, k - 1)
           b == SubSeq(s, k + 1, n)
<1>1. a \in Seq(Request) /\ Len(a) = k - 1 /\ \A i \in 1..(k - 1) : a[i] = s[i]
  BY <1>0
<1>2. b \in Seq(Request) /\ Len(b) = n - k /\ \A i \in 1..(n - k) : b[i] = s[k + i]
  BY <1>0
<1>3. t = a \o b
  BY <1>0
<1> HIDE DEF a, b
<1>4. /\ t \in Seq(Request) /\ Len(t) = Len(a) + Len(b)
      /\ \A i \in 1..Len(a) : t[i] = a[i]
      /\ \A i \in 1..Len(b) : t[Len(a) + i] = b[i]
  <2>1. a \in Seq(Request) /\ b \in Seq(Request)
    BY <1>1, <1>2
  <2>2. /\ a \o b \in Seq(Request) /\ Len(a \o b) = Len(a) + Len(b)
        /\ \A i \in 1..Len(a) : (a \o b)[i] = a[i]
        /\ \A i \in 1..Len(b) : (a \o b)[Len(a) + i] = b[i]
    BY <2>1, JoinedItems
  <2> QED BY <1>3, <2>2
<1>5. Len(t) = n - 1
  <2>1. Len(t) = (k - 1) + (n - k)
    BY <1>1, <1>2, <1>4
  <2>2. k \in Nat /\ n \in Nat
    BY <1>0
  <2>3. (k - 1) + (n - k) = n - 1
    BY <2>2
  <2> QED BY <2>1, <2>3
<1>6. ASSUME NEW i \in 1..(n - 1)
      PROVE  (i < k => t[i] = s[i]) /\ (~ (i < k) => t[i] = s[i + 1])
  <2>1. CASE i < k
    <3>1. i \in 1..(k - 1)
      BY <1>0, <2>1
    <3> QED BY <1>1, <1>4, <2>1, <3>1
  <2>2. CASE ~ (i < k)
    <3>1. PICK m \in 1..(n - k) : m = i - (k - 1) /\ (k - 1) + m = i /\ k + m = i + 1
      BY <1>0, <2>2
    <3>2. t[i] = b[m] /\ b[m] = s[i + 1]
      BY <1>1, <1>2, <1>4, <3>1
    <3> QED BY <2>2, <3>2
  <2> QED BY <2>1, <2>2
<1>7. n - 1 \in Nat /\ n = (n - 1) + 1
  BY <1>0
<1>8. /\ Len(t) \in Nat /\ Len(s) = Len(t) + 1
      /\ \A i \in 1..Len(t) : (i < k => t[i] = s[i]) /\ (~ (i < k) => t[i] = s[i + 1])
  BY <1>0, <1>5, <1>6, <1>7
<1>9. Once(t) /\ (Waits(t) => Waits(s) /\ s[k] # Me)
  BY <1>8, LeavesQueue
<1> QED BY <1>4, <1>9

LEMMA QueuedMore ==
  ASSUME ServerTypeOK, NEW job \in Job, queue' = Append(queue, job)
  PROVE  Queued' = Queued \cup {job} /\ queue' \in Seq(Job)
<1>0. PICK n \in Nat : n = Len(queue) /\ queue \in Seq(Job)
  BY DEF ServerTypeOK, Job
<1>1. /\ queue' \in Seq(Job) /\ Len(queue') = n + 1 /\ queue'[n + 1] = job
      /\ \A i \in 1..n : queue'[i] = queue[i]
  BY <1>0, AppendItem
<1>2. \A i \in 1..(n + 1) : i \in 1..n \/ i = n + 1
  BY <1>0
<1>3. ASSUME NEW x PROVE x \in Queued' <=> x \in Queued \/ x = job
  <2>1. x \in Queued <=> \E i \in 1..n : x = queue[i]
    BY <1>0 DEF Queued
  <2>2. x \in Queued' <=> \E i \in 1..(n + 1) : x = queue'[i]
    BY <1>1 DEF Queued
  <2>3. n + 1 \in 1..(n + 1) /\ 1..n \subseteq 1..(n + 1)
    BY <1>0
  <2> QED BY <1>1, <1>2, <2>1, <2>2, <2>3
<1> QED BY <1>1, <1>3

LEMMA QueuedLess ==
  ASSUME ServerTypeOK, queue # <<>>, queue' = Tail(queue)
  PROVE  Queued = Queued' \cup {Head(queue)} /\ queue' \in Seq(Job) /\ Head(queue) \in Job
<1>0. queue \in Seq(Job)
  BY DEF ServerTypeOK, Job
<1>1. /\ queue' \in Seq(Job) /\ Head(queue) = queue[1] /\ Head(queue) \in Job
      /\ Len(queue') \in Nat /\ Len(queue) = Len(queue') + 1
      /\ \A i \in 1..Len(queue') : queue'[i] = queue[i + 1]
  BY <1>0, TailItems
<1>2. PICK n \in Nat : n = Len(queue')
  BY <1>1
<1>3. \A i \in 1..(n + 1) : i = 1 \/ (i - 1 \in 1..n /\ (i - 1) + 1 = i)
  OBVIOUS
<1>4. 1 \in 1..(n + 1) /\ \A i \in 1..n : i + 1 \in 1..(n + 1)
  OBVIOUS
<1>5. ASSUME NEW x PROVE x \in Queued <=> x \in Queued' \/ x = Head(queue)
  <2>1. x \in Queued' <=> \E i \in 1..n : x = queue[i + 1]
    BY <1>1, <1>2 DEF Queued
  <2>2. x \in Queued <=> \E i \in 1..(n + 1) : x = queue[i]
    BY <1>1, <1>2 DEF Queued
  <2> QED BY <1>1, <1>3, <1>4, <2>1, <2>2
<1> QED BY <1>1, <1>5

LEMMA Jobs ==
  /\ \A r \in Request : Build(r) \in Job /\ Stream(r) \in Job
  /\ \A r, q \in Request : Build(r) # Stream(q) /\ (Build(r) = Build(q) => r = q)
BY DEF Job, Build, Stream

-----------------------------------------------------------------------------
(***************************************************************************)
(* The head of a response with a body: the range is not empty and within   *)
(* the archive, so there is a stream to create, and it is what was asked.  *)
(***************************************************************************)
LEMMA BodyHead ==
  ASSUME ServerInv, RespondBody
  PROVE  /\ response' \in Head0 /\ response'.status \in {200, 206}
         /\ response'.last - response'.first \in 1..MaxLength
         /\ response'.status = 206 =>
              /\ Understood(query.range)
              /\ response'.first..(response'.last - 1) = Asked(query.range, total)
         /\ response'.status = 200 =>
              ~ Understood(query.range) /\ response'.first = 0 /\ response'.last = total
<1>1. total \in Nat \ {0} /\ total <= MaxLength
  <2>1. total \in Totals
    BY DEF RespondBody, ServerInv, Tracked
  <2> QED BY <2>1, ServerAssumption, StreamAssumption
<1>2. CASE /\ query.range \in Header /\ Parsed.kind = "ok"
           /\ response' = [status |-> 206, first |-> Parsed.first, last |-> Parsed.last + 1]
  <2>1. PICK a, b \in Nat : /\ Parsed = Satisfied(a, b) /\ Understood(query.range)
                            /\ a <= b /\ b < total /\ a..b = Asked(query.range, total)
    <3>1. Parsed # Malformed /\ Parsed # Unsatisfiable
      BY <1>2 DEF Malformed, Unsatisfiable
    <3> QED BY <1>1, <1>2, <3>1, RangeCorrect DEF Parsed
  <2>2. response' = [status |-> 206, first |-> a, last |-> b + 1]
    BY <1>2, <2>1 DEF Satisfied
  <2>3. b + 1 - a \in 1..MaxLength /\ (b + 1) - 1 = b /\ b + 1 \in Nat
    BY <1>1, <2>1, StreamAssumption
  <2> QED BY <2>1, <2>2, <2>3 DEF Head0
<1>3. CASE /\ query.range = NoHeader \/ (query.range \in Header /\ Parsed = Malformed)
           /\ response' = [status |-> 200, first |-> 0, last |-> total]
  <2>1. ~ Understood(query.range)
    <3>1. CASE query.range = NoHeader
      <4>1. query.range.form = "absent"
        BY <3>1 DEF NoHeader
      <4> QED BY <4>1 DEF Understood
    <3>2. CASE query.range \in Header /\ Parsed = Malformed
      <4>1. ASSUME NEW a \in Nat, NEW b \in Nat
            PROVE Parsed # Unsatisfiable /\ Parsed # Satisfied(a, b)
        BY <3>2 DEF Malformed, Unsatisfiable, Satisfied
      <4> QED BY <1>1, <3>2, <4>1, RangeCorrect DEF Parsed
    <3> QED BY <1>3, <3>1, <3>2
  <2>2. total - 0 \in 1..MaxLength
    BY <1>1, StreamAssumption
  <2> QED BY <1>1, <1>3, <2>1, <2>2 DEF Head0
<1> QED BY <1>2, <1>3 DEF RespondBody

-----------------------------------------------------------------------------
(***************************************************************************)
(* Every step of the server is one of its stream, or none.                 *)
(***************************************************************************)
LEMMA ServerStepsStream ==
  ASSUME ServerInv, [ServerNext]_allVars
  PROVE  [Next]_vars
<1>1. CASE RespondBody
  <2>1. response'.last - response'.first \in 1..MaxLength
    BY <1>1, BodyHead
  <2>2. Create
    BY <1>1, <2>1 DEF RespondBody, Create
  <2> QED BY <2>2 DEF Next
<1>2. CASE Dispatch
  BY <1>2 DEF Dispatch, TakeFirst, Next, Task
<1>3. CASE DropRuntime
  BY <1>3 DEF DropRuntime, Next
<1>4. CASE WriteHead
  BY <1>4 DEF WriteHead, Next
<1>5. CASE Streaming
  BY <1>5 DEF Streaming, TaskStep, BodyStep, Next, Task
<1>6. CASE Boot \/ Shutdown \/ ServeReturns \/ Exit \/ Admit \/ TaskReturns
           \/ RespondError \/ RespondUnsatisfiable
  BY <1>6 DEF Boot, Shutdown, ServeReturns, Exit, Admit, TaskReturns, RespondError,
              RespondUnsatisfiable
<1>7. ASSUME NEW r \in Request, Arrive(r) \/ BuildEnds(r) \/ LeaveWaiting(r) \/ LeaveHandling(r)
      PROVE  UNCHANGED vars
  BY <1>7 DEF Arrive, BuildEnds, LeaveWaiting, LeaveHandling
<1>8. ASSUME NEW r \in Other, OtherAnswered(r) \/ OtherStreamed(r) \/ OtherBodyEnds(r)
      PROVE  UNCHANGED vars
  BY <1>8 DEF OtherAnswered, OtherStreamed, OtherBodyEnds
<1>9. CASE UNCHANGED allVars
  BY <1>9 DEF allVars
<1> QED BY <1>1, <1>2, <1>3, <1>4, <1>5, <1>6, <1>7, <1>8, <1>9 DEF ServerNext, Handler

-----------------------------------------------------------------------------
LEMMA ServerTypes ==
  ASSUME ServerInv, StreamInv', [ServerNext]_allVars
  PROVE  ServerTypeOK'
<1> USE DEF meVars, poolVars
<1>0. /\ ServerTypeOK /\ TypeOK' /\ Tracked
      /\ waiting \in Seq(Request) /\ queue \in Seq(Job) /\ running \subseteq Job
      /\ Me \in Request
  BY ServerAssumption DEF ServerInv, ServerTypeOK, StreamInv, Job
<1>1. CASE Boot \/ Shutdown \/ ServeReturns \/ Exit
  BY <1>0, <1>1 DEF Boot, Shutdown, ServeReturns, Exit, ServerTypeOK
<1>2. CASE Admit
  <2>1. waiting' \in Seq(Request) /\ Head(waiting) \in Request
    BY <1>0, <1>2, TailItems DEF Admit
  <2>2. /\ UNCHANGED <<phase, running, bodies, query, built, total>>
        /\ Accept(Head(waiting)) \/ Refuse(Head(waiting))
    BY <1>2 DEF Admit
  <2>3. CASE Accept(Head(waiting))
    <3>1. queue' \in Seq(Job)
      BY <1>0, <2>1, <2>3, QueuedMore, Jobs DEF Accept
    <3>2. handling' \subseteq Request /\ stage' \in {"handling", stage} /\ response' = response
      BY <1>0, <2>1, <2>3 DEF Accept, ServerTypeOK
    <3> QED BY <1>0, <2>1, <2>2, <3>1, <3>2 DEF ServerTypeOK, Job
  <2>4. CASE Refuse(Head(waiting))
    <3>1. /\ UNCHANGED <<handling, queue>> /\ stage' \in {"answered", stage}
          /\ response' \in {response, Refusal(query.flaw)}
      BY <2>4 DEF Refuse
    <3>2. Refusal(query.flaw) \in Head0
      BY DEF Refusal, Error, NoResponse, Head0
    <3> QED BY <1>0, <2>1, <2>2, <3>1, <3>2 DEF ServerTypeOK, Head0
  <2> QED BY <2>2, <2>3, <2>4
<1>3. CASE Dispatch
  <2>1. /\ queue # <<>> /\ queue' = Tail(queue) /\ running' = running \cup {Head(queue)}
        /\ UNCHANGED <<phase, waiting, handling, bodies, stage, query, built, total, response>>
    BY <1>3 DEF Dispatch, TakeFirst
  <2>2. queue' \in Seq(Job) /\ Head(queue) \in Job
    BY <1>0, <2>1, QueuedLess
  <2> QED BY <1>0, <2>1, <2>2 DEF ServerTypeOK, Job
<1>4. CASE TaskReturns
  BY <1>0, <1>4 DEF TaskReturns, Finish, ServerTypeOK
<1>5. CASE DropRuntime
  <2>1. queue' \in Seq(Job)
    BY <1>5 DEF DropRuntime
  <2> QED BY <1>0, <1>5, <2>1 DEF DropRuntime, ServerTypeOK, Job
<1>6. CASE RespondError \/ RespondUnsatisfiable \/ WriteHead
  <2>1. /\ UNCHANGED <<phase, waiting, queue, running, bodies, query, built, total>>
        /\ stage' = "answered" /\ handling' \subseteq handling
        /\ response' \in {response, Error(400), Error(416), Error(500)}
    BY <1>6 DEF RespondError, RespondUnsatisfiable, WriteHead
  <2>2. {Error(400), Error(416), Error(500)} \subseteq Head0
    BY DEF Error, NoResponse, Head0
  <2> QED BY <1>0, <2>1, <2>2 DEF ServerTypeOK, Head0
<1>7. CASE RespondBody
  <2>1. /\ UNCHANGED <<phase, waiting, handling, running, bodies, query, built, total>>
        /\ stage' = "heading" /\ queue' = Append(queue, Stream(Me))
    BY <1>7 DEF RespondBody
  <2>2. queue' \in Seq(Job)
    BY <1>0, <2>1, QueuedMore, Jobs
  <2>3. response' \in Head0
    BY <1>7, BodyHead
  <2> QED BY <1>0, <2>1, <2>2, <2>3 DEF ServerTypeOK, Job, Head0
<1>8. CASE Streaming
  BY <1>0, <1>8 DEF Streaming, serverVars, ServerTypeOK
<1>9. ASSUME NEW r \in Request, Arrive(r) PROVE ServerTypeOK'
  <2>1. waiting' \in Seq(Request)
    BY <1>0, <1>9, AppendItem DEF Arrive
  <2> QED BY <1>0, <1>9, <2>1 DEF Arrive, ServerTypeOK
<1>10. ASSUME NEW r \in Request, BuildEnds(r) PROVE ServerTypeOK'
  BY <1>0, <1>10 DEF BuildEnds, Finish, ServerTypeOK
<1>11. ASSUME NEW r \in Request, LeaveWaiting(r) PROVE ServerTypeOK'
  <2>1. PICK k \in 1..Len(waiting) :
          waiting' = SubSeq(waiting, 1, k - 1) \o SubSeq(waiting, k + 1, Len(waiting))
    BY <1>11 DEF LeaveWaiting
  <2>2. waiting' \in Seq(Request)
    BY <1>0, <2>1, LeavesMiddle DEF Tracked
  <2> QED BY <1>0, <1>11, <2>2 DEF LeaveWaiting, ServerTypeOK
<1>12. ASSUME NEW r \in Request, LeaveHandling(r) PROVE ServerTypeOK'
  BY <1>0, <1>12 DEF LeaveHandling, ServerTypeOK
<1>13. ASSUME NEW r \in Other, OtherAnswered(r) PROVE ServerTypeOK'
  <2>1. /\ UNCHANGED <<phase, waiting, running, stage, query, built, total, response>>
        /\ handling' = handling \ {r} /\ bodies' \in {bodies, bodies \cup {r}}
        /\ queue' = queue \/ queue' = Append(queue, Stream(r))
    BY <1>13 DEF OtherAnswered
  <2>2. r \in Request
    BY DEF Other
  <2>3. queue' \in Seq(Job)
    BY <1>0, <2>1, <2>2, QueuedMore, Jobs
  <2> QED BY <1>0, <2>1, <2>3 DEF ServerTypeOK, Job
<1>14. ASSUME NEW r \in Other, OtherStreamed(r) \/ OtherBodyEnds(r) PROVE ServerTypeOK'
  BY <1>0, <1>14 DEF OtherStreamed, OtherBodyEnds, Finish, ServerTypeOK
<1>15. CASE UNCHANGED allVars
  BY <1>0, <1>15 DEF allVars, serverVars, ServerTypeOK
<1> QED BY <1>1, <1>2, <1>3, <1>4, <1>5, <1>6, <1>7, <1>8, <1>9, <1>10, <1>11, <1>12, <1>13,
           <1>14, <1>15 DEF ServerNext, Handler

-----------------------------------------------------------------------------
\* A response that has not been made says nothing.
LEMMA SilentHonest ==
  ASSUME response = NoResponse
  PROVE  ResponseHonest
BY DEF NoResponse, ResponseHonest

\* Steps that leave Me's own state alone keep what is known of it, if they start
\* no build of Me and no body.
LEMMA OthersKeep ==
  ASSUME ServerInv, StreamInv', ServerTypeOK', UNCHANGED <<waiting, meVars>>,
         Pending(Build(Me))' => Pending(Build(Me)),
         length' = length, body = "none" => body' = "none", body = "dropped" => body' = "dropped"
  PROVE  ServerInv'
<1> USE DEF ServerInv, meVars
<1>1. Tracked'
  BY DEF Tracked, Once, Waits
<1>2. body' = "ended" => received' = length'
  BY DEF StreamInv, Orderly
<1>3. ResponseHonest'
  BY <1>2 DEF ResponseHonest
<1> QED BY <1>1, <1>3

\* The jobs that are pending after a step.
LEMMA NoBuildOfMe ==
  ASSUME ServerTypeOK, UNCHANGED running,
         \/ queue' = queue
         \/ \E r \in Request : queue' = Append(queue, Stream(r))
         \/ \E r \in Other : queue' = Append(queue, Build(r))
  PROVE  Pending(Build(Me))' => Pending(Build(Me))
<1>0. Me \in Request /\ Other \subseteq Request
  BY ServerAssumption DEF Other
<1>1. CASE queue' = queue
  BY <1>1 DEF Pending, Queued
<1>2. ASSUME NEW r \in Request, queue' = Append(queue, Stream(r))
      PROVE  Pending(Build(Me))' => Pending(Build(Me))
  <2>1. Queued' = Queued \cup {Stream(r)}
    BY <1>2, QueuedMore, Jobs
  <2> QED BY <1>0, <2>1, Jobs DEF Pending
<1>3. ASSUME NEW r \in Other, queue' = Append(queue, Build(r))
      PROVE  Pending(Build(Me))' => Pending(Build(Me))
  <2>1. Queued' = Queued \cup {Build(r)}
    BY <1>0, <1>3, QueuedMore, Jobs
  <2>2. Build(r) # Build(Me)
    BY <1>0, Jobs DEF Other
  <2> QED BY <2>1, <2>2 DEF Pending
<1> QED BY <1>1, <1>2, <1>3

LEMMA QuietStepsInv ==
  ASSUME ServerInv, StreamInv', ServerTypeOK',
         \/ Boot \/ Shutdown \/ ServeReturns \/ DropRuntime \/ Exit
         \/ Dispatch \/ TaskReturns \/ Streaming
         \/ \E r \in Other : OtherAnswered(r) \/ OtherStreamed(r) \/ OtherBodyEnds(r)
         \/ UNCHANGED allVars
  PROVE  ServerInv'
<1>0. ServerTypeOK /\ queue \in Seq(Job) /\ Me \in Request /\ Other \subseteq Request
  BY ServerAssumption DEF ServerInv, ServerTypeOK, Other, Job
<1> USE DEF poolVars
<1>1. CASE Boot \/ Shutdown \/ ServeReturns \/ Exit
  <2>1. UNCHANGED <<vars, waiting, queue, running, meVars>>
    BY <1>1 DEF Boot, Shutdown, ServeReturns, Exit
  <2> QED BY <2>1, OthersKeep DEF Pending, Queued, vars
<1>2. CASE DropRuntime
  <2>1. UNCHANGED <<waiting, running, meVars>> /\ queue' = <<>>
        /\ length' = length /\ body' = body
    BY <1>2 DEF DropRuntime, Cancel, vars
  <2>2. Queued' = {}
    BY <2>1 DEF Queued
  <2> QED BY <2>1, <2>2, OthersKeep DEF Pending
<1>3. CASE Dispatch
  <2>1. /\ UNCHANGED <<waiting, meVars>> /\ queue # <<>> /\ queue' = Tail(queue)
        /\ running' = running \cup {Head(queue)}
        /\ length' = length /\ body' = body
    BY <1>3 DEF Dispatch, TakeFirst, Start, vars
  <2>2. Queued = Queued' \cup {Head(queue)}
    BY <1>0, <2>1, QueuedLess
  <2> QED BY <2>1, <2>2, OthersKeep DEF Pending
<1>4. CASE TaskReturns \/ \E r \in Other : OtherStreamed(r)
  <2>1. /\ UNCHANGED <<vars, waiting, meVars, queue>> /\ running' \subseteq running
    BY <1>4 DEF TaskReturns, OtherStreamed, Finish
  <2> QED BY <2>1, OthersKeep DEF Pending, Queued, vars
<1>5. CASE Streaming
  <2>1. UNCHANGED <<waiting, meVars, queue, running>>
    BY <1>5 DEF Streaming, serverVars
  <2>2. length' = length /\ (body = "none" => body' = "none") /\ (body = "dropped" => body' = "dropped")
    BY <1>5 DEF Streaming, TaskStep, BodyStep, Consume, ReadChunk, ReadEnd, ReadError, Send,
                SendFails, Receive, ReceiveEnd, Disconnect, Cut
  <2> QED BY <2>1, <2>2, OthersKeep DEF Pending, Queued
<1>6. ASSUME NEW r \in Other, OtherAnswered(r) PROVE ServerInv'
  <2>1. /\ UNCHANGED <<vars, waiting, running, meVars>>
        /\ queue' = queue \/ queue' = Append(queue, Stream(r))
    BY <1>6 DEF OtherAnswered
  <2>2. Pending(Build(Me))' => Pending(Build(Me))
    BY <1>0, <2>1, NoBuildOfMe
  <2> QED BY <2>1, <2>2, OthersKeep DEF vars
<1>7. ASSUME NEW r \in Other, OtherBodyEnds(r) PROVE ServerInv'
  <2>1. UNCHANGED <<vars, waiting, queue, running, meVars>>
    BY <1>7 DEF OtherBodyEnds
  <2> QED BY <2>1, OthersKeep DEF Pending, Queued, vars
<1>8. CASE UNCHANGED allVars
  <2>1. UNCHANGED <<vars, waiting, queue, running, meVars>>
    BY <1>8 DEF allVars, serverVars
  <2> QED BY <2>1, OthersKeep DEF Pending, Queued, vars
<1> QED BY <1>1, <1>2, <1>3, <1>4, <1>5, <1>6, <1>7, <1>8

-----------------------------------------------------------------------------
(***************************************************************************)
(* Me among those that wait.                                               *)
(***************************************************************************)
LEMMA JoinsQueue ==
  ASSUME NEW s \in Seq(Request), Once(s), NEW r \in Request, r = Me => ~ Waits(s),
         NEW t, t = Append(s, r)
  PROVE  Once(t) /\ (Waits(t) => Waits(s) \/ r = Me)
<1>0. PICK n \in Nat : n = Len(s)
  OBVIOUS
<1>1. Len(t) = n + 1 /\ t[n + 1] = r /\ \A i \in 1..n : t[i] = s[i]
  BY <1>0, AppendItem
<1>2. \A i \in 1..(n + 1) : i \in 1..n \/ i = n + 1
  BY <1>0
<1>3. Waits(t) => Waits(s) \/ r = Me
  BY <1>0, <1>1, <1>2 DEF Waits
<1>4. Once(t)
  BY <1>0, <1>1, <1>2 DEF Once, Waits
<1> QED BY <1>3, <1>4

LEMMA QueueStepsInv ==
  ASSUME ServerInv, StreamInv', ServerTypeOK',
         NEW r \in Request, Arrive(r) \/ LeaveWaiting(r) \/ LeaveHandling(r) \/ BuildEnds(r)
  PROVE  ServerInv'
<1> USE DEF ServerInv, poolVars
<1>0. /\ ServerTypeOK /\ Tracked /\ waiting \in Seq(Request) /\ UNCHANGED vars
      /\ Once(waiting) /\ ResponseHonest
  BY DEF ServerTypeOK, Tracked, Arrive, LeaveWaiting, LeaveHandling, BuildEnds
<1>1. CASE Arrive(r)
  <2>1. /\ waiting' = Append(waiting, r) /\ stage' = IF r = Me THEN "waiting" ELSE stage
        /\ UNCHANGED <<queue, running, query, built, total, response>>
        /\ Idle(r) /\ (r = Me => stage = "absent")
    BY <1>1 DEF Arrive
  <2>2. r = Me => ~ Waits(waiting) /\ ~ Pending(Build(Me))
    BY <2>1 DEF Idle, Waits
  <2>3. Once(waiting') /\ (Waits(waiting') => Waits(waiting) \/ r = Me)
    BY <1>0, <2>1, <2>2, JoinsQueue
  <2>4. Pending(Build(Me))' <=> Pending(Build(Me))
    BY <2>1 DEF Pending, Queued
  <2>5. Tracked'
    BY <1>0, <2>1, <2>2, <2>3, <2>4 DEF Tracked, vars
  <2>6. ResponseHonest'
    BY <1>0, <2>1 DEF ResponseHonest, vars
  <2> QED BY <2>5, <2>6
<1>2. CASE LeaveWaiting(r)
  <2>1. PICK k \in 1..Len(waiting) :
          /\ waiting[k] = r
          /\ waiting' = SubSeq(waiting, 1, k - 1) \o SubSeq(waiting, k + 1, Len(waiting))
    BY <1>2 DEF LeaveWaiting
  <2>2. /\ stage' = IF r = Me THEN "left" ELSE stage
        /\ UNCHANGED <<queue, running, query, built, total, response>>
    BY <1>2 DEF LeaveWaiting
  <2>4. Once(waiting') /\ (Waits(waiting') => Waits(waiting) /\ waiting[k] # Me)
    BY <1>0, <2>1, LeavesMiddle
  <2>5. r = Me => stage = "waiting"
    BY <1>0, <2>1 DEF Tracked, Waits
  <2>6. Pending(Build(Me))' <=> Pending(Build(Me))
    BY <2>2 DEF Pending, Queued
  <2>7. Tracked'
    BY <1>0, <2>1, <2>2, <2>4, <2>5, <2>6 DEF Tracked, vars
  <2>8. ResponseHonest'
    BY <1>0, <2>2 DEF ResponseHonest, vars
  <2> QED BY <2>7, <2>8
<1>3. CASE LeaveHandling(r)
  <2>1. /\ stage' = IF r = Me THEN "left" ELSE stage
        /\ UNCHANGED <<waiting, queue, running, query, built, total, response>>
        /\ (r = Me => stage = "handling")
    BY <1>3 DEF LeaveHandling
  <2>2. Pending(Build(Me))' <=> Pending(Build(Me))
    BY <2>1 DEF Pending, Queued
  <2>3. Tracked'
    BY <1>0, <2>1, <2>2 DEF Tracked, vars, Once, Waits
  <2>4. ResponseHonest'
    BY <1>0, <2>1 DEF ResponseHonest, vars
  <2> QED BY <2>3, <2>4
<1>4. CASE BuildEnds(r)
  <2>1. /\ UNCHANGED <<waiting, queue, stage, query, response>>
        /\ running' = running \ {Build(r)} /\ Build(r) \in running
        /\ IF r = Me THEN (built' = "archive" => total' \in Totals) ELSE UNCHANGED <<built, total>>
    BY <1>4 DEF BuildEnds, Finish
  <2>2. Pending(Build(Me))' => Pending(Build(Me))
    BY <2>1 DEF Pending, Queued
  <2>3. Tracked'
    BY <1>0, <2>1, <2>2 DEF Tracked, vars, Once, Waits
  <2>4. CASE r = Me
    <3>1. response = NoResponse
      BY <1>0, <2>1, <2>4 DEF Tracked, Pending
    <3>2. response' = NoResponse
      BY <2>1, <3>1
    <3>3. ResponseHonest'
      BY <3>2 DEF NoResponse, ResponseHonest
    <3> QED BY <2>3, <3>3
  <2>5. CASE r # Me
    <3>1. ResponseHonest'
      BY <1>0, <2>1, <2>5 DEF ResponseHonest, vars
    <3> QED BY <2>3, <3>1
  <2> QED BY <2>4, <2>5
<1> QED BY <1>1, <1>2, <1>3, <1>4

LEMMA AdmitInv ==
  ASSUME ServerInv, StreamInv', ServerTypeOK', Admit
  PROVE  ServerInv'
<1> USE DEF ServerInv
<1> DEFINE r == Head(waiting)
<1>0. /\ ServerTypeOK /\ Tracked /\ waiting \in Seq(Request) /\ Once(waiting) /\ ResponseHonest
      /\ waiting # <<>> /\ waiting' = Tail(waiting) /\ Me \in Request
      /\ UNCHANGED <<vars, running, query, built, total>>
  BY ServerAssumption DEF ServerTypeOK, Tracked, Admit
<1>1. /\ r \in Request /\ r = waiting[1]
      /\ Len(waiting') \in Nat /\ Len(waiting) = Len(waiting') + 1
      /\ \A i \in 1..Len(waiting') : waiting'[i] = waiting[i + 1]
  BY <1>0, TailItems
<1>2. Once(waiting') /\ (Waits(waiting') => Waits(waiting) /\ r # Me)
  <2>1. 1 \in 1..Len(waiting)
    BY <1>1
  <2>2. \A i \in 1..Len(waiting') : /\ i < 1 => waiting'[i] = waiting[i]
                                    /\ ~ (i < 1) => waiting'[i] = waiting[i + 1]
    BY <1>1
  <2>3. Once(waiting') /\ (Waits(waiting') => Waits(waiting) /\ waiting[1] # Me)
    BY <1>0, <1>1, <2>1, <2>2, LeavesQueue
  <2> QED BY <1>1, <2>3
<1>3. r = Me => stage = "waiting"
  <2>1. 1 \in 1..Len(waiting)
    BY <1>1
  <2> QED BY <1>0, <1>1, <2>1 DEF Tracked, Waits
<1> HIDE DEF r
<1>4. CASE Accept(r)
  <2>1. /\ queue' = Append(queue, Build(r)) /\ stage' = IF r = Me THEN "handling" ELSE stage
        /\ response' = response
    BY <1>4 DEF Accept
  <2>2. Pending(Build(Me))' => Pending(Build(Me)) \/ r = Me
    <3>1. r # Me => r \in Other
      BY <1>1 DEF Other
    <3> QED BY <1>0, <2>1, <3>1, NoBuildOfMe
  <2>3. Tracked'
    BY <1>0, <1>2, <1>3, <2>1, <2>2 DEF Tracked, vars
  <2>4. ResponseHonest'
    BY <1>0, <2>1 DEF ResponseHonest, vars
  <2> QED BY <2>3, <2>4
<1>5. CASE Refuse(r)
  <2>1. /\ UNCHANGED queue
        /\ IF r = Me THEN stage' = "answered" /\ response' = Refusal(query.flaw)
                     ELSE UNCHANGED <<stage, response>>
    BY <1>5 DEF Refuse
  <2>2. Pending(Build(Me))' <=> Pending(Build(Me))
    BY <1>0, <2>1 DEF Pending, Queued
  <2>3. Tracked'
    BY <1>0, <1>2, <1>3, <2>1, <2>2 DEF Tracked, vars
  <2>4. CASE r = Me
    <3>1. body' = "none"
      BY <1>0, <1>3, <2>4 DEF Tracked, vars
    <3>2. response'.status \in {400, 500}
      BY <2>1, <2>4 DEF Refusal, Error, NoResponse
    <3>3. ResponseHonest'
      BY <3>1, <3>2 DEF ResponseHonest
    <3> QED BY <2>3, <3>3
  <2>5. CASE r # Me
    <3>1. ResponseHonest'
      BY <1>0, <2>1, <2>5 DEF ResponseHonest, vars
    <3> QED BY <2>3, <3>1
  <2> QED BY <2>4, <2>5
<1> QED BY <1>4, <1>5 DEF Admit, r

-----------------------------------------------------------------------------
LEMMA HandlerInv ==
  ASSUME ServerInv, StreamInv', ServerTypeOK', Handler
  PROVE  ServerInv'
<1> USE DEF ServerInv, poolVars
<1>0. /\ ServerTypeOK /\ Tracked /\ ResponseHonest /\ Me \in Request
      /\ UNCHANGED <<waiting, running, query, built, total>>
      /\ stage \in {"handling", "heading"}
  BY ServerAssumption
     DEF Handler, RespondError, RespondUnsatisfiable, RespondBody, WriteHead
<1>1. CASE RespondError
  <2>1. /\ stage = "handling" /\ ~ Pending(Build(Me)) /\ UNCHANGED <<vars, queue>>
        /\ stage' = "answered" /\ response' \in {Error(400), Error(500)}
    BY <1>1 DEF RespondError, BuildAwaited
  <2>2. Tracked'
    BY <1>0, <2>1 DEF Tracked, Pending, Queued, Once, Waits
  <2>3. body' = "none" /\ response'.status \in {400, 500}
    BY <1>0, <2>1 DEF Tracked, vars, Error, NoResponse
  <2>4. ResponseHonest'
    BY <2>3 DEF ResponseHonest
  <2> QED BY <2>2, <2>4
<1>2. CASE RespondUnsatisfiable
  <2>1. /\ stage = "handling" /\ ~ Pending(Build(Me)) /\ UNCHANGED <<vars, queue>>
        /\ stage' = "answered" /\ response' = Error(416)
        /\ query.range \in Header /\ Parsed = Unsatisfiable /\ built = "archive"
    BY <1>2 DEF RespondUnsatisfiable, BuildAwaited
  <2>2. Tracked'
    BY <1>0, <2>1 DEF Tracked, Pending, Queued, Once, Waits
  <2>3. body' = "none" /\ response'.status = 416
    BY <1>0, <2>1 DEF Tracked, vars, Error, NoResponse
  <2>4. Understood(query.range) /\ Asked(query.range, total) = {}
    <3>1. total \in Nat \ {0}
      <4>1. total \in Totals
        BY <1>0, <2>1 DEF Tracked
      <4> QED BY <4>1, ServerAssumption, StreamAssumption
    <3>2. ASSUME NEW a \in Nat, NEW b \in Nat
          PROVE  Parsed # Malformed /\ Parsed # Satisfied(a, b)
      BY <2>1 DEF Malformed, Unsatisfiable, Satisfied
    <3> QED BY <2>1, <3>1, <3>2, RangeCorrect DEF Parsed
  <2>5. ResponseHonest'
    BY <1>0, <2>3, <2>4 DEF ResponseHonest
  <2> QED BY <2>2, <2>5
<1>3. CASE RespondBody
  <2>1. /\ stage = "handling" /\ ~ Pending(Build(Me)) /\ stage' = "heading"
        /\ queue' = Append(queue, Stream(Me))
        /\ length' = response'.last - response'.first /\ body' = "open"
    BY <1>3 DEF RespondBody, BuildAwaited, CreateBody
  <2>2. ~ Pending(Build(Me))'
    BY <1>0, <2>1, NoBuildOfMe
  <2>3. Tracked'
    BY <1>0, <2>1, <2>2 DEF Tracked, Once, Waits
  <2>4. /\ response'.status \in {200, 206}
        /\ response'.status = 206 =>
             /\ Understood(query.range)
             /\ response'.first..(response'.last - 1) = Asked(query.range, total)
        /\ response'.status = 200 =>
             ~ Understood(query.range) /\ response'.first = 0 /\ response'.last = total
    BY <1>3, BodyHead
  <2>5. ResponseHonest'
    BY <1>0, <2>1, <2>4 DEF ResponseHonest
  <2> QED BY <2>3, <2>5
<1>4. CASE WriteHead
  <2>1. stage = "heading" /\ stage' = "answered" /\ UNCHANGED queue
    BY <1>4 DEF WriteHead
  <2>2. Tracked'
    BY <1>0, <2>1 DEF Tracked, Pending, Queued, Once, Waits
  <2>3. CASE UNCHANGED <<vars, response>>
    <3>1. ResponseHonest'
      BY <1>0, <2>3 DEF ResponseHonest, vars
    <3> QED BY <2>2, <3>1
  <2>4. CASE Disconnect /\ response' = Error(400)
    <3>1. body' = "dropped" /\ response'.status = 400
      BY <2>4 DEF Disconnect, Error, NoResponse
    <3>2. ResponseHonest'
      BY <3>1 DEF ResponseHonest
    <3> QED BY <2>2, <3>2
  <2> QED BY <1>4, <2>3, <2>4 DEF WriteHead
<1> QED BY <1>1, <1>2, <1>3, <1>4 DEF Handler

LEMMA ServerStart == ServerInit => ServerInv
<1> SUFFICES ASSUME ServerInit PROVE ServerInv
  OBVIOUS
<1>1. StreamInv
  BY InitInv DEF ServerInit
<1>2. <<>> \in Seq(Request) /\ <<>> \in Seq(Job)
  OBVIOUS
<1>3. ServerTypeOK
  <2>1. TypeOK
    BY <1>1 DEF StreamInv
  <2>2. NoResponse \in Head0
    BY DEF NoResponse, Head0
  <2> QED BY <1>2, <2>1, <2>2 DEF ServerInit, ServerTypeOK, Job, Head0
<1>4. Tracked
  <2>1. waiting = <<>> /\ queue = <<>> /\ running = {} /\ stage = "absent"
    BY DEF ServerInit
  <2>2. response = NoResponse /\ body = "none" /\ built = "nothing"
    BY DEF ServerInit, Init
  <2> QED BY <2>1, <2>2 DEF Tracked, Once, Waits, Pending, Queued
<1>5. ResponseHonest
  BY SilentHonest DEF ServerInit
<1> QED BY <1>1, <1>3, <1>4, <1>5 DEF ServerInv

LEMMA ServerStep ==
  ASSUME ServerInv, [ServerNext]_allVars
  PROVE  ServerInv' /\ [Next]_vars
<1>1. [Next]_vars
  BY ServerStepsStream
<1>2. StreamInv'
  BY <1>1, StepInv DEF ServerInv
<1>3. ServerTypeOK'
  BY <1>2, ServerTypes
<1>4. CASE Admit
  BY <1>1, <1>2, <1>3, <1>4, AdmitInv
<1>5. CASE Handler
  BY <1>1, <1>2, <1>3, <1>5, HandlerInv
<1>6. ASSUME NEW r \in Request, Arrive(r) \/ BuildEnds(r) \/ LeaveWaiting(r) \/ LeaveHandling(r)
      PROVE  ServerInv'
  BY <1>2, <1>3, <1>6, QueueStepsInv
<1>7. CASE \/ Boot \/ Shutdown \/ ServeReturns \/ DropRuntime \/ Exit
           \/ Dispatch \/ TaskReturns \/ Streaming
           \/ \E r \in Other : OtherAnswered(r) \/ OtherStreamed(r) \/ OtherBodyEnds(r)
           \/ UNCHANGED allVars
  BY <1>1, <1>2, <1>3, <1>7, QuietStepsInv
<1> QED BY <1>1, <1>4, <1>5, <1>6, <1>7 DEF ServerNext

LEMMA ServerInvariant == ServerSpec => []ServerInv
<1>1. ServerInit => ServerInv
  BY ServerStart
<1>2. ServerInv /\ [ServerNext]_allVars => ServerInv'
  BY ServerStep
<1> QED BY <1>1, <1>2, PTL DEF ServerSpec

-----------------------------------------------------------------------------
\* The variables of the server and of the stream keep their types.
THEOREM ServerTypeCorrect == ServerSpec => []ServerTypeOK
<1>1. ServerInv => ServerTypeOK
  BY DEF ServerInv
<1> QED BY <1>1, ServerInvariant, PTL

(***************************************************************************)
(* For every header, archive, configuration and schedule, status and       *)
(* announced positions are the right ones, and the body is as long as      *)
(* announced (download_handler, parse_range_header).                       *)
(***************************************************************************)
THEOREM ResponsesHonest == ServerSpec => []ResponseHonest
<1>1. ServerInv => ResponseHonest
  BY DEF ServerInv
<1> QED BY <1>1, ServerInvariant, PTL

(***************************************************************************)
(* Whatever the server does around a request, its stream takes the steps   *)
(* of StreamBody: the range it is given is never empty, its task is        *)
(* started once, and a shutdown forgets only a task that has not begun.    *)
(***************************************************************************)
THEOREM ServerImplementsStream == ServerSpec => ImplementsStream
<1>1. ServerInit => Init
  BY DEF ServerInit
<1>2. ServerInv /\ [ServerNext]_allVars => [Next]_vars
  BY ServerStepsStream
<1> QED BY <1>1, <1>2, ServerInvariant, PTL DEF ServerSpec, ImplementsStream

\* So in the server, too, nothing is lost in flight,
THEOREM ServerLosesNothing == ServerSpec => []InFlight
<1>1. StreamInv => InFlight
  BY DEF StreamInv
<1> QED BY <1>1, ServerImplementsStream, StepsKeepInv, PTL DEF ImplementsStream

\* a task that gives up early says so,
THEOREM ServerGivesUpAloud == ServerSpec => []GivesUpAloud
<1>1. StreamInv => GivesUpAloud
  BY DEF StreamInv
<1> QED BY <1>1, ServerImplementsStream, StepsKeepInv, PTL DEF ImplementsStream

\* a request holds no more memory than its buffers,
THEOREM ServerMemoryBounded == ServerSpec => []MemoryBounded
BY ServerImplementsStream, StepsBoundMemory, PTL DEF ImplementsStream

\* and the client's side of the body is a RangeReader.
THEOREM ServerClientSeesRange == ServerSpec => ClientSeesRange
BY ServerImplementsStream, StepsRefineRange, PTL DEF ImplementsStream

-----------------------------------------------------------------------------
(***************************************************************************)
(* Stopping.  Beyond the property: nothing has begun before the server     *)
(* serves, Me has its permit while it is handled, its task is waiting for  *)
(* a thread or has one until it is done, and a runtime that shuts down     *)
(* begins no job.                                                          *)
(***************************************************************************)
Unstarted ==
  phase = "starting" =>
    waiting = <<>> /\ handling = {} /\ queue = <<>> /\ running = {} /\ bodies = {} /\ body = "none"

Drained ==
  /\ phase \in {"closing", "stopping", "exited"} =>
       waiting = <<>> /\ handling = {} /\ bodies = {} /\ body # "open"
  /\ phase \in {"stopping", "exited"} => queue = <<>>
  /\ phase = "exited" => running = {}

Permitted == stage \in {"handling", "heading"} => Me \in handling

TaskHasJob ==
  body # "none" => /\ task = "queued" => Stream(Me) \in Queued
                   /\ task \in {"reading", "sending"} => Stream(Me) \in running

StopInv == Unstarted /\ Drained /\ Permitted /\ TaskHasJob

\* Steps while requests come and are handled: only the permit and the task matter.
LEMMA BusyKeeps ==
  ASSUME phase \in {"serving", "draining"}, phase' = phase, Permitted', TaskHasJob'
  PROVE  StopInv'
BY DEF StopInv, Unstarted, Drained

\* A step that leaves Me's stream, its jobs and its permit alone.
LEMMA MineKept ==
  ASSUME StopInv, UNCHANGED vars,
         Stream(Me) \in Queued => Stream(Me) \in Queued',
         Stream(Me) \in running => Stream(Me) \in running',
         stage' \in {"handling", "heading"} => Me \in handling'
  PROVE  Permitted' /\ TaskHasJob'
BY DEF StopInv, Permitted, TaskHasJob, vars

LEMMA Streamed ==
  ASSUME ServerInv, StopInv, Streaming
  PROVE  StopInv'
<1>1. /\ UNCHANGED <<phase, waiting, handling, queue, running, bodies, stage>>
      /\ TaskStep \/ Consume \/ Disconnect \/ Cut
  BY DEF Streaming, serverVars, poolVars, meVars, BodyStep
<1>2. body = "none" => task = "queued"
  BY DEF ServerInv, StreamInv, Orderly
<1>3. /\ body # "none" /\ body' # "none" /\ (body # "open" => body' # "open")
      /\ task' # "queued" \/ task' = task
      /\ task' \in {"reading", "sending"} => task \in {"reading", "sending"}
  BY <1>1, <1>2 DEF TaskStep, ReadChunk, ReadEnd, ReadError, Send, AfterSend, SendFails, Consume, Receive, ReceiveEnd,
                    Disconnect, Cut
<1>4. TaskHasJob'
  BY <1>1, <1>3 DEF StopInv, TaskHasJob, Queued
<1>5. Unstarted' /\ Drained' /\ Permitted'
  BY <1>1, <1>3 DEF StopInv, Unstarted, Drained, Permitted
<1> QED BY <1>4, <1>5 DEF StopInv

LEMMA PhaseSteps ==
  ASSUME ServerInv, StopInv, Boot \/ Shutdown \/ ServeReturns \/ DropRuntime \/ Exit
  PROVE  StopInv'
<1>1. CASE Boot \/ Shutdown \/ ServeReturns \/ Exit
  <2>1. UNCHANGED <<vars, waiting, handling, queue, running, bodies, stage>>
    BY <1>1 DEF Boot, Shutdown, ServeReturns, Exit, poolVars, meVars
  <2>2. Permitted' /\ TaskHasJob'
    BY <2>1, MineKept DEF StopInv, Permitted, Queued
  <2>3. Unstarted' /\ Drained'
    <3>1. CASE Boot
      BY <2>1, <3>1 DEF Boot, StopInv, Unstarted, Drained, vars
    <3>2. CASE Shutdown \/ ServeReturns \/ Exit
      BY <2>1, <3>2 DEF Shutdown, ServeReturns, Exit, StopInv, Unstarted, Drained, vars
    <3> QED BY <1>1, <3>1, <3>2
  <2> QED BY <2>2, <2>3 DEF StopInv
<1>2. CASE DropRuntime
  <2>1. /\ phase = "closing" /\ phase' = "stopping" /\ queue' = <<>>
        /\ UNCHANGED <<waiting, handling, running, bodies, stage, body>>
        /\ IF Stream(Me) \in Queued THEN task' = "done" ELSE UNCHANGED vars
    BY <1>2 DEF DropRuntime, Cancel, meVars, vars
  <2>2. TaskHasJob'
    BY <2>1 DEF StopInv, TaskHasJob, vars
  <2> QED BY <2>1, <2>2 DEF StopInv, Unstarted, Drained, Permitted
<1> QED BY <1>1, <1>2

LEMMA PoolSteps ==
  ASSUME ServerInv, StopInv,
         \/ Dispatch \/ TaskReturns
         \/ \E r \in Request : BuildEnds(r)
         \/ \E r \in Other : OtherStreamed(r)
  PROVE  StopInv'
<1>0. ServerTypeOK /\ Me \in Request /\ Other \subseteq Request \ {Me}
  BY ServerAssumption DEF ServerInv, Other
<1>1. UNCHANGED <<phase, waiting, handling, bodies, stage>>
  BY DEF Dispatch, TaskReturns, BuildEnds, OtherStreamed, meVars
<1>2. CASE Dispatch
  <2>1. /\ queue # <<>> /\ queue' = Tail(queue) /\ running' = running \cup {Head(queue)}
        /\ IF Head(queue) = Stream(Me) THEN Start ELSE UNCHANGED vars
    BY <1>2 DEF Dispatch, TakeFirst
  <2>2. Queued = Queued' \cup {Head(queue)}
    BY <1>0, <2>1, QueuedLess
  <2>3. body' = body
    BY <2>1 DEF Start, vars
  <2>4. TaskHasJob'
    <3>1. CASE Head(queue) = Stream(Me)
      BY <2>1, <3>1 DEF Start, TaskHasJob
    <3>2. CASE Head(queue) # Stream(Me)
      BY <2>1, <2>2, <3>2 DEF StopInv, TaskHasJob, vars
    <3> QED BY <3>1, <3>2
  <2>5. phase \notin {"starting", "stopping", "exited"}
    BY <2>1 DEF StopInv, Unstarted, Drained
  <2> QED BY <1>1, <2>3, <2>4, <2>5 DEF StopInv, Unstarted, Drained, Permitted
<1>3. ASSUME NEW job, job \in running, running' = running \ {job}, UNCHANGED <<vars, queue>>,
             job # Stream(Me) \/ task = "done"
      PROVE  StopInv'
  <2>1. TaskHasJob'
    BY <1>3 DEF StopInv, TaskHasJob, vars, Queued
  <2> QED BY <1>1, <1>3, <2>1 DEF StopInv, Unstarted, Drained, Permitted, vars
<1>4. CASE TaskReturns
  BY <1>3, <1>4 DEF TaskReturns, Finish
<1>5. ASSUME NEW r \in Request, BuildEnds(r) PROVE StopInv'
  <2>1. Build(r) # Stream(Me)
    BY <1>0, Jobs
  <2> QED BY <1>3, <1>5, <2>1 DEF BuildEnds, Finish
<1>6. ASSUME NEW r \in Other, OtherStreamed(r) PROVE StopInv'
  <2>1. Stream(r) # Stream(Me)
    BY <1>0 DEF Stream
  <2> QED BY <1>3, <1>6, <2>1 DEF OtherStreamed, Finish
<1> QED BY <1>2, <1>4, <1>5, <1>6

LEMMA RequestSteps ==
  ASSUME ServerInv, StopInv,
         \/ Admit
         \/ \E r \in Request : Arrive(r) \/ LeaveWaiting(r) \/ LeaveHandling(r)
         \/ \E r \in Other : OtherAnswered(r) \/ OtherBodyEnds(r)
  PROVE  StopInv'
<1>0. /\ ServerTypeOK /\ Me \in Request /\ Other = Request \ {Me}
      /\ waiting \in Seq(Request) /\ handling \subseteq Request
  BY ServerAssumption DEF ServerInv, ServerTypeOK, Other
<1>1. UNCHANGED <<vars, phase, running>>
  BY DEF Admit, Arrive, LeaveWaiting, LeaveHandling, OtherAnswered, OtherBodyEnds, poolVars
<1>2. phase \in {"serving", "draining"}
  <2>1. ASSUME phase \notin {"serving", "draining"}
        PROVE  waiting = <<>> /\ handling = {} /\ bodies = {}
    BY <1>0, <2>1 DEF ServerTypeOK, StopInv, Unstarted, Drained
  <2>2. \/ phase = "serving" \/ waiting # <<>> \/ handling # {} \/ bodies # {}
    <3>1. ASSUME NEW r, LeaveWaiting(r) PROVE waiting # <<>>
      BY <3>1 DEF LeaveWaiting
    <3> QED BY <3>1 DEF Admit, Arrive, LeaveHandling, OtherAnswered, BuildAwaited, OtherBodyEnds
  <2> QED BY <2>1, <2>2
<1>3. Stream(Me) \in Queued => Stream(Me) \in Queued'
  <2>1. \/ queue' = queue
        \/ \E r \in Request : queue' = Append(queue, Build(r)) \/ queue' = Append(queue, Stream(r))
    <3>1. CASE Admit
      <4>1. waiting # <<>>
        BY <3>1 DEF Admit
      <4>2. Head(waiting) \in Request
        BY <1>0, <4>1, TailItems
      <4> QED BY <3>1, <4>2 DEF Admit, Accept, Refuse
    <3>2. CASE ~ Admit
      BY <1>0, <3>2 DEF Arrive, LeaveWaiting, LeaveHandling, OtherAnswered, OtherBodyEnds, poolVars
    <3> QED BY <3>1, <3>2
  <2>2. CASE queue' = queue
    BY <2>2 DEF Queued
  <2>3. ASSUME NEW job \in Job, queue' = Append(queue, job) PROVE Queued \subseteq Queued'
    BY <1>0, <2>3, QueuedMore
  <2> QED BY <2>1, <2>2, <2>3, Jobs
<1>4. stage' \in {"handling", "heading"} => Me \in handling'
  <2>1. CASE Admit
    BY <2>1 DEF Admit, Accept, Refuse, StopInv, Permitted
  <2>2. ASSUME NEW r \in Request, Arrive(r) \/ LeaveWaiting(r)
        PROVE  handling' = handling /\ stage' \in {stage, "waiting", "left"}
    BY <2>2 DEF Arrive, LeaveWaiting
  <2>3. ASSUME NEW r \in Request, LeaveHandling(r)
        PROVE  handling' = handling \ {r} /\ (r = Me \/ stage' = stage) /\ (r = Me => stage' = "left")
    BY <2>3 DEF LeaveHandling
  <2>4. ASSUME NEW r \in Other, OtherAnswered(r) \/ OtherBodyEnds(r)
        PROVE  stage' = stage /\ handling' \in {handling, handling \ {r}} /\ r # Me
    BY <1>0, <2>4 DEF OtherAnswered, OtherBodyEnds, meVars
  <2> QED BY <2>1, <2>2, <2>3, <2>4 DEF StopInv, Permitted
<1> QED BY <1>1, <1>2, <1>3, <1>4, MineKept, BusyKeeps

LEMMA HandlerSteps ==
  ASSUME ServerInv, StopInv, Handler
  PROVE  StopInv'
<1>0. ServerTypeOK /\ Me \in Request
  BY ServerAssumption DEF ServerInv
<1>1. stage \in {"handling", "heading"} /\ UNCHANGED <<phase, waiting, running, bodies>>
  BY DEF Handler, RespondError, RespondUnsatisfiable, RespondBody, WriteHead, poolVars
<1>2. phase \in {"serving", "draining"}
  BY <1>0, <1>1 DEF ServerTypeOK, StopInv, Unstarted, Drained, Permitted
<1>3. CASE RespondError \/ RespondUnsatisfiable
  <2>1. UNCHANGED <<vars, queue>> /\ stage' = "answered"
    BY <1>3 DEF RespondError, RespondUnsatisfiable, poolVars
  <2>2. Permitted' /\ TaskHasJob'
    BY <1>1, <2>1, MineKept DEF Queued
  <2> QED BY <1>1, <1>2, <2>2, BusyKeeps
<1>4. CASE RespondBody
  <2>1. /\ body = "none" /\ task' = task /\ queue' = Append(queue, Stream(Me))
        /\ UNCHANGED handling /\ stage' = "heading"
    BY <1>4 DEF RespondBody, CreateBody
  <2>2. task = "queued"
    BY <2>1 DEF ServerInv, StreamInv, Orderly
  <2>3. Stream(Me) \in Queued'
    BY <1>0, <2>1, QueuedMore, Jobs
  <2>4. TaskHasJob'
    BY <2>1, <2>2, <2>3 DEF TaskHasJob
  <2>5. Permitted'
    BY <1>1, <2>1 DEF StopInv, Permitted
  <2> QED BY <1>1, <1>2, <2>4, <2>5, BusyKeeps
<1>5. CASE WriteHead
  <2>1. /\ UNCHANGED queue /\ stage' = "answered" /\ task' = task
        /\ body' = body \/ body = "open"
    BY <1>5 DEF WriteHead, Disconnect, vars, poolVars
  <2>2. TaskHasJob'
    BY <1>1, <2>1 DEF StopInv, TaskHasJob, Queued
  <2>3. Permitted'
    BY <2>1 DEF Permitted
  <2> QED BY <1>1, <1>2, <2>2, <2>3, BusyKeeps
<1> QED BY <1>3, <1>4, <1>5 DEF Handler

(***************************************************************************)
(* However requests, clients and the operator interleave, nobody is cut    *)
(* off when the server stops, and no job outlives it (with_graceful_       *)
(* shutdown in async_main, the runtime dropped at the end of main).        *)
(***************************************************************************)
THEOREM StopsCleanly == ServerSpec => []NobodyCutOff
<1>1. ServerInit => StopInv
  BY DEF ServerInit, Init, StopInv, Unstarted, Drained, Permitted, TaskHasJob
<1>2. ServerInv /\ StopInv /\ [ServerNext]_allVars => StopInv'
  <2> SUFFICES ASSUME ServerInv, StopInv, [ServerNext]_allVars PROVE StopInv'
    OBVIOUS
  <2>1. CASE UNCHANGED allVars
    BY <2>1 DEF allVars, vars, serverVars, poolVars, meVars,
                StopInv, Unstarted, Drained, Permitted, TaskHasJob, Queued
  <2>2. CASE ServerNext
    BY <2>2, PhaseSteps, PoolSteps, RequestSteps, HandlerSteps, Streamed DEF ServerNext
  <2> QED BY <2>1, <2>2
<1>3. ServerInv /\ StopInv => NobodyCutOff
  <2> SUFFICES ASSUME ServerInv, StopInv, phase = "exited"
               PROVE  body = "none" \/ task = "done"
    BY DEF StopInv, Drained, NobodyCutOff
  <2>1. queue = <<>> /\ running = {}
    BY DEF StopInv, Drained
  <2>2. Queued = {}
    BY <2>1 DEF Queued
  <2>3. task \in {"queued", "reading", "sending", "done"}
    BY DEF ServerInv, ServerTypeOK, TypeOK
  <2> QED BY <2>1, <2>2, <2>3 DEF StopInv, TaskHasJob
<1> QED BY <1>1, <1>2, <1>3, ServerInvariant, PTL DEF ServerSpec
-----------------------------------------------------------------------------
(***************************************************************************)
(* The limits of the configuration: never are more requests handled than   *)
(* there are permits, and never do more jobs run than the pool may have    *)
(* threads, whoever leaves, fails or is refused in between.                *)
(***************************************************************************)
AtMost(S, n) == IsFiniteSet(S) /\ Cardinality(S) <= n

Limited == /\ AtMost(handling, max_concurrent_requests)
           /\ AtMost(running, max_blocking_threads)

LEMMA LimitsAreNumbers == max_concurrent_requests \in Nat /\ max_blocking_threads \in Nat
<1>1. ASSUME NEW name \in Name PROVE Setting(name) \in Nat
  BY ConfigAssumption DEF Setting
<1> QED BY <1>1 DEF max_concurrent_requests, max_blocking_threads, Name

\* A set stays within its limit if it shrinks, or grows by one while it is below it.
LEMMA StaysWithin ==
  ASSUME NEW S, NEW T, NEW n \in Nat, AtMost(S, n),
         T \subseteq S \/ (Cardinality(S) < n /\ \E x : T = S \cup {x})
  PROVE  AtMost(T, n)
<1>1. IsFiniteSet(S) /\ Cardinality(S) \in Nat /\ Cardinality(S) <= n
  BY FS_CardinalityType DEF AtMost
<1>2. CASE T \subseteq S
  <2>1. IsFiniteSet(T) /\ Cardinality(T) <= Cardinality(S)
    BY <1>1, <1>2, FS_Subset
  <2>2. Cardinality(T) \in Nat
    BY <2>1, FS_CardinalityType
  <2> QED BY <1>1, <2>1, <2>2 DEF AtMost
<1>3. ASSUME NEW x, T = S \cup {x}, Cardinality(S) < n PROVE AtMost(T, n)
  <2>1. /\ IsFiniteSet(T)
        /\ Cardinality(T) = Cardinality(S) \/ Cardinality(T) = Cardinality(S) + 1
    BY <1>1, <1>3, FS_AddElement
  <2> QED BY <1>1, <1>3, <2>1 DEF AtMost
<1> QED BY <1>2, <1>3

\* Only Admit gives a permit, and only Dispatch a thread.
LEMMA LimitStep ==
  ASSUME Limited, [ServerNext]_allVars
  PROVE  Limited'
<1>1. \/ handling' \subseteq handling
      \/ /\ Cardinality(handling) < max_concurrent_requests
         /\ \E x : handling' = handling \cup {x}
  BY DEF ServerNext, Boot, Shutdown, ServeReturns, DropRuntime, Exit, Admit, Accept, Refuse,
         Dispatch, TaskReturns, Handler, RespondError, RespondUnsatisfiable, RespondBody,
         WriteHead, Streaming, Arrive, BuildEnds, LeaveWaiting, LeaveHandling,
         OtherAnswered, OtherStreamed, OtherBodyEnds, serverVars, allVars
<1>2. \/ running' \subseteq running
      \/ /\ Cardinality(running) < max_blocking_threads
         /\ \E x : running' = running \cup {x}
  BY DEF ServerNext, Boot, Shutdown, ServeReturns, DropRuntime, Exit, Admit,
         Dispatch, TakeFirst, TaskReturns, Finish, Handler, RespondError,
         RespondUnsatisfiable, RespondBody, WriteHead, Streaming, Arrive, BuildEnds,
         LeaveWaiting, LeaveHandling, OtherAnswered, OtherStreamed, OtherBodyEnds,
         poolVars, serverVars, allVars
<1> QED BY <1>1, <1>2, LimitsAreNumbers, StaysWithin DEF Limited

\* MAX_CONCURRENT_REQUESTS and BLOCKING_QUEUE_SIZE are limits (the ConcurrencyLimitLayer
\* of create_router, max_blocking_threads in main).
THEOREM WithinLimits == ServerSpec => []Limited
<1>1. ServerInit => Limited
  BY FS_EmptySet, LimitsAreNumbers DEF ServerInit, Limited, AtMost
<1>2. Limited /\ [ServerNext]_allVars => Limited'
  BY LimitStep
<1> QED BY <1>1, <1>2, PTL DEF ServerSpec

(***************************************************************************)
(* A setting nobody checks (ServerPerformanceConfig): a server without a   *)
(* permit to give starts and takes requests, and answers none of them.     *)
(***************************************************************************)
Starved == /\ handling = {} /\ response = NoResponse
           /\ stage \in {"absent", "waiting", "left"}

THEOREM NoPermitNoAnswer ==
  ASSUME max_concurrent_requests = 0
  PROVE  ServerSpec => []Starved
<1>1. ServerInit => Starved
  BY DEF ServerInit, Starved
<1>2. ASSUME Starved, [ServerNext]_allVars PROVE Starved'
  <2>1. ~ Admit
    BY <1>2, FS_EmptySet DEF Starved, Admit
  <2> QED
    BY <1>2, <2>1
    DEF Starved, ServerNext, Boot, Shutdown, ServeReturns, DropRuntime, Exit,
        Dispatch, TaskReturns, Handler, RespondError, RespondUnsatisfiable, RespondBody,
        WriteHead, Streaming, Arrive, BuildEnds, LeaveWaiting, LeaveHandling, OtherAnswered,
        OtherStreamed, OtherBodyEnds, BuildAwaited, meVars, serverVars, allVars
<1> QED BY <1>1, <1>2, PTL DEF ServerSpec
=============================================================================
