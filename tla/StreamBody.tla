----------------------------- MODULE StreamBody -----------------------------
(***************************************************************************)
(* create_stream_body (src/server/handler.rs): a blocking task reads the   *)
(* archive a buffer at a time and hands the chunks through a bounded       *)
(* channel to the response body, whose client may leave at any moment.     *)
(* Files of the archive may be cut short meanwhile.                        *)
(***************************************************************************)
EXTENDS Config, Sequences

CONSTANTS MaxLength,   \* bound on the length of the range
          MIN_STREAM_READ_BUFFER_SIZE,
          STREAM_CHANNEL_CAPACITY,
          WaitsAtCut   \* whether read turns in vain at a cut (tar) or fails (zip)

ASSUME StreamAssumption ==
  /\ MaxLength \in Nat \ {0}
  /\ MIN_STREAM_READ_BUFFER_SIZE \in Nat \ {0}
  /\ STREAM_CHANNEL_CAPACITY \in Nat \ {0}
  /\ WaitsAtCut \in BOOLEAN

VARIABLES
  length,    \* the length of the range, which Content-Length announces
  cut,       \* where the bytes of a file are missing; length if nowhere
  at,        \* how far the reader has come
  hand,      \* the item the task is sending
  task,      \* "queued", "reading", "sending" or "done"
  channel,   \* the items sent and not received
  received,  \* how many bytes the body has yielded
  body       \* "none", "open", "ended", "failed" or "dropped"

vars == <<length, cut, at, hand, task, channel, received, body>>

Least(a, b) == IF a < b THEN a ELSE b
Greatest(a, b) == IF a < b THEN b ELSE a

\* The bytes a call of read is asked for: the setting, but not too few.
BufferSize == Greatest(Setting("STREAM_READ_BUFFER_SIZE"), MIN_STREAM_READ_BUFFER_SIZE)

\* Bytes [from, to) of the range, or an error met at from.
Item == [kind : {"data", "error"}, from : Nat, to : Nat]

\* How far the next call of read goes: both readers fill the buffer.
Reach == at + Least(BufferSize, length - at)

Missing == cut < length /\ at <= cut /\ cut < Reach

\* The tar reader at a cut: read_into_buffer turns without end.
Spinning == task = "reading" /\ Missing /\ WaitsAtCut

\* read returns Ok(0), at the end of the range or into a buffer without room.
AtEndIgnored == FALSE
AtEnd == Reach = at

-----------------------------------------------------------------------------
Init ==
  /\ length = 0 /\ cut = 0 /\ at = 0 /\ received = 0
  /\ hand = [kind |-> "data", from |-> 0, to |-> 0]
  /\ task = "queued" /\ channel = <<>> /\ body = "none"

\* create_stream_body for a range of n bytes: the task is spawned and the body
\* returned.
CreateBody(n) ==
  /\ body = "none"
  /\ length' = n /\ cut' = n
  /\ body' = "open"
  /\ UNCHANGED <<at, hand, task, channel, received>>

\* The blocking pool has a thread for the task.
Start ==
  /\ body # "none" /\ task = "queued"
  /\ task' = "reading"
  /\ UNCHANGED <<length, cut, at, hand, channel, received, body>>

Create == \E n \in 1..MaxLength : CreateBody(n)

\* The pool shuts down before it has a thread for the task.
Cancel ==
  /\ body \notin {"none", "open"} /\ task = "queued"
  /\ task' = "done"
  /\ UNCHANGED <<length, cut, at, hand, channel, received, body>>

\* read returns Ok(n): the buffer, truncated to n bytes, becomes a chunk.
ReadChunk ==
  /\ task = "reading" /\ ~ AtEnd /\ ~ Missing
  /\ hand' = [kind |-> "data", from |-> at, to |-> Reach]
  /\ at' = Reach
  /\ task' = "sending"
  /\ UNCHANGED <<length, cut, channel, received, body>>

\* read returns Ok(0): the task ends, and with it the sender.
ReadEnd ==
  /\ task = "reading" /\ AtEnd
  /\ task' = "done"
  /\ UNCHANGED <<length, cut, at, hand, channel, received, body>>

\* read fails; what the failed call had read before is not delivered.  A file
\* may fail to open at any call; missing bytes fail a call of the zip reader,
\* and the tar reader only if another file fails before it comes to them.
ReadErrorQuiet ==
  /\ task = "reading" /\ ~ AtEnd
  /\ task' = "done"
  /\ UNCHANGED <<length, cut, at, hand, channel, received, body>>

ReadError ==
  /\ task = "reading" /\ ~ AtEnd
  /\ hand' = [kind |-> "error", from |-> at, to |-> at]
  /\ task' = "sending"
  /\ UNCHANGED <<length, cut, at, channel, received, body>>

AfterSend == IF hand.kind = "error" THEN "done" ELSE "reading"

\* blocking_send waits for room in the channel; try_send would not.
TrySend ==
  /\ task = "sending" /\ body = "open"
  /\ channel' = IF Len(channel) < STREAM_CHANNEL_CAPACITY THEN Append(channel, hand) ELSE channel
  /\ task' = AfterSend
  /\ UNCHANGED <<length, cut, at, hand, received, body>>

SendUnbounded ==
  /\ task = "sending" /\ body = "open"
  /\ channel' = Append(channel, hand)
  /\ task' = AfterSend
  /\ UNCHANGED <<length, cut, at, hand, received, body>>

Send ==
  /\ task = "sending" /\ body = "open"
  /\ Len(channel) < STREAM_CHANNEL_CAPACITY
  /\ channel' = Append(channel, hand)
  /\ task' = AfterSend
  /\ UNCHANGED <<length, cut, at, hand, received, body>>

\* The receiver is gone: blocking_send fails and the task ends.
SendRetries ==
  /\ task = "sending" /\ body \notin {"none", "open"}
  /\ UNCHANGED vars

SendFails ==
  /\ task = "sending" /\ body \notin {"none", "open"}
  /\ task' = "done"
  /\ UNCHANGED <<length, cut, at, hand, channel, received, body>>

\* rx.recv: the body yields a chunk, or an error, on which it is abandoned.
Receive ==
  /\ body = "open" /\ channel # <<>>
  /\ LET item == Head(channel)
     IN IF item.kind = "data"
        THEN /\ received' = received + (item.to - item.from)
             /\ channel' = Tail(channel)
             /\ UNCHANGED body
        ELSE /\ body' = "failed" /\ channel' = <<>>
             /\ UNCHANGED received
  /\ UNCHANGED <<length, cut, at, hand, task>>

\* The channel is empty and its sender gone: the stream ends.
ReceiveEnd ==
  /\ body = "open" /\ channel = <<>> /\ task = "done"
  /\ body' = "ended"
  /\ UNCHANGED <<length, cut, at, hand, task, channel, received>>

\* The client leaves; the receiver is dropped with what the channel holds.
Disconnect ==
  /\ body = "open"
  /\ body' = "dropped" /\ channel' = <<>>
  /\ UNCHANGED <<length, cut, at, hand, task, received>>

\* Somebody cuts a file that is still to be read.
Cut ==
  /\ body # "none"
  /\ \E c \in at..length : c < cut /\ cut' = c
  /\ UNCHANGED <<length, at, hand, task, channel, received, body>>

Task == Start \/ ReadChunk \/ ReadEnd \/ ReadError \/ Send \/ SendFails

Consume == Receive \/ ReceiveEnd

Next == Create \/ Task \/ Consume \/ Disconnect \/ Cancel \/ Cut

\* The task has a thread of its own once it is started, and the pool has one
\* for it; a thread that turns without end comes no further.  What the client
\* does is nobody's promise.
Spec == Init /\ [][Next]_vars /\ WF_vars(Task /\ ~ Spinning)

-----------------------------------------------------------------------------
TypeOK ==
  /\ length \in Nat /\ cut \in Nat /\ at \in Nat /\ received \in Nat
  /\ at <= length /\ cut <= length
  /\ hand \in Item
  /\ task \in {"queued", "reading", "sending", "done"}
  /\ channel \in Seq(Item)
  /\ body \in {"none", "open", "ended", "failed", "dropped"}

(***************************************************************************)
(* What the body has yielded, what waits in the channel and what the task  *)
(* holds join without a gap up to where the reader is: no chunk is lost,   *)
(* repeated or overtaken while the client is there, however full the       *)
(* channel runs.                                                           *)
(***************************************************************************)
Flight == IF task = "sending" THEN Append(channel, hand) ELSE channel

InFlight ==
  body = "open" =>
    /\ \A i \in 1..Len(Flight) :
         /\ Flight[i].from = IF i = 1 THEN received ELSE Flight[i - 1].to
         /\ IF Flight[i].kind = "error"
            THEN i = Len(Flight) /\ Flight[i].to = Flight[i].from
            ELSE Flight[i].from < Flight[i].to
    /\ at = IF Flight = <<>> THEN received ELSE Flight[Len(Flight)].to

(***************************************************************************)
(* However slow the client and long the range, a request holds no more     *)
(* memory than "buffer size x (STREAM_CHANNEL_CAPACITY + 1)" (the comment  *)
(* on STREAM_CHANNEL_CAPACITY): what has been read and not received, and   *)
(* the buffer a call of read is filling.                                   *)
(***************************************************************************)
Held == (at - received) + (IF task = "reading" THEN BufferSize ELSE 0)

MemoryBounded == body = "open" => Held <= (STREAM_CHANNEL_CAPACITY + 1) * BufferSize

\* A task that gives up before the end of the range leaves a client that is
\* still there an error, so that it cannot take the part for the whole.
GivesUpAloud ==
  task = "done" /\ body = "open" /\ at < length =>
    channel # <<>> /\ channel[Len(channel)].kind = "error"

\* To the client the body is itself a RangeReader of the whole range: chunks in
\* order, and an end that comes when all announced bytes have.
Client == INSTANCE RangeReader WITH
  first <- 0, last <- length, at <- received,
  status <- CASE body = "none" -> "closed"
              [] body = "open" -> "open"
              [] body = "ended" -> "ended"
              [] OTHER -> "failed"

ClientSeesRange == Client!Spec

\* When the client has left, the thread of the task becomes free (handler.rs:270,
\* README.md:48).
DisconnectReleases == body = "dropped" /\ task # "queued" ~> task = "done"
=============================================================================
