# Formal models of raas

raas is an HTTP server that streams a file or directory under `DATA_ROOT` as a tar or zip archive with full random
access: it lays the archive out from metadata alone, caches the layout, and produces any byte range on demand. This
directory holds TLA+ models of its core, the TLC configurations that check them on small instances, and theorems about
them that TLAPS checks for every value of the constants. `PROJECT.json` relates every definition to the source lines
it stands for.

Paths below are relative to the repository root (`src/` there is the crate's source directory).

## 1. Inventory

| Component | Source | State | Operations | Model |
|---|---|---|---|---|
| Archive cache | `src/cache/archive.rs` | moka cache keyed by (path, format) of an archive or an error; `cached_keys` registry behind an RwLock | `get_or_create`, `register_key`, `invalidate`, `is_cached`; eviction by moka | `ArchiveCache`, `CacheHistory`; with the watcher in `Coherence` |
| Watcher | `src/watcher.rs`, `src/state.rs` | event channel, `pending` set, stop channel, thread | start, notify callback, `run_worker`, `collect_event`, `flush`, `Drop` | `Watcher`; `flush` and `invalidate` together in `Coherence` |
| Scanner | `src/archive/scanner.rs` | none (a list under construction) | `scan_source`, `scan_dir` | its reads in `ArchiveCache`; names left out |
| Tar index | `src/archive/tar.rs` | entries with offset, header bytes and size; total size | `create` and its helpers | `TarIndex` |
| Tar reader | `src/archive/tar.rs` | `current_pos`, `cursor`, one file handle | `stream_range`, `locate`, `read_into_buffer` | `TarReader`, promises in `RangeReader` |
| Zip archive | `src/archive/zip.rs` | entries, segments, total size; a CRC cell per entry | `create`, `find_segment`, `write_*`, `entry_crc`, `stream_range`, `read_into_buffer` | `ZipIndex`, `ZipReader` |
| File handle cache | `src/cache/file_handle.rs` | the path and handle read last | `read_at` | `TarReader`; as any read in `ZipReader` |
| Stream body | `src/server/handler.rs` | reader, bounded channel, response body | blocking task, `rx.recv`, client leaving | `StreamBody` |
| Range header | `src/server/handler.rs` | none | `parse_range_header` | `RangeHeader` |
| Download handler | `src/server/handler.rs`, `src/error.rs` | one request | checks, build, Range, head of the response, body | `Server` |
| Path validation | `src/server/handler.rs` | none | `resolve_and_validate_path` | its outcomes in `Server`; what passes is `Source` in `ArchiveCache` |
| Server assembly | `src/main.rs`, `src/state.rs`, `src/server/routes.rs` | permits, blocking pool, runtime | start, serve, shut down | `Server` |
| Configuration | `src/config.rs` | settings, read once | `from_env` | `Config` |

How they interact. A request validates its path, then calls `get_or_create` on a thread of the blocking pool; of the
threads that miss the same key one scans and lays out, the others wait inside moka. The result, a failure included, is
cached, and only then is its path registered. The handler clips the Range to the archive's size and returns a body
whose bytes a second blocking task produces and sends through a channel of two items. Beside the requests, notify's
callback queues events, the watcher thread merges them and calls `invalidate` for each changed path: it reads the
registry, drops the entries of the path and its ancestors, and removes them from the registry, holding no lock across
the three. Requests and watcher share the cache and the registry; requests and the file system share the source files,
at three different times (scan, layout, streaming).

What is hard, and what makes each part correct:

- *Cache.* The three phases of `invalidate` interleave with the two of `get_or_create` (cache, then register) and with
  scans that take as long as a directory walk. Correct means: a stale archive never stays without something pending
  that will remove it, a failure that is out of date no more than an archive; the registry finds every cached path;
  nobody waits for a build that nobody runs; what clients are shown of a path never goes back in time.
- *Tar.* Boundary arithmetic over headers of variable length, padding and end blocks, read with any range and any
  buffer, with short reads. Correct means: no gap, every byte from its place, nothing outside the buffer, an end.
- *Stream body.* Two parties, a bounded channel, and a client that may leave at any moment. Correct means: a prefix in
  order, no clean end before the whole range, an error when it fails, and a thread that is freed.
- *Watcher.* Four waits with different limits (poll, debounce, deadline, join), three ways for the thread to end, a
  channel whose sender belongs to another thread, and a `Drop` that must not wait for what it keeps alive. While the
  worker is in `invalidate` events go on coming, also for the path it is invalidating. Correct means: a change reaches
  the cache or is known to be lost, even under events that never cease, `Drop` returns, and between two batches the
  cache holds nothing stale that the watcher could have known of.
- *Server.* A request holds a permit while its build waits for a thread of the pool, and its body needs another thread
  while other bodies hold theirs; clients leave at every await; the operator stops the server in between. Correct
  means: the head of a response says what the body is, no request waits for ever for what others have given back, a
  response holds no more memory than the code says, and the server exits without cutting anybody off.
- *Zip.* Two passes and four writers decide separately about Zip64 extensions of 16- and 32-bit fields, and the reader
  slices what the writers produce by what the passes reserved; a CRC is computed by whichever request needs it first,
  while others wait and the file changes. Correct means: what is written has the length reserved, a reader of the
  format finds every size and offset again, every byte comes from its place, all headers of an entry agree on its CRC,
  and nobody fails or waits for ever without an outside cause.

`PROJECT.json` lists the hazards line by line with the properties that cover each.

## 2. Modules

```
RangeReader        what Archive::stream_range promises (abstract)
TarIndex           layout of a tar archive
TarReader          extends TarIndex; the handle and the files it reads; implements RangeReader
ZipIndex           layout and records of a zip archive
ZipReader          extends ZipIndex; several readers of one archive, each implements RangeReader
Config             where a setting comes from
StreamBody         extends Config; task, channel, body, client; the client's view implements RangeReader
RangeHeader        parse_range_header and a reference of what a Range header asks for
Server             composes StreamBody and RangeHeader with permits, pool, handler and shutdown; implements StreamBody
Watcher            notify's events, the worker's windows, Drop
ArchiveCache       cache, registry, scans, invalidation, file system
CacheHistory       extends ArchiveCache; a record of what has ever been published
Coherence          composes ArchiveCache and Watcher; each of them keeps to its own specification

MCArchiveCache, MCCacheHistory, MCCoherence, MCTarReader, MCZipReader, MCStream, MCServer
                   instances for TLC (Watcher needs none)
ArchiveCacheProofs, CacheHistoryProofs, CoherenceProofs, TarProofs, ZipProofs, StreamProofs, WatcherProofs,
ServerProofs       theorems
```

**ArchiveCache.** A path is the sequence of its components and `Covers` is the component-wise prefix that
`changed.starts_with(key)` computes on normalised paths. `fs` gives each path a version that stands for whatever a
scan reads there. What is cached is the set of (path, version) pairs a scan has read, to its end or until a read of it
failed: any read may fail, for whatever reason, and the failure is cached (`FinishBuild` after some of the reads).
`Change` moves a version, possibly with its parent's (a directory listing changes when a child comes or goes, while
the event names the child), and queues the event. A pool thread goes `idle -> building | waiting | registering ->
idle`: `Hit`, `Join` and `StartBuild` are moka's `get_with`, `Read` takes one step of the scan, `FinishBuild` caches
the result and answers the waiters, and `Register` prunes and inserts. The watcher thread runs `Snapshot`, `Drop` and
`Unregister`, the three phases of `invalidate`; the two formats of a path are dropped tar first and the victims one
after the other in any order, as a `Vec` collected from a `HashSet` is. `Evict` is moka's eviction. An event may say
nothing new (`Moved`), and `Snapshot` may leave its path queued when another event of it has come (`Left`); `Miss` is
a change nobody reports. `Repeats` and `Misses` say whether an instance has them. `overtaken` and `escaped` are
history variables: they name the builds an invalidation has overtaken and the stale keys no invalidation will find or
no event will ever tell of, and no action reads them except to maintain them.

**CacheHistory** adds one history variable, `shown`: under each key, the newest version of each path that an archive
published there has read.

**Coherence** is a serving program. `AppState::new` starts the watcher, or fails to, before the first request
(`StartWatcher`, and `Requested` only after it). `Report` is an event reaching notify's callback, with the change it is
about or without one; `Lose` is a change whose event is lost, or that comes when nobody watches. `Flush` is a turn of
the loop of `flush`: it takes a path out of `pending` and begins `invalidate`, and the worker has no other step until
`InvalidateFurther` has ended that call, since a `Snapshot` needs `changed = None`; `Collect` and `Flushed` need
nothing of the cache because `flush` has returned by then. The end of the program is not in it: `Watcher` has `Drop`.

**TarIndex** and **TarReader.** An item of the scan is the length of its path, its size, whether it is a directory,
and whether the tar crate accepts its path. `AddEntry` is a turn of the loop of `create`, with `HeaderLen` for
`create_header`. The reader has an action for the early return of `read_into_buffer`, one for entering it, one for
every branch of its loop and one for leaving it. A byte is a position in a header or in a file; `run` holds what the
last turn of the loop wrote. Files are read by paths: that of an entry below the source directory, or, when
`source_path.is_file()`, which is asked anew at every turn, the source itself (`PathOf`). `file` is what each path
names, a version and a length; `handle` is the one file `FileHandleCache` keeps and the path it was opened by. It stays
what it was when `Replace` moves another file to its path, shrinks with it when `Cut` truncates the file itself, and is
given up when `Reshape` has made a file of the source, or a directory of it, since the entry then has another path.
What is not there at its path by then is among the failures, which any turn may meet (`ContentFails`). `seen` is a
history variable: the versions an entry's content has been read from since the source has been what it is.
`ReadNothing` is the turn that gets `Ok(0)` and makes no progress.

**ZipIndex** and **ZipReader.** `LayLocal` and `LayCentral` are turns of the two passes of `create`, together with the
segments its last loops push for the entry; `FinishIndex` decides about the Zip64 end record. A segment is a record of
start, length, kind and entry. `LocalHeader`, `CentralEntry`, `EndRecord` and `EndRecord64` are the numeric fields,
the extension and the length the `write_*` functions produce; the sentinels `U32_MAX` and `U16_MAX` are constants, and
narrowing to 32 bits is a remainder. The readers `rd[r]` share the archive and the cells `crc[i]`. A turn of the loop
of `read_into_buffer` finds its segment and copies from a record (`CopyRecord`) or a file (`CopyData`), or fails. When
a header needs a CRC that is not known, `StartCrc` makes the reader the one that computes it, `ReadForCrc` reads one
buffer of whatever the file holds then, and `FinishCrc` compares the total with the indexed size; every other reader
that needs this cell has no step until it is filled, which is how `OnceLock::get_or_init` blocks. `Change` gives a
file another length and version at any time. A CRC is known by what it was computed of: how many bytes, of which
versions. `CrcEnabled` is the feature `zip-crc32`; the runs have it on, the theorems hold for both builds.

**StreamBody.** One response: the task reads a buffer at a time, has a chunk or an error in hand, sends it or finds
the receiver gone; the body receives, ends, fails or is dropped. `cut` is where bytes of a source file are missing;
`WaitsAtCut` chooses the reader: tar turns without end there, zip fails. The buffer is the setting, raised to the
lower bound; `Cancel` is a pool that shuts down before the task has a thread.

**RangeHeader.** A header is its first range: a form and two numbers of any size, of which `str::parse::<u64>` takes
those up to `U64_MAX`. `Understood` and `Asked` are the reference: whether the header is a range of such numbers, and
the set of positions it asks for.

**Server.** One request, `Me`, is followed from its arrival to the end of its body; the others are seen from outside,
as holders of permits (`handling`), jobs (`queue`, `running`) and unread bodies (`bodies`). `Admit` gives a permit and
runs the handler to its first await: the checks of the parameters and of the path, of which a query says the first
that fails, and the build's job. `BuildEnds` is the job, for whose archive only the size matters. `RespondError`,
`RespondUnsatisfiable` and `RespondBody` are the handler after the await; `RespondBody` is `create_stream_body`, so
the job of the stream is queued before the headers are written, and `WriteHead` either sends the head or drops the
body with an error. `LeaveWaiting` and `LeaveHandling` drop a request's future, `Disconnect` its body. `Shutdown`,
`ServeReturns`, `DropRuntime` and `Exit` are Ctrl+C, the end of `axum::serve`, and the drop of the runtime, which
forgets jobs that have not begun and waits for those that have. Every step of it is a `StreamBody` step or leaves the
stream alone (`ImplementsStream`), and the pool keeps what `StreamBody` assumes of it (`TaskServed`). `/health` has a
limit of its own, because the layer's service is made per route, and uses no blocking job: nothing in it interacts.

**Watcher.** Time passes in ticks while the worker waits; `waited` is how long this `recv_timeout` has lasted and
`merged` how long the window is open. `Receive` takes an event, the first of which opens a window; a later one is
taken as long as the deadline has not passed (`WindowOver`), `WindowCloses` and `PollTimesOut` are the two time-outs.
A thread may always be late: no step is forced when its time has come. The worker ends through `CheckStop` or, from
either wait, `Disconnected`, and flushes path by path on its way out. notify's thread has a life of its own: it may
still report between the drop of its watcher and its end, when its sender goes. `owed` and `lost` are history
variables: the paths changed since their last invalidation, and those of them whose event never came. That `Queued
\cup pending` is what `ArchiveCache` calls its events is not assumed but checked and proved, in `Coherence`
(`EventsQueued`).

**RangeReader** is the contract between them: delivered bytes only grow, an end only when all of the range is
delivered, otherwise at most a failure. `TarReader` and each reader of `ZipReader` implement it with what finished
calls have returned, `StreamBody` with what the body has yielded.

## 3. Runs

| Run | Question | States |
|---|---|---|
| `cache_one_source` | one source in both formats, two threads, failures at any read, unreported changes, pruning on every registration, and the record of what was published: nobody waits without a builder, no archive is older than one before it, requests return | 289k |
| `cache_two_sources` | a directory and its file both cached: ancestors, several victims, pruning at its threshold | 2.0M |
| `coherence` | watcher and cache composed: what each assumes of the other, nothing stale between two batches, liveness under the watcher's own fairness | 241k |
| `cache_lost_change` | *violation*: coherent once everything has been handled | |
| `cache_unlisted` | *violation*: registry complete once everything has been handled | |
| `tar_reader` | layout, bytes, calls, refinement with short reads, I/O errors, files cut and replaced, a source that becomes a file or a directory; one version per entry; every step counts, and an end while no file is too short | 1.1M |
| `zip_reader` | records, bytes, calls, refinement with short reads, I/O errors, files changed; every step counts | 711k |
| `zip_shared` | two requests on one archive: one CRC per entry, no cell busy without a reader, and both come to an end | 6k |
| `zip_sentinel` | *violation*: a sentinel in the end record has a Zip64 record to refer to | |
| `server` | every outcome of checks, build and Range header; permits and threads that others hold; clients that leave; memory, errors, disconnect, shutdown | 264k |
| `watcher` | events in any order at any pace, lost events, time-outs, stop and `Drop` | 68k |
| `stream_tar_cut` | *violation*: a client that leaves frees the thread, over the tar reader | |

The violations are disagreements between what the code's documentation says and what it does:

1. *Lost change* (`src/cache/archive.rs:83`). A path is registered after its scan. An event handled in between finds
   nothing, and the archive of the older state stays cached with nothing left to remove it (`README.md:41`).
   `StaleAccounted` says this is, with the next, all that can happen: a stale entry has an event pending, or an
   invalidation under way that will drop that very key, or it escaped in one of these two ways (or nobody reported the
   change at all).
2. *Unlisted archive* (`src/cache/archive.rs:116`). The last step of `invalidate` removes a registration that a
   concurrent rebuild has just made. `OnlyUnregisterLosesTrack` says this is the only step that can.
3. *Spinning thread* (`src/archive/tar.rs:431`). A file shorter than scanned makes the tar reader loop without
   progress and the blocking thread never notices that the client has left. Over the zip reader, which fails with
   UnexpectedEof, the same property holds (`server`). Such a thread would also keep the runtime from ending: the last
   step of `ShutdownEnds` needs it back.
4. *Sentinel without extension* (`src/archive/zip.rs:197`). With exactly 65535 entries the end record's count is the
   sentinel and no Zip64 record is written, because the count is compared with `>` where sizes and offsets are
   compared with `>=`. `Decodable` holds all the same for a reader that takes the count literally when it finds no
   locator.

**Bounds and why they are enough.** *Cache:* two threads suffice for a build to race a request, a waiter or a hit; the
watcher is a third process. Two paths, parent and child, give every relation the prefix match distinguishes except
siblings, which no property relates. One change per path can come before, during and after a build, and makes an old
and a new archive of a key; `coherence` has a second change. A scan fails at any of its reads in all of them. The
registry's pruning threshold `max(4 * capacity, 8)` becomes `max(PruneFactor * MaxCapacity, PruneFloor)` with 0 and 0
or 1, so that pruning happens with two paths; capacity is below the number of keys, so that eviction happens.
*Coherence:* one thread, one path that is the source, and two changes: the other relations between paths and threads
are the cache runs' business, while here a change can be in the channel, in `pending`, under invalidation and lost at
once with another. Two events in the channel, poll and debounce 1 and deadline 2 let a window end by silence and by
its deadline, with an event of the same path behind it. *Tar:* two entries give every neighbourhood (header after
padding, header after content without padding, end blocks after either, no entry at all); path lengths 100 and 511 are
the longest that fits the name field and one whose terminator fills its block exactly; sizes 0, 512 and 700 are empty,
without and with padding; ranges begin and end on and beside the boundaries; buffers of 600 and 4096 bytes cut
headers, contents and padding or take everything at once. Any file is cut to nothing, one is replaced once by one of
512 bytes, which is shorter, as long, or longer, and the source turns into a file, one of 512 bytes at first, and back
as often as it likes. *Zip:* with `U32_MAX = 200` and `U16_MAX = 1` two entries suffice for every combination of
extensions: sizes 199 and 200 are on either side of the limit, a first entry of 200 bytes puts the second beyond the
offset limit and the directory with it, names of 60 make the central directory itself too long, empty files and
directories have no data segment, and two entries exceed the count. The fixed lengths of the records are the format's.
Ranges begin and end in and beside headers and data, and buffers of 50 and 4096 bytes cut records or take several
segments at once. In `zip_shared` one file with one change, read 25 bytes at a time for its CRC, lets the change fall
before, within and after the computation while the other request waits, has its own header or reads data; a new length
equal to the old one is among the changes. *Stream:* nine units read two at a time fill the channel of two, with one
chunk in hand and more to come, and odd lengths leave a last short chunk; five units, in `server`, do as much with the
last chunk short. *Server:* one permit and one thread are the limits at which requests wait for both, and three
requests let one wait behind a holder and another come after it. Numbers are read up to 7 and the archive has 5 bytes,
so that a range can end before, at and after the archive's end and beyond what is read. The buffer's setting is 0 and
its lower bound 2. *Watcher:* poll 1, debounce 2 and deadline 3 ticks keep the order of the defaults (100 ms, 200 ms,
2 s) and let a window end by silence as well as by its deadline; a rename names two paths, and two events in the
channel suffice for one to be waiting when a window closes or the sender goes.

Symmetry of the two threads is used in `cache_two_sources`, which checks safety alone.

What is not a run's property because a theorem says it for every instance: the type invariants (`TypeOK` of each
module, `ServerTypeOK`), `Contiguous`, `NeverUnexpected`, `GivesUpAloud`, which `ClientSeesRange` includes as far as a
client can tell, and `EventsQueued`, on which the other properties of `coherence` rest.

`CHECK_DEADLOCK FALSE` appears where a behaviour really ends: a range that has been read, a response that is over.

**Fairness.** `ArchiveCache`: weak fairness of each pool thread's steps of a request in hand; these are OS threads
that only wait for one another. Nobody has to send requests, change files or evict, and the watcher's thread is none
of the cache's business. `Coherence`: weak fairness of time, of the worker thread, in `invalidate` and out of it, and
of the pool's threads. `StaleVisibleGoes` is checked from that alone, so that nothing about which path the watcher
turns to is assumed: that it comes to every one of them follows from the order of its channel and from the deadline.
`TarReader` and `ZipReader`: weak fairness of the index build and of each reader's steps, which one blocking thread
each runs to their end; in `ZipReader` a reader that waits for a cell has no step enabled, so fairness gives it
nothing until the other has filled it. `StreamBody`: weak fairness of the task's steps, provided that the pool has a
thread to start it on, and not while the tar reader turns in vain; the client is unconstrained. `Server`: weak
fairness of giving out permits and threads, which tower's semaphore and tokio's pool do in the order of asking (the
model's queues; so nothing stronger is needed), of builds, of handlers and of tasks, and of the runtime's end. That
other clients read on (`OthersGoOn`) or give up, and that this one does, is not assumed but the hypothesis of
`TaskServed`, `Answered` and `ShutdownEnds`, which would be false otherwise: a client that neither reads nor leaves
holds a thread for ever. `Watcher`: weak fairness of time, of the worker thread, of `Drop` once begun and of notify's
thread once told to end. Events may never cease, which is what `ChangesReachCache` and `DropReturns` are about.

**Mutants.** For every property of a passing run `PROJECT.json` names a plausible bug, defined beside the operator it
replaces (formats forgotten on invalidation, a missing terminator, an off-by-one in `locate`, an extension reserved
for the size only, a CRC every reader computes for itself, `try_send` for `blocking_send`, and so on), under which the
run finds the property violated.

## 4. Proofs

All theorems hold for every value of the constants under the modules' named assumptions.

*ArchiveCacheProofs.* `TypeCorrect`; `StaleEntriesAccounted`; `TrackKept`; `WaitersAreServed`. The inductive argument
for staleness needs two facts the property does not mention. `ScansInTree`: a scan has read only what lies below its
source, so that by transitivity of `Covers` an event that concerns an entry has the entry's source among its
ancestors. `ScanAccounted`, the same statement for a scan in progress as for an entry: whatever it has missed is still
to be handled or marks its thread overtaken, so that when the build is published the entry inherits a pending event or
becomes escaped. Unreported changes and repeated events are among the steps, so it also holds for a program whose
watcher did not start. `WaitersAreServed`: both halves, that somebody builds what a thread waits for and that nobody
else does, are needed for either, because the builder's last step releases all who wait for its key.

*CacheHistoryProofs.* `ArchivesNeverOlder`. Comparing what is published is not enough: the archive under construction
has to be compared with what was published while it was built, so the invariant says for each key that a build in
progress has read nothing older than what has been shown (`ScansNoOlder`, which needs that no key is built twice, from
`WaitersServed`), that what has been shown is not ahead of the file system (`NotAheadOfFs`), and that an entry is
among what was shown (`EntriesShown`).

*CoherenceProofs.* `EventsAreQueued`, `CacheStepsKept`, `WatcherStepsKept`, `BatchesLeaveNothing`. A step of the
composition is a step of the cache and one of the watcher, or of one of them; what has to be shown is what each takes
for granted of the other: that the events the cache may be told of are those the watcher has (for `Flush` by what a
queue collects when its head goes), that an invalidation is under way only while the worker is in `flush`, and that
the program that serves has started. With them every theorem of `ArchiveCacheProofs` about `[Next]_vars` holds here,
and `BatchesLeaveNothing` follows from `StaleAccounted`: between two batches with an empty channel there are neither
events nor an invalidation under way, and what is left to account for a stale entry is `escaped`.

*TarProofs.* `TarTypeCorrect`, `LayoutCorrect`, `BytesCorrect`, `CallsExact`, `UnexpectedUnreachable`, `OneVersion`
and `TarImplementsRangeReader`. That neighbours meet does not order entries that are far apart, so the invariant adds
`Ordered`; from it `OffsetsGrow`, that the binary search has a result (`CandidateIsLast`, by the least later entry),
and `NothingNear`: where `locate` finds no entry, the next one begins exactly at the next block boundary or not at
all, which is why filling with zeros up to the boundary, and everything on a boundary, is right. The reader's part
`InRange` says that a call in progress started before the end of the range, so no call returns an accidental `Ok(0)`.
For `OneVersion`, while the source stays what it is, the versions an entry has been read from are those of the handle,
as long as that is of the entry's path; the reader does not come back to an entry it has left, because positions only
grow, also where, in a source that has become a file, the next entry has the same path. `TarStepsCount`: with each
byte worth three steps, every step of the reader makes a natural number smaller, unless a file was cut. Together with
fairness this is why `StreamEnds` holds; the step from the one to the other is what the provers cannot take.

*ZipProofs.* `ZipTypeCorrect`, `SegmentsTile`, `ReservedAsWritten`, `EveryArchiveDecodes`, `ZipBytesCorrect`,
`ZipCallsExact`, `CrcsAgree`, `IntactIsServed` and `ZipImplementsRangeReader`, for any number of concurrent readers.
The layout's invariant `IndexInv` has a `Chain` of segments, which orders any two of them (`ChainAppend` extends it,
`ChainSearch` finds the segment that holds a position), and says of each what piece of the archive it `Describes`;
that reserved and written lengths agree is `LocalEntryFits` and `CentralFieldsFit`, the latter by the four
combinations of extensions. That what is written can be read back (`EveryArchiveDecodes`) follows record by record,
and for the end of the archive from `DirectoryInv`: the directory begins with its first record and ends where the
second pass has come to. The readers' invariant `ZipInv` adds what the properties do not mention: a reader that
computes a CRC has its cell busy and is `Alone` with this entry, and a CRC that has been sent is the value of its
cell, which is why later headers agree with it. `CellInv` also says that without a disturbance a computation never
counts more than the indexed size, from which it follows that no request fails. `BusyIsBeingComputed` adds the
converse of a busy cell, that a computation under way has a reader (`Computed`), so nobody waits for what is over; and
`ZipStepsCount` gives a pair, bytes to deliver and bytes to read for a CRC first, that every step of a reader lowers
in lexicographic order (`StepDelivers`, `StepReads`). As long as files stop growing at some time, that makes it end.

*StreamProofs.* `StreamTypeCorrect`, `NothingLostInFlight`, `EarlyEndIsAnError`, `BodyImplementsRangeReader`. The
invariant adds that chunks stay within the range, that an error is the last thing a task sends and that a clean end
comes with all bytes. `MemoryIsBounded` is the comment on `STREAM_CHANNEL_CAPACITY`: the chunks of a `Stretch` of the
channel hold at most a buffer each, by the sum that `InFlight` makes of them (`Short`). The step lemmas need no
fairness, so that `ServerProofs` can use them.

*WatcherProofs.* `WatcherTypeCorrect`, `NothingForgotten`. `NotForgotten` is inductive once it is known that the
worker is not yet there while the watcher is starting; the work is in what the events of a queue collect when it grows
and shrinks.

*ServerProofs.* `RangeCorrect`: `parse_range_header` against its reference, for every header and size.
`ServerImplementsStream`: every step of the server is a step of the body or none, from which `ServerLosesNothing`,
`ServerGivesUpAloud`, `ServerMemoryBounded` and `ServerClientSeesRange` follow by the step lemmas of `StreamProofs`.
`StopsCleanly`: the invariant `StopInv` says that before `Boot` and after `serve` has returned there is neither a
request nor a body (`Unstarted`, `Drained`), that whoever is handled holds a permit that was given while serving
(`Permitted`), and that a task that is not done has its job in the pool (`TaskHasJob`). `ServerTypeCorrect`,
`ResponsesHonest`: the invariant `Tracked` follows the request through queue, pool and stages. It waits at most once,
its build is pending only while it is handled or after it has left, and neither head nor body exists before the
answer, which is why no late build changes the size a response has announced. `WithinLimits`: only `Admit` and
`Dispatch` make the sets of permits and of threads in use larger (`LimitStep`), by one and below the limit.
`NoPermitNoAnswer` is what becomes of a server with `MAX_CONCURRENT_REQUESTS=0`.

Only model-checked: all liveness properties (`RequestsReturn`, `StaleVisibleGoes`, `StreamEnds`, `DisconnectReleases`,
`TaskServed`, `Answered`, `ShutdownEnds`, `ChangesReachCache`, `DropReturns`), the fairness of `WatcherSpec` in
`coherence` (`WatcherStepsKept` is its safety part), and the violations. Liveness under fairness, `ENABLED`, and facts
by induction over data are out of the provers' reach here.

## 5. Not modelled, and abstractions

- Lost events: the changes notify cannot report (a queue overflow, an error, nobody watching) are known to `Watcher`
  as `lost` and to `ArchiveCache` as `Miss`. Nothing is promised about the archives that have read them (they are
  `escaped`), but everything about the others.
- The events between the time-out at which the worker sees the stop signal and the end of its thread are dropped with
  the channel. The comment before the last flush (`src/watcher.rs:143`) speaks of remaining events; `pending` is
  always empty there. The server is ending, and the cache with it.
- File contents: which version of a file an entry was read from is modelled, the bytes are not. Two entries of a
  stream, and two requests for one archive, may be of different times; a file rewritten in place mixes versions within
  an entry. So does a source directory that becomes a file while an entry is read, or the other way round
  (`src/archive/tar.rs:414`): nothing is said of what is before and what is after the change as one.
- Which bytes a zip response combines with which CRC: a file rewritten in place with the same length passes the length
  check, and its data may then differ from its CRC; `CrcAgrees` is about headers only.
- Fields of zip records that do not depend on sizes, offsets or counts (signatures, times, attributes, names); the
  bytes of tar headers.
- Arithmetic is over the naturals in both layouts: archive sizes near 2^64 would need exabytes of files. The 32-bit
  fields of zip records are narrowed as the code does, and numbers in a Range header are limited to u64.
- A cut file stays cut. Panics in the blocking tasks: `CallExact` shows the indices of the copying code in bounds.
- Spelling: the text of Range headers (units, blanks, a sign that `parse` accepts, which range of several counts),
  `Content-Disposition`, JSON errors, scanned names, symbolic links, Windows paths, non-UTF-8 names. A binary Range
  header is an error 400, where `README.md:211` has illegal ranges ignored, and so is a file name that no header can
  carry; a range of numbers beyond u64 is malformed and answered with the whole archive, where one that merely lies
  beyond the archive gets 416. `Server` models these three as the code has them.
- Path validation: which check fails, not how paths are joined and resolved, nor a file system that changes between
  `exists` and `canonicalize`.
- Settings: that `MAX_CONCURRENT_REQUESTS=0` is accepted, and then serves nobody, is in `Config` and `Admit`, and
  `NoPermitNoAnswer` proves it, but no run has it. Log level, bind address and socket buffers are read once and left
  out, as are logging and `/health`.
- HTTP connections: a request is a connection of its own; keep-alive and pipelining are hyper's.

## 6. Plan

Done, in this order: the cache, the two formats and their readers, the stream body, the watcher, the file handle and
replaced files, the Range header, the server that composes body and handler, the history of what was published, and
the composition of watcher and cache. Every invariant and every action property a passing run checks is a theorem, and
so are the refinements but for the fairness of `WatcherSpec`.
What could follow:

1. The end of the program in `Coherence`: `Drop` while the worker is in `invalidate`.
2. The scanner's relative names, and the path the tar reader rebuilds from them.
