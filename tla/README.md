# A TLA+ verification project for v-hono

v-hono is a web framework in V: routers with caches, middlewares, three HTTP
servers, WebSocket and streaming, and a file service with multipart uploads
over SQLite and local or cloud storage. This directory models the parts of it
that keep state, checks them with TLC on small instances and proves the most
important results with TLAPS for every value of the constants.

    tlc -workers 2 -config ChunkManagerCloud.cfg MCChunkManager
    tlapm ChunkManager_proofs.tla

## 1. Inventory

| Component | State | Operations | Hard behaviour | What makes it correct |
|---|---|---|---|---|
| ChunkManager (`chunk_manager.v`) | none of its own; rows in the database, sessions in the provider | init, upload part, retry, upload pending parts, complete, abort, sweep of stale uploads | every call to database or provider may fail, lose its answer, or be interleaved with another request; a restart | who relies on a completed upload finds the whole object |
| Multipart tables (`database.v`) | `multipart_uploads`, `uploaded_parts`, `file_info` | one SQL statement each; no transactions | a failure between two statements | rows and provider agree about what can be completed |
| Storage providers (`local_storage.v`, `s3_storage.v`, `aliyun_oss.v`, `tencent_cos.v`) | sessions in memory (local) or in the remote service; part files; objects | init, upload, complete, abort; single-object operations | torn files, lost sessions, lost answers | a completion uses the parts it lists |
| Route cache (`cache.v`) | map, doubly linked list, size, clocks | get, put, clear, sweep, settings | pointer surgery over long call sequences | an LRU cache: list, map and counter agree |
| Rate limiter (`rate_limit.v`) | counters behind a mutex | increment, reset, clean-up; the middleware | decision after the lock is released; window boundaries; shared stores | the limit is kept, and only offenders are refused |
| Routers (`fast_router.v`, `router.v`, `trie_router.v`) | route lists, static maps, caches | add, match, clear, toggle cache and sort | cached matches that outlive registrations | a cached match equals a fresh one unless it is older than the routes |
| Application (`app.v`, `middleware.v`) | middlewares by prefix, merged sub-applications | use, route, handle, listen | three servers with three middleware selections; upgrades that go past them | every server runs the same chain |
| WebSocket (`websocket.v`) | connection state, history of its changes, callbacks | send, close, forced close, ping, dispatch of frames, handler of state changes | close from both sides; a handler that calls back into the operation that called it | one close handshake, nothing behind a close frame, legal paths of states |
| Streaming (`streaming.v`) | stream and writer flags, abort callbacks | write, close, abort | callbacks that fail, close twice or write after closing | one well-framed chunked body |
| usockets server (`usockets_server.v`, `usockets/usockets.v`) | the library's sockets; nothing per connection | open, data, writable, end, close | partial and pipelined requests, writes the kernel cuts, four ways to answer | one answer per read, in order; where its header is right, an end as announced |
| picoev server (`picoev_server.v`) | picoev's buffers | the callback of a request | early exits before the middlewares | one answer per request |
| Socket layer (`usockets/src/bsd.c`, `libusockets.h`) | descriptors, address lists, packet buffers | create, bind, accept, connect, close; send and receive | any system call fails; threads share descriptor numbers; partial reads and writes; three platforms | nothing leaks, data arrives as written, addresses are the socket's own |
| Trees of libuv (`uv/tree.h`) | child, parent, colour of intrusive nodes | insert, remove, find, next, loops | rebalancing over long call sequences; removal inside a loop | an ordered set in a red-black tree |
| Error codes of libuv (`uv/errno.h`, `uv.h`) | none | the choice of a code | what a platform defines | distinct codes |
| Chunk upload manager (`upload.v`) | chunk files, size record, status in memory | chunk, merge, clean-ups, restart | repeated and reordered chunks, cut-off merges, swallowed read errors, lost status | what is announced as merged is the whole file |
| File service (`file_service.v`, `http_handlers.v`) | providers, database | upload, copy, delete, switch | one of two stores fails | rows point at objects |
| Retry (`retry.v`, `storage_errors.v`) | attempts, delays | execute | repetition of what took effect | bounded attempts |
| Authentication (`auth.v`) | users, sessions | login, verify, logout | expiry | only live sessions pass |

Components interact by calls. `listen` (picoev) and `listen_usockets` serve from
one thread; `listen_http` uses the worker threads of V's `http.Server`; several
server processes may share the SQLite file and the bucket. Only the rate
limiter and the map of streaming callbacks are protected by locks.
The hazards, with their lines, are in `PROJECT.json`.

## 2. Plan

1. `MultipartDB`, `StorageProvider`, `ChunkManager`: the multipart upload (done).
2. `ContextLRUCache` with its abstract specification `LRUList` (done).
3. `RateLimit` (done).
4. `RoutePatterns`, `Routers`, `App`: routers and their caches, mounting and the
   selection of middlewares by the three servers (done; the trie is left).
5. `WebSocket`, `UsocketsServer` with streaming over the socket layer `Bsd*`
   (done), `RBTree` and `UvErrno` of the libuv headers (done); the picoev
   connection is left.
6. `ChunkUpload` (done); `FileService` over provider and `file_info`, `Retry`,
   `Auth` are left.
7. Algorithms: chunk layout with 32-bit counts, range requests, retry delays,
   the trie against the routers' match relation (left).
8. Theorems: the upload with the parts it records, the cache, the rate limiter,
   the routers and their caches, the application, the resumable upload, the
   connection, the socket layer, responses and their framing, the error codes, and
   the trees with the refinement of `OrderedSet` (done, section 5).

## 3. Modules

**MultipartDB** — the tables. `uploads[u]` is the row of an upload id or `None`,
`parts[u][n]` the ETag recorded for part n, `files` the ids with a `file_info`
row, `stale` the ids whose `updated_at` is older than the sweep's limit. Each
operator is one SQL statement, so an operation that issues two (such as
`delete_multipart_upload`) is two steps. An ETag is a record around the
content: equal contents and only those have equal ETags.

**StorageProvider** — the multipart half of the provider interface for both
kinds of provider (`Cloud`). The local provider looks up its in-memory map
(`known`), which a restart empties, and ignores ETags; the remote service keeps
the session and compares ETags. The remote service is not part of the
repository; its behaviour (NoSuchUpload after completion or abort, ETag check)
is what the S3, OSS and COS code relies on; so is that a call which failed has a
status other than success (`s3_storage.v:865`: a completion answered with 200 and an
`<Error>` in its body counts as done in the code, and is left out here).

**ChunkManager** — one action per call that an operation makes. `req[w]` is the
request worker w executes: its program counter and the values it has read.
Faults (`FaultKinds`) are: a provider call that fails, a cloud call that takes
effect without an answer, a half-written file, a failing data source, a failing
statement, a crash. Checks that end a request without a state change have no
action of their own. Object keys are assumed distinct for distinct uploads, as
the HTTP handler generates them. A call of the local provider is one step, but
the write of a part is two, as the file is truncated first and other threads may
read it then; nothing protects its map of sessions against threads (only
`listen_http` serves from several), and races on the map itself are left out.
`born`, `recorded`, `confirmed`, `cancelled` and `spoiled` are histories; the last one
has the parts whose file was truncated by an `upload_part` after they counted.

**ContextLRUCache** — nodes with `key`, `value`, `prev`, `next`, a map, head,
tail and size. Clocks are ages (`now - last_access`). A call runs as steps
(sweep, removal per key, make room, insert), so the invariants hold inside calls
as well. A removed node has the empty key, as in the code; keys are never empty
because the routers build them from a method and a path. Negative times to live
behave as 0. `MCContextLRUCache` has the walk from head to tail and the refinement mapping
to **LRUList**, the cache without a list. (`ListWellFormed` implies that the code's
own `is_healthy` never answers false.)

**RateLimit** — `data` under the lock, and per thread the count it was given.
`increment` is atomic because of the mutex; the decision is a later step. A
sequence `Limits` of limiters on one store stands for several middlewares. The
histories `arrived` and `admitted` count requests per client and instant.

**RoutePatterns**, **Routers** — a path is a sequence of segments, and a
pattern's meaning is that of the regular expression each router compiles it to:
`/a/*` matches `/a` in FastRouter, where `*` repeats the slash, and everything
below `/a/` in the hybrid router, whose expression has no end. Every
registration gets a number, its handler. `sort_dynamic_routes` is a set, because
the sort need not be stable. Registrations, switches and requests come in any
order, as nothing in the routers asks whether the server runs. `Uncompilable` holds the
patterns that fall back to the hybrid router at registration. LRU entries may
expire at any time; the LRU caches themselves are the subject of
`ContextLRUCache`. `stale` is a history: the cached matches that are older than the
last change (registration or re-sort) of their router's dynamic routes.

**App** — a path is a sequence of characters, since prefixes are compared as
strings. `handlers[a]` is both the list that mounting copies and the table that
requests are matched with. A request is a record: its handler, its chain and the
part of the chain that ran; each middleware may call `next` or answer itself.
A request that carries the headers of an upgrade reaches whatever handler its
route has without a chain, as the two event-loop servers do it; its answer is
sent whether or not it is a switch of protocols.
`guards` of a handler and the prefix of a link are histories. The onion's way
back (what a middleware does after `next`) changes no state and is left out.

**ChunkUpload** — the manager of `upload.v` for one file: chunks on disk by
chunk size and index, the size record per chunk size, the status in memory, the
final file and the files stored through the file service, in the record `mgr`.
A request is one step, as the server runs a handler to its end; a set `fails`
says which of its steps fail, and a crash inside a handler leaves what a failing
step and a restart leave. A chunk whose write failed is torn: its old content is
gone. A merge copies a torn chunk, or one that `read` fails on, in part and goes on, as
the loop takes every error for the end of the chunk. A record that fails is begun anew
or written in part. Contents are byte numbers, so that order and gaps of a
merge can be seen. `announced`, `clean` and `short` (some merge copied a chunk in
part) are histories. Two choices are wider than the code: how much of a torn chunk
there is, is drawn at each merge, and a record that fails may be any number up to
the right one. That `write` of a file takes everything or reports an error is the
contract of V's library.

**WebSocket** — the context `ws` of one connection; an operation is a function
on contexts, and `transition_state` includes the registered handler, which may
send, close or force the close in the middle of the operation that changed the
state. What a callback does is a choice over the operations (`Uses`). A frame is
its opcode and, for data, its size; `int(payload_len)` keeps its width
(`IntRange`). The peer, the transport and the backend are external.

**UsocketsServer** — one connection from `on_open` to `on_close`: segments the
client sent, the pieces of responses the kernel took, and the streaming callback
that is running. `usockets_on_data` is the whole handler: it takes what one read
brought for one request, looks at the routers in the code's order and answers.
A streaming callback may write, write nothing, close, fail and reach the error
handler in any order. `polite` clients wait for each response; a part of a split
request may read as any request. A piece whose header is not `exact` announces another
end than it has: the refusals of an upgrade and of a stream with the wrong
Content-Length, and handlers that set headers of their own, which the server copies.

**BsdSockets**, **BsdPackets**, **BsdStreams**, **BsdAddresses** — `bsd.c`. The first
has threads that create, bind, listen, accept, connect and close sockets, one
system call per step, any of which fails; the kernel's tables of descriptors and
bindings are external, and ports meet whatever the host, since the program listens on
the wildcard only. The second has the packet buffer of UDP with the lengths
that a receive overwrites, on Linux, Apple and Windows; the third the bytes of a
header and a payload through `bsd_write2` and `bsd_send`, corking, both
directions of shutdown and the reader; the fourth the reuse of one `bsd_addr_t`
for sockets of several families. `MCUsockets` puts the five parts into one run;
a behaviour exercises one of them, as they share no state.

**RBTree**, **OrderedSet** — the red-black tree macros of `tree.h`, one iteration of
a rebalancing loop per step, and the ordered set they implement. The mirrored
cases of the macros are one case with the side as a parameter. **UvErrno** — the
preprocessor conditions of `errno.h`: which code each error gets on each
platform, whose own numbers are the constant `Errnos`.

The copies of uSockets and libuv under `usockets/` are vendored; they are
modelled because the usockets server runs on them (`usockets.v` sets
`LIBUS_USE_LIBUV`) and because they are the part of the program that is written
in C. Of uSockets the repository has only `bsd.c` and the headers, so
what lies between them and the server is external and follows the contract of
`libusockets.h`.

## 4. Runs

| Run | Shows |
|---|---|
| `chunk_manager_cloud` | two workers, two parts, two contents, one fault of any kind but torn files: `CompletedIsWhole`, `OneCompletion`, `ObjectOnlyRecorded`, `FinalObjectStable` |
| `chunk_manager_local` | local provider, two workers, up to three faults with torn files and parts truncated under a reader: `CompletedIsWhole`, which excepts parts that counted before a re-upload truncated them |
| `chunk_manager_live` | `UploadEnds` under fairness |
| `context_lru_cache` | list, map and counter agree; refinement of `LRUList` |
| `rate_limit` | counts are distinct, the limit holds, only offenders are refused |
| `routers` | routes in both routers, all switches and requests in any order: the caches show nothing but their age (`CacheTransparent`); of the fast routes the simplest of the right method answers |
| `app` | with `listen` and `listen_usockets`, handlers of requests that ask for no upgrade run after the middlewares they were mounted with, outer ones first |
| `chunk_upload` | merged files are in order, and gapless unless a chunk was copied in part (`FinalIsPrefix`), and are kept (`FinalIsKept`); without repetitions, lost status, cut-off merges and such copies an announced file is whole, and it is merged once all chunks are there |
| `chunk_upload_retry` | violation: a repeated chunk is counted twice, and a shortened file is announced as merged |
| `websocket` | one close handshake, legal histories, bounded messages, and `ClosingEnds` under fairness |
| `usockets` | no leak of descriptors or address lists, exclusive ports, descriptors of others survive (`HeldSurvives`); datagrams, streams and addresses as they should be; one response per read, in order, streams well framed, and the announced end where the header is exact |
| `uv` | order and colours inside the rebalancing loops, lookups and loops, refinement of `OrderedSet`; unique error codes |

*Bounds.* Two workers are enough for every pair of requests in conflict; two
parts tell "some" from "all" and give the loop over pending parts a next part;
two contents let a re-upload differ (the local provider looks at no content, and is
checked with one); one fault (three for the local provider) can hit between any two
calls. Four keys on three entries make
evictions at the head, middle and tail of the list and expiries of each happen.
Two routes over five patterns, a literal, a parameter, two parameters and a
wildcard among them, compete for three paths, with caches
smaller than the number of requests. Two sub-applications, two mounts and two
middlewares reach every order of mounts under equal, nested and root prefixes.
A window of 2 ms in 5 ms of time has requests before, on and after its boundary.
Three bytes in chunks of one and of two bytes give a short last chunk, three
chunks to reorder and two directories; four requests repeat one. Two frames of
the peer and two calls of the application reach a close from both sides with a
frame in between. Two descriptors and two threads suffice for the socket layer,
as every rule of the kernel (sharing a port, reusing a number) relates two
sockets; two requests, four pieces and room for two of them let responses
overlap, be cut and be streamed. Eleven nodes, two of them with one key, reach
every case of the rebalancing after a removal, on both sides.

Deadlock is not checked where the system may stop: requests and ids are used up
in the runs of ChunkManager and ChunkUpload, a closed connection stops
`WebSocket` and the connection in `Usockets`. All other runs check it.

*Deviations without a run of their own.* They were met while modelling and show
with other constants:

- `chunk_manager.v:263`: an abort after a restart of a server with the local
  provider is answered with success and leaves the part files, since the map of
  sessions is empty.
- `rate_limit.v:147`: limiters that share a store, as in README.md:412-442 of the
  repository, count one request once each: `RejectedOnlyOverLimit` fails with two
  limiters in `Limits`.
- `router.v:146`: the hybrid router keeps no method for a dynamic route, so after
  `set_fast_router_enabled(false)` a handler registered with `get` answers POST;
  hence `MethodRespected` is stated of FastRouter.
- `app.v:433`: the middlewares of an application mounted on a sub-application are
  not taken over when that one is mounted: `GuardsRun` fails with `Nested = TRUE`
  and the mount points `/a` and `/b`.
- `app.v:363`: prefixes are compared by characters, so the middlewares of `/api`
  also run for `/apiary`.
- `chunk_manager.v:180`: a part in flight is recorded after the abort of its
  upload, against "cleans all uploaded parts" (`chunk_manager.v:255`):
  `AbortFreesPartRows` fails in the cloud run's instance without faults.
- `chunk_manager.v:641`: the sweep aborts an upload that was updated after it was
  listed: `SweepOnlyStale` fails in the same instance.
- `chunk_manager.v:443`: `int(chunks)` keeps 32 bits, so 2^32 chunks count as 0.
- `local_storage.v:433`: a re-upload that fails, or is under way, has truncated the
  file of a part that the database still lists; `complete_multipart` (460-469)
  compares no ETag and joins what is there. `CompletedIsWhole` excepts these parts:
  with `{}` for `spoiled[u]` in it the run of the local provider violates it.
- `fast_router.v:289`: `clear_cache` empties one of the two caches ("清理缓存",
  line 288), and neither a registration nor a re-sort (line 312) empties any: a match
  cached before answers with another route than a fresh one. These are the
  entries of `stale`, which `CacheTransparent` excepts.
- `upload.v:475` and `:520`: `or { break }` takes an error of `read` for the end of
  the chunk, so a merge may announce a file with a gap; line 202 truncates a
  stored chunk before a failing re-save reports its error. Both set `short` when
  such a chunk is merged. A size record that fails (609, 617, 630) counts too few
  bytes, and the merge does not come by itself.
- `usockets_server.v:178`, `:185`, `:783`: the Content-Length of three refusals (28,
  30, 32) is not that of their bodies (29, 32, 30), on connections that stay open;
  and a handler's own Connection or Transfer-Encoding is copied in front of the
  server's (713-726, 804-818). `ClosesAsAnnounced` leaves these responses out.
- `app.v:419`: `listen_http` and `listen_picoev` lack the prefixes that `listen`
  computes, against `docs/ROUTE_GROUPING_CHANGELOG.md:36`: `GuardsRun` fails with
  these listeners. Requests without a route and upgrades leave before the
  middlewares (`picoev_server.v:216`, `:265`; whatever handler the route of an upgrade
  has runs and its answer is sent, `picoev_server.v:158-165`,
  `usockets_server.v:192-201`; against README.md:1600 and
  `examples/websocket_demo.v:29` of the repository): `GlobalsRun` fails with
  `Apps = {root}` and `Listeners = {"listen"}`.
- `upload.v`: a restart or `cleanup_invalid_status` (which looks for the final
  file under the client's name, not its hash) in the middle of an upload, and a
  merge that was cut off, leave a shortened file that is taken for the finished
  one; with the file service every repeated chunk stores the file again. These
  are the cases `clean` excludes from `AnnouncedIsWhole`.
- `websocket.v`: no backend calls `process_ws_message`, and the upgrade calls
  `on_open` before `send_fn` is set, so a welcome message (README.md:626) is
  dropped; fragments are not supported (README.md:22); `close` before the
  connection is open sends a frame although the change of state is refused;
  `force_close` behind `close` sends a second close frame; data is delivered in
  the closing and closed states; a length from 2^31 on passes for a negative
  number (line 971), which `MessagesBounded` leaves out.
- `usockets_server.v`: what the kernel does not take of a response is never sent
  (line 342; the comment at 760-761 says the data was sent), hence the
  properties speak of connections without a cut write; each read is taken for
  one request; after a 101 the client's frames are parsed as HTTP; the callback
  for timeouts is never armed; a stream over HTTP/1.0 is not shut down at its
  end; and no server triggers `on_abort` (`streaming.v:176`).
- `bsd.c`: the comment at 231-233 says that jumbo packets are ignored, but they
  are delivered shortened; the systems without `sendmmsg` ignore `offset`; Linux
  copies `sizeof(sockaddr_in)` of an IPv6 peer; `iov_len` is not reset, so a
  buffer that was used to send shortens what it receives (`libusockets.h:92`);
  `bsd_write2` on Linux is a `writev` without `MSG_NOSIGNAL`.
- `errno.h`: `UV_ENODATA` on FreeBSD is -9919, below `UV_ERRNO_MAX` (`uv.h:197`).

*Fairness.* `LiveSpec` asks that a worker goes on with a request it began
(`WF(Step)`: a thread is scheduled) and that the client keeps asking for pending
parts and completion (`SF`: the resumable protocol is driven by the client).
Faults are finite in number; crashes of the local provider, which lose the
session for good, are not part of that run.
`LiveSpec` of WebSocket asks that the event loop hands over a frame that arrived
(`WF(Receive)`) and that a peer answers a close frame, as the protocol requires
(`WF(PeerCloses)`), unless the connection is lost, which disables both.

## 5. Proofs

Every theorem below holds for all values of the constants that satisfy the named
`ASSUME`s; `PROJECT.json` names the property of each. Each rests on an inductive invariant, shown of `Init` and of every action by a
lemma of its own.

`ChunkManager_proofs` — for all ids, workers, contents, part limits and faults:
`TypeCorrect`, `CompletedObjects`, `SingleCompletion`, `StableObjects`. The
inductive invariant `IInv` adds to the types (`Typed`, with the fields every
program counter needs) where an upload comes from (`BirthInv`: a row, part rows
and sessions exist only for ids whose init took place, rows keep the total they
were created with, part numbers lie within it) and what relying means
(`CompletionInv`: an upload somebody relies on has a whole object and a session
that is not open; a completing worker is alone). `CompletedIsWhole` alone is not
inductive: nothing in it says that the rows read by `CompleteParts` are all
parts, nor that a closed session stays closed. `TornInv` says where truncated part
files are: only with the local provider, and among the parts that count only in
`spoiled`. `RecordedObjects`
(`ObjectOnlyRecorded`) has an invariant `Ledger`: every part row, and every row that
a completion has read before it calls the provider, was recorded, even if it was
replaced or deleted since. It is stated for `Cloud`, since the local provider joins the files it finds.

`ContextLRUCache_proofs` — `CacheTypes`, `CacheListWellFormed`,
`CacheSizeBounded`, `CacheImplementsLRU`. The invariant says that some sequence of `size` nodes is the
list in both directions and the range of the map; each list operation gives the
new sequence as a witness. The insertion step additionally needs that a full
cache has just given up its tail. The refinement of `LRUList` (`ImplementsLRU`)
takes the same sequences: the walk from head along `next` ends and gives the
sequence (`WalkIs`, by induction up to the number of nodes), so the abstract
order is its keys, and removing, moving and inserting a node are `Forget`, `Use`
and `Insert` of its key. It needs one fact more (`Sweeping`): what a sweep has
still to remove is expired, since neither clocks nor the time to live change
during a call.

`RateLimit_proofs` — `DistinctCounts`: the invariant relates every count that was
given to the store: its window is the client's current one and the counter has
reached the count, or the window is over, or the client was reset. A new window
ends later than every one that is over, so counts of equal windows come from one
counter. `AdmissionsBounded` (`AdmittedBounded`) is about the past, and the store
forgets it. `AInv` says that there are books: the windows opened so far, of one
client at least `Window` apart, and for each the set of counts let through, as
many as requests were admitted in it and none above the limit; each action says
which books it leaves. A stretch of `Window` instants meets at most two windows.
`RejectionsJustified` (`RejectedOnlyOverLimit`) needs that a count never exceeds the
requests begun since its window was opened (`RInv`); its hypothesis
`Len(Limits) = 1` is a store used by one limiter, without which the property fails
(section 4).

`Routers_proofs` — `SimplestRouteAnswers`: the routes stay sorted by cost through
every registration (`Order`), and a scan takes the first that matches.
`CachesInvisible` and `MethodsKept`: whatever is in one of the three caches is
what a scan would find, or it is in `stale` and the handler of a route that matches
(`Cache`). A registration and a re-sort age all that is cached; moving an entry to
the front, dropping the oldest and emptying a cache keep the invariant.

`App_proofs` — `OuterRunsFirst` (`OuterFirst`): the listed prefixes stay ordered by
length, so the chain built for a request is (`Ascending`), and what ran is a
beginning of it (`Running`). The chain is flattened from the lists of the prefixes;
what each of them contributes is carried through the recursion of `FlattenSeq` by
its least counterexample. `GuardsCalled` (`GuardsRun`): every guard of a mounted
handler is found under a prefix that applies to the handler's path (`Mounted`), all
prefixes in use are listed once the server listens (`Listening`), so the chain
of a request has the guards (`Guarded`), and the handler runs when the chain is
through. Its hypotheses, `~Nested` and `listen` or `listen_usockets`, with the
property's own exception of upgrades, are the cases in which the code keeps the promise (section 4).

`ChunkUpload_proofs` — `FinalFilesKept`: every part of a request keeps a final file
that exists. `FinalPrefixes`: the join is a recursive function; that it gives a
rising sequence of bytes of the file, and its beginning where every chunk was copied
whole, is shown of its least counterexample. `AnnouncedFilesWhole`
and `MergedInTime`: in a clean upload the size record never exceeds the bytes on
disk, and the status lists every chunk on it once (`Tidy`); while nothing has
failed the record is not below them either (`Current`). So a record that reaches the size of
the file means that every chunk is there, and with the last chunk the merge runs
(`Prompt`).

The theorems about `WebSocket` are in the same module: `HandshakeHolds`,
`HistoryHolds`, `BoundHolds`. `Good` adds to the properties that a connection that is not closing has sent no close frame, and
one that is closing or closed over a working socket has; `Half` describes the
context in the middle of an operation, when the handler of state changes runs.
There is a lemma for every operation of the context.

`Usockets_proofs` — theorems about the parts of `MCUsockets`, which share no
variable: `OwnAddresses`, `StreamsArriveWhole`, `DatagramsKept`,
`ResponsesFollowRequests`, `StreamsWellFramed`. The invariants say what is under way
between two calls: what was read, what is on the wire and what the writer still
keeps make up what was submitted (`WInv`),
every packet that was prepared holds what its user meant, behind the length the
platform sends (`PInv`), and segments and responses are in the order of the
requests, of which a client that waits has at most one unanswered, while an open
stream is what was written last (`VInv`). `ClosesAsAnnounced` follows from
`EndsBehind`: the server ends a connection behind the response it means to end it
with, whatever the header says.

The theorems about `BsdSockets` are in the same module: `SocketsNeverLeak`,
`ExclusivePorts`, `HeldSockets`. `SInv` relates the calls under way to the
descriptors: one that a call has not handed on belongs to that call alone (`Descriptors`), the address lists not yet freed are
as many as the calls that keep one (`Count`), and the options of a socket follow
from what its creator asked for (`PortRules`). `PortExclusive` alone is not
inductive: on Linux two sockets may be bound to a port before either listens.

`Uv_proofs` — for all nodes and keys: `TreeTyped`, `TreesSearchable` (`SearchTree`),
`TreesRedBlack` (`RedBlack`), `TreeReadersAgree` (`ReadersAgree`, with
`LoopsComplete`), `TreeImplementsSet`. The properties speak of walks from and to the
root, which no step of a walk's definition keeps; the invariant `TreeIInv` says of
the same tree that two functions exist. `sub` gives each node the set of nodes
below it, which its children split and whose members lie on their sides of it
(`Tree`); `h` gives it the number of black nodes on every way down, except that one
place may miss one (`Heights`: the place `RB_REMOVE_COLOR` works on). With them a
rotation is local: it changes either function at the two nodes it turns. `RedRule`
is the rule of red nodes with each loop's exception, and `OpShape` what the loop
points at. Every iteration of the loops has a lemma (`InsertOuter`, `InsertInner`,
`BlackSiblingKeeps`, `RedOutsideKeeps`, `LastRotationKeeps`, ...), for both sides at
once, since a side is a parameter. A removal is a node with at most one child
leaving its place (`SplicedKeeps`) and, for two children, the successor renamed to
the node it replaces (`RenamedKeeps`). What the walks compute follows from `sub`
and `h` by the least counterexample, counting the nodes below a node or above it
(`Descent`, `Ascent`): a traversal lists `sub` in order, and what a loop has seen
and what still lies ahead of it is what was due (`LoopState`).

The last theorem of the module, `ErrorCodesUnique`, is about `UvErrno` alone. Of
every code it says where its number comes from: a table of libuv, in which no number is
there twice, the platform, or a default of a BSD. The ranges of the tables are
disjoint and lie above the numbers of the platforms, so only two of the platform's
own numbers could meet, and those differ. That they lie below libuv's is
`ErrnosAssumption` of the module.

Assumptions are the named `ASSUME`s on the constants, which TLC evaluates in every
run. They say that model values for "nothing" differ from data (`NoneIsNoFd`,
`JunkIsNoLength`, the `AbsentAssumption`s), that sizes, times and limits are
numbers, that patterns and payloads are sequences (`PatternAssumption`,
`StreamAssumption`), that there are finitely many threads (`ThreadsFinite`), nodes (`NodesFinite`) and
mount points, which are strings like the paths (`PathsAssumption`), and that payloads are at most 64 KB (`PayloadsFit`), the largest a UDP datagram can
be and the size of a slot, that the errors of a platform have numbers below 3000
(`ErrnosAssumption`), where libuv's own begin, and that the keys of a tree are
ordered as integers are (`KeyAssumption`).

Only model-checked: liveness (`UploadEnds`, `ClosingEnds`) and the absence of deadlock,
as the prover does not reason about which steps are possible. Every other property of
a passing run is one of the theorems.

## 6. Not modelled

Listed with reasons under `components` in `PROJECT.json`: text formats (HTTP, XML, JSON,
signatures, OpenAPI), configuration, logging and validation are functions of
their input without state. `uv.h`, `uv/unix.h`, `uv/win.h` and `uv/darwin.h` are
declarations of libuv (types, prototypes, fields of the platform's structures)
without behaviour of their own; of `uv.h` the list of errors is modelled. The
splay trees of `tree.h` are used by nothing. `TCP_NODELAY` changes when bytes
travel and not which. The sources of uSockets above `bsd.c`, of libuv and of the
git submodules are not in the repository. The rest follows the plan above.
