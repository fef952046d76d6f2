# beeper-axum, in TLA+

beeper-axum serves HTTP from two places. A BPF program (`fast_path.bpf.c`) runs
on the *client's* socket and answers requests for a fixed set of routes inside
the kernel; everything else reaches an axum application in user space. On
HTTP/2 both halves share state that only one of them sees change: the HPACK
dynamic table and the connection's flow control window. Two private frames,
spliced in front of messages that do go to user space, keep them together.
This directory models that machinery and says when it holds together.

Paths below are relative to `src/beeper-axum/src/`; `bpf` stands for
`fast_path.bpf.c`.

## 1. Inventory

| component | code | state | operations | model |
|---|---|---|---|---|
| verdict program, HTTP/2 | `bpf` 294-756, 778-964 | `upgraded_conns`, `dt_dirty`, `flow_ctl`, the parser's table mirror | one verdict per message: upgrade, follow, serve, forward, drop | `FastPath`; where verdicts begin: `ApplyBytes` |
| response copy | `bpf` 552-731 | none kept | grow or shrink the message, copy, write stream ids, redirect | `Responses`; one step in `FastPath` |
| verdict program, HTTP/1.1 | `bpf` 854-886 | none kept | serve or forward | partly: `ConnMaps`, `Responses` |
| socket registration | `bpf` 966-996 | `sock_map`, map lifetimes | register on connect | `ConnMaps` |
| routes and rendering | `fast_path.rs` | `routes`, `route_idx`, arena | rendered and filled once, before the program is attached | `Rendering`, `Responses` |
| stream scanner | `listener.rs` 69-472 | scanner state, `out`, `hold`, `SyncHandle`, `FlowHandle` | `scan`, `poll_read`, `protocol`, `take` | `Scanner` (bytes), `Listener` (frames) |
| connection loop | `server.rs` 45-172 | task state, codec | handshake, drain, `poll_accept`, `respond_to` | `ServeH2` |
| accept loop, HTTP/1.1 | `server.rs` 25-43, 56-73 | a task per connection | accept, tell the protocols apart, serve | partly: `ConnMaps` |
| codec (patched `h2`) | external | decoder's table, send window, buffers | decode, prime, consume capacity, flush | inside `ServeH2`, external |
| beeper parser | external | table mirror | parse a frame, count entries | inside `FastPath`, `ApplyBytes`, `ConnMaps`, external |
| client | external | own table, own window | any legal HTTP/2 traffic | `Client` |
| build, example, scripts, tests | `build.rs`, `example/`, `script/`, `tests/` | none | | not modelled |

How they interact:

    client --sendmsg--> msg_verdict --socket--> BeeperStream --read--> h2 codec
      ^                   |   (private frames      |  (SyncHandle,        |
      |                   |    in front)           |   FlowHandle)        v
      +---- redirect -----+                        +--> serve_h2 --> respond_to
      +------------------------------ responses ------------------------+

* The client and the program share the message: a verdict may pass its first
  frame on, replace the message by a response, or fail it (`SK_DROP`).
* The program and user space share nothing but the byte stream, so what one
  knows the other learns by a frame: `0xFB` carries a whole dynamic table,
  `0xFA` a number of bytes spent.
* The stream and the connection loop share the two handles. The stream gives
  nothing out that is behind a table until the handle was drained; the loop
  drains before every poll; `poll_read` wakes the task so that it comes to.
* `respond_to` runs in tasks of its own, one for each request, waits there for
  the end of the request's body, and wakes the connection's task.
* `FastPath::attach` fills the arena, the table of routes and the index before
  the program is attached; after that both are only read.
* Connections meet in the maps: an entry is found by the client's address and
  port, is never deleted, and is written without a look at whether it fitted.

Hard here: two owners of one HPACK table and one window, with one-way
communication; an update that has to take effect at one exact position of a
stream that is cut arbitrarily; wake-ups; allocations that fail in an atomic
context in the middle of a rewrite; messages that hold more than the frame
a verdict looks at; maps of a fixed size whose entries outlive what they are
about; and responses copied by chunks and blocks, under limits that two
languages declare. `PROJECT.json` lists these hazards with their lines.

What makes each part correct: the program never answers what it cannot afford
or too early, loses no request, and owes user space at most one update that it
hands over before anything depends on it. The scanner passes exactly the public
bytes on and is a barrier at each update. The loop applies updates in their
place and always gets back to it. A response is the route's rendering with the
stream id in its places, whatever it was written over. No mark is lost to a
full map. Together the parts answer each request at most once and as asked, and
each that ends is answered or reset eventually.

## 2. Modules

| module | models | extends |
|---|---|---|
| `H2Frames` | frames, the HPACK table, the message and the stream between the parts | |
| `Client` | the client (external) | `H2Frames` |
| `FastPath` | `msg_verdict` and all it calls, on one HTTP/2 connection | `H2Frames` |
| `Listener` | `BeeperStream`, a frame at a time | `H2Frames` |
| `ServeH2` | `serve_h2`, its tasks, the codec it drives | `Listener` |
| `Beeper` | the composition, its fairness and its properties | `Client`, `FastPath`, `ServeH2` |
| `Exchange` | abstract: requests are answered at most once, as asked, and those that end are answered or refused eventually | |
| `Scanner` | `BeeperStream`, a byte at a time | `H2Frames`, `Sums` |
| `ApplyBytes` | the stretches of a stream that verdicts speak for, with bodies | |
| `Rendering` | the two renderings of a file, and what a client reads out of one | `Sums` |
| `Responses` | `attach`, and `serve_route` step by step | |
| `Answers` | the composition: responses over those renderings, as a client reads them | `ResponseInvariants`, `Rendering` |
| `ConnMaps` | several connections: maps, ports, the accept loop | |
| `Sums` | sums over a sequence | |
| `BeeperInvariants`, `ScannerInvariants`, `ResponseInvariants` | the inductive invariants of the proofs | `Beeper`; `Scanner`; `Responses` |
| `SumProofs` | lemmas: sums, and induction | `Sums` |
| `BeeperProofs`, `WindowProofs`, `TableProofs` | theorems about `Beeper`: types and requests; windows; tables and answers | `BeeperInvariants`; each the one before |
| `AccountProofs` | the accounts of the window: reports, updates and their order | `WindowProofs`, `SumProofs` |
| `ScannerProofs` | theorems about `Scanner`, and its refinement | `ScannerInvariants`, `SumProofs` |
| `ResponseProofs`, `ConnProofs` | theorems | `Answers`, `SumProofs`; `ConnMaps` |
| `MCBeeper`, `MCScanner`, `MCResponses` | instances for TLC | |

Two refinements hold the stack together: `Beeper` implements `Exchange`
(`KeepsPromise`; its safety alone is `AnswersAsAsked`), and `Scanner` implements
`Listener` (`FiltersFrames`), which is what entitles `Beeper` to treat the stream
as a sequence of frames. In `Exchange` a client may ask after the server has given up, as it
learns of that late; such requests are never due an answer. Nor are requests with
a body that the client need not finish (the paths in `Endless`), which the server may keep
for good; a request may also be refused, which is what becomes of one that
`respond_to` leaves without an answer (`left`).

Correspondence with the code:

* **A message** (`msg`) is a sequence of whole frames, several per `sendmsg` if
  `MaxBatch` says so. A verdict is one step and covers the first frame, as
  `bpf_msg_apply_bytes` sees to. `wire` is everything passed on, never
  shortened; user space's buffers are cursors into it (`arrived`, `scanned`,
  `handed`, `decoded`), drawn in the head of `Listener`.
* **Requests** carry the entry they add to the table and, as history, the table
  they were encoded against. Decoding one against another table gives
  `Garbled`. Header fields themselves are not modelled.
* **An answer in the kernel** is one step (`Serve`): check, resize, redirect,
  charge, mark. Its failures are separate outcomes, named for what they leave
  behind, since the verdict then forwards it: `Forward` if the message is as it
  was; `ServePartly` if the request is, and the message behind it was resized;
  `Overwrite` if the request was cut or written over. Any of them may be a
  `Drop`. In `Overwrite` what is passed on is no frame, or the response itself
  (a frame that asks for nothing) if the redirect failed, and as long as
  the request, longer, or shorter: then the verdict reaches into what comes next.
* **A report** that could not be written after room was made for it (`Stray`)
  passes 13 bytes on that are no frame, and the next verdict begins too far
  back by as much. What the scanner and the codec make of such bytes is one thing:
  an error that closes the connection.
* **The table handed over** is the mirror *before* the message at hand. The
  parser has already decoded the message by then; that `get_dt_entry`, asked
  for the `dt_count_before` entries, returns that earlier table is the parser's
  contract and taken from the comment at `bpf` 822-825.
* **The task** has a `pc`: `protocol` (reading the preface), `drain` (the head
  of the `poll_fn` closure), `poll` (inside `poll_accept`), `closed`. `awake`
  is its waker. A poll ends in `Accept` (a request) or `Await` (pending).
* **A scan** is a loop without an await, so nothing runs between its turns; a
  turn is still a step of its own in both modules, which only adds states.
* In `Scanner` a byte is its position in the stream, so loss, duplication and
  reordering all show. An empty update is turned to when the next byte
  arrives (the loop's `!rest.is_empty()`), which the mapping accounts for.
* In `Rendering` a byte is a pair of what it belongs to and its value there. A
  frame header keeps its nine bytes, because stream ids are written into it by
  offset; a header field is one byte, because nothing depends on its spelling.
* `Responses` takes the renderings as constants, so that its theorems hold for
  any; `Answers` assumes of them that they are those of `Rendering`, of any files,
  and `MCResponses` picks the files. One turn of each loop of
  `attach` and `serve_route` is a step, and each kernel helper (push, pop, pull,
  redirect) may fail at each call, if `Faults` says so. `routes` and the arena
  are indexed from 1 where the code counts from 0.
* `ConnMaps` reduces a message to what it means to the maps: a preface, a
  request, an acknowledgement, a GET. A verdict is one step except for an
  upgrade, which writes two maps that others may fill in between (`Upgrade`,
  `StartWindows`); a connection between the two is in `midway`. Whether an entry is due for hand-over is
  all that is kept of tables and windows. What a frame is taken for on a port
  that had another connection is a choice: rejected, or a header that runs
  over all that the model's client still sends (`blind`).
* `ApplyBytes` keeps positions and lengths only; the request's path is one that
  user space answers, so that nothing is resized.

The definitions headed "Slip" are not used by the model: they are plausible
bugs a property is tried against.

### Failures

`Faults` switches failures on, by name: `"parse"` (the parser rejects a
message), `"push"` (the kernel cannot add or remove bytes of a message, and leaves it as it
was), `"pull"` (a helper fails behind one that changed the message, a pull, the copy, a
stream id or the redirect, or one that had to read a SETTINGS or WINDOW_UPDATE), `"yield"`
(a poll of the codec ends with handed-out frames still undecoded, which the codec does
when it must write an answer first and the socket is full), `"refuse"` (the codec
does not take a report or an update; `serve_h2` ends the connection). The early
returns of `respond_to` are no fault: a client that resets a stream suffices for one,
so `Leave` is always possible.

## 3. Runs

Passing runs:

| run | asks | instance |
|---|---|---|
| `tables` (`Tables.cfg`) | `DecodesInStep`, `EndsInStep`, `RequestsKept`, `AnswersAsAsked` | two entries in a table of one, so each request may evict what the last one added; every table fits an update |
| `faulty` (`Faulty.cfg`) | `TypeOK`, `NeverTwice`, `BytesAccounted`, `SettingsFirst`, `WithinGrant`, `SharesAgree` | every failure and two frames per message; windows of 0 to 3, responses of one unit in the kernel and two in user space, so that answers are refused, queued and split; increments of two, which reach `MaxWindow` and pass it; six frames, so that what follows an update lost behind a served request can settle; requests add no entries, as no property here looks at a table (marks and updates are made all the same); one stream window, as `live` has the others |
| `live` (`Live.cfg`) | `ReportsComeFirst`, `WindowsAgree`, `StreamsFit`, `CatchesUp`, `KeepsPromise` | `FairSpec` without failures; two answers fit the window before one is reported; stream windows of nought and one, which open, shrink and refuse; a table may outgrow `MaxSyncEntries` and send a request to user space; one of two paths is asked for with a body that need not end |
| `scan_chunks` (`ScanChunks.cfg`) | `OnlyPublic`, `UpdateIsBarrier`, `FiltersFrames`, `AllIsRead` | every sequence of two messages with and without report, empty and full tables, and every way to cut it into reads; and a connection that is not HTTP/2 |
| `responses` (`Responses.cfg`) | `LoadedWhole`, `ServedAsRendered`, `AnsweredWhole`, `NeverRefused` | every choice and order of routes among an empty file, one with a short last frame, one whose HTTP/2 rendering fills a message to the last byte, one that fits over HTTP/1.1 alone, one that fits neither way, and a path that is too long; requests shorter and longer than any response; windows too small; every helper may fail |
| `conn_maps` (`ConnMaps.cfg`) | `TypeOK`, `MarksKept`, `EveryoneHeard` | two connections that may follow each other on one port, or share maps of one entry on two and upgrade at the same time |

The bounds. `MaxFrames` bounds what a client sends on the connection (5 or 6):
preface, SETTINGS and acknowledgement leave three frames, which is what the
table needs (one served, one forwarded behind the update, one more to see
whether the two still agree) and the window too (served, reported, updated).
`TableCap` and `MaxSyncEntries` of nought to two put eviction, an exact fit and
one entry too many within reach. Entry length is one unit and `MaxSyncBody`
counts units, i.e. entries of the greatest length. In `scan_chunks` a header is
two bytes, a preface two, payloads nought to two: what matters is that each can
be split and can be empty; `ReadChunk` is larger than any frame and smaller
than the stream. In `responses` a message is at most three chunks of 16 bytes,
copied in blocks of four, and frames carry four bytes of a file: the files then
need one to three DATA frames, stream ids fall across the border of two chunks,
and last windows are of less than a block. In `conn_maps`, `MaxSent` lets a
client send preface, acknowledgement and three requests: two that may be
answered in the kernel and one that is passed on, in any order.

`CHECK_DEADLOCK FALSE` throughout: a client stops sending when it likes, and
an idle connection is no error.

Violation runs, each a disagreement between what the code says and does:

| run | finds |
|---|---|
| `batch` / `RequestsKept` | Serving the first of two frames in one message rewrites the *whole* message; the second request is never answered (`bpf` 664-684 against 778-780). A WINDOW_UPDATE in its place is lost to both owners of the window: hence `WindowsAgree`, about what the client has open, is stated for one frame per message, and `SharesAgree`, about what was passed on, for any number. |
| `stranded` / `NeverStranded` | The request left to user space because the table grew too large is "always safe" only if no update is owed; otherwise forwarding it renders that very table, fails and drops the connection (895-897, 925-932). The count is compared before the served request adds its own entry, and nowhere else. |
| `unparsed` / `DecodesInStep` | A message that does not parse is passed on without the owed update, the outcome the comment at 928-930 gives up the connection to avoid. |
| `half_served` / `PassedOnWhole` | A helper that fails after the first change to the message leaves a request that was grown, cut or written over, and that is passed on (669-681, 778). |
| `reused` / `KnownH2` | The entry of a closed connection makes the next one on its port "known to speak HTTP/2" before it said anything (12-13). |
| `mid_frame` / `VerdictsAtFrames` | `Content-Length` does not count the headers of the DATA frames a body comes in, so the verdict behind a body begins inside a frame (758, 847). |

Known limits that have no run of their own:

* `EndsInStep` and `DecodesInStep` need the codec to decode what it was given
  before a poll ends. If a poll ended early (`"yield"` in `Faults`), the next
  drain would prime the table ahead of frames not yet decoded (`server.rs`
  105). The codec is not in the repository, so take this as a condition the
  loop relies on.
* `ReportsComeFirst` (and its theorem) needs every report to be followed by a table, which is the
  barrier. With `"push"` or `"pull"` a report that failed beside its table is made with a
  later message and scanned together with what is behind it (`bpf` 940-943).
* The fast path's window is not debited for what user space sends, and a
  WINDOW_UPDATE does not bring it back (189-193). `WithinGrant`, which is what `faulty`
  and `GrantRespected` show, therefore bounds what the fast path spends, not what
  the two owners spend together before they have heard of each other.
* `StreamsFit` needs every SETTINGS to be read. One that could not be pulled in (`"pull"`)
  leaves the fast path with the stream window of the one before, which may be wider
  (464).
* What a failure leaves behind a changed message (`half_served`) costs more than the request:
  its table entry is missed as well, so none of `RequestsKept`, `DecodesInStep` and
  `EndsInStep` survives `"pull"`. `NeverTwice` and the accounts of bytes do.
* The scanner takes any frame of type `0xFA` or `0xFB` for the program's, also one that a
  client sends as an extension of its own, which RFC 7540 (5.5) allows and has others ignore.
  The model's client sends none.
* Two connections that upgrade at once may each get the last entry of one map, so
  that both lack one. Without an entry in `flow_ctl` a connection is served by
  user space alone; without one in `upgraded_conns` its frames do not parse and pass through.

### Fairness

`FairSpec` assumes weak fairness of three steps: the kernel runs a verdict on
every message (it is part of `sendmsg`), the runtime polls a task that has been
woken, and a spawned responder whose request ends gets done (`FinishStep`), which
takes an application whose handlers return. It assumes nothing of the client,
which may fall silent, never open its window, or never end a body it has begun:
a request for a path in `Endless` may be answered, or left, or stay in
`inService` for good. The connection's task is only
fair while `awake`, so liveness really depends on `poll_read` waking it (without
the wake-up, the definition `NoWake`, `CatchesUp` and `KeepsPromise` fail). The promise counts a request as
answered when `respond_to` has handed the response to the codec: getting it
onto the wire can take a window the client never grants. `Scanner` assumes that
whoever reads the stream reads on and drains the handles, as `serve_h2` does.
`ConnMaps` assumes that the loop of `serve` gets to accept what is in the
backlog, and that each connection's task gets to run until it knows the
protocol; clients may stay silent for good, and connections be given up. An
error of `accept` itself is logged and retried, so it delays the loop only as
long as it lasts: errors that last (no file descriptors left) are not modelled.

## 4. Proofs

All by TLAPS, for every value of the constants, so for any number of frames,
any table size and any windows.

| theorem | states | assuming |
|---|---|---|
| `TypeCorrect` | `Spec => []TypeOK` | |
| `GrantRespected` | `Spec => []WithinGrant` | |
| `SettingsComeFirst` | `Spec => []SettingsFirst` | |
| `EveryByteAccounted` | `Spec => []BytesAccounted` | |
| `SharesBalance` | `Spec => []SharesAgree` | |
| `ReportsLead` | `Spec => []ReportsComeFirst` | `~Fault("push")`, `~Fault("pull")` |
| `OnceAtMost` | `Spec => []NeverTwice` | |
| `NoneLost` | `Spec => []RequestsKept` | `MaxBatch = 1`, `~Fault("pull")` |
| `SameWindow` | `Spec => []WindowsAgree` | `MaxBatch = 1` |
| `RequestsDecoded` | `Spec => []DecodesInStep` | `Clean` |
| `TablesMeet` | `Spec => []EndsInStep` | `Clean` |
| `OneServer` | `Spec => AnswersAsAsked` | `Clean` |
| `ReaderGetsPublic` | `Spec => []OnlyPublic` | |
| `UpdateHoldsBack` | `Spec => []UpdateIsBarrier` | |
| `StreamIsListener` | `Spec => FiltersFrames` | |
| `RoutesLoadedWhole` | `Spec => []LoadedWhole` | |
| `ServedByteForByte` | `Spec => []ServedAsRendered` | |
| `LimitsAgree` | `Spec => []NeverRefused` | |
| `AnsweredInFull` | `Spec => []AnsweredWhole` | |
| `MarksAreKept` | `Spec => []MarksKept` | |
| `ConnProofs!TypeCorrect` | `Spec => []TypeOK` | |

Otherwise they assume no more than the `ASSUME` of the module they are about.
`Spec` is the specification of the module a theorem is about. The two
in it that are implications of specifications (`OneServer`, `StreamIsListener`) are
refinements: of the safety of `Exchange`, and of `Listener`, which has no fairness.
The assumptions of `Scanner` are that lengths are natural numbers and none of header, preface and report
empty; that a stream is a preface and any frames behind it, tables within
`MaxSyncFrame` (which `MAX_SYNC_BODY` is far below: `bpf` 115, listener.rs 64), or something of a piece that is not HTTP/2.

Those without an assumption hold with every failure switched on, and `SameWindow`,
which assumes one frame per message, does so too. The other assumptions are needed: `batch`
shows what is lost with two frames per message, `half_served` what a helper does
that fails behind one that changed the message, and the second of the known limits above is
what a failed report does. `Clean` says that a message holds one frame, that nothing
fails but a push or pop into a message that is still as it was, and that if one
does, no response takes more than one push: a second one may fail behind one that
grew the message. `unparsed` shows what a parse failure does, an early yield is the
first of the known limits. (`"refuse"` is excluded for brevity; it ends the connection.)

### The connection

None of the properties of `Beeper` is inductive; the strengthenings are in
`BeeperInvariants`, which the MC module extends:

* `Cursors` orders user space's cursors and ties `pending` to the frame the
  scan stopped at. Without it the record an action reads off `wire` may not
  exist, so `TypeOK` itself needs it.
* `GrantInv` is about the window updates still in front of the program: `upto`
  is the total granted by then, so what the program spent plus what it has left
  must stop short of each one's base. Saturation and updates that fail to be
  read keep it, as they only leave the program with less.
* `HandshakeInv`: an acknowledgement in flight proves that the server's
  SETTINGS went out.
* `FlowInv`: the reports on the wire form a chain, each starting at the total
  of the one before it; the last ends at what is no longer `unreported`, the
  last scanned one at `reported + taken`.
* `TablesInv` has three parts. `ClientInv` is the shape of a clean connection.
  `MirrorInv` says the frames passed on lead a decoder to the program's mirror,
  or the connection is marked, and each request in the stream was encoded
  against the table that the frames before it lead to. `DecoderInv` says the
  codec's table is the one some prefix of the stream leads to, that what it has
  not decoded of that prefix is private, and that no update behind it was taken.

* `PairInv` and `TakenInv` are for `ReportsLead`: as long as no push and no pull fails,
  a report is only due together with a table, so there is one right behind it on
  the stream, and the scan stops there. Hence at most one report that was scanned is not
  taken yet, the one in front of the pending table, and nothing behind it has
  been handed out.
* `PlaceInv`, `AnswerInv` and `KeptInv` are for `OnceAtMost` and `NoneLost`. They
  speak of positions: two positions that ask on one stream are the same, and no
  stream is asked for in two places. `NeverTwice` and `RequestsKept` count, but
  only the last step of each proof turns positions into a cardinality. What a failure leaves of
  a message only ever drops positions or puts bytes there that ask for nothing.
* `SharesInv` is for `SharesAgree`: what the codec has left and has spent is what
  the updates it has decoded have opened. It needs `FirstInv`, that nothing is on
  the wire before the preface, since the codec's window starts with it.
* `UpdateInv` is for `SameWindow`, and is for window updates what `FlowInv` is for
  reports: the updates on the wire form a chain whose end is all that the client
  granted, bar the update in front of the program, of which there is at most one (`Len(msg) <= 1`);
  an update that a failure wrote over cannot be, as only requests are. `UpToSum` says that the end of
  such a chain is the sum of its links, `OpenedIsGranted` that with `SharesInv` this
  gives the window the client has open.
* `AskedInv` is for `OneServer`: wherever a request is, it goes by the path the
  client asked for, or was garbled, which `DecodesInStep` excludes. With
  `PlaceInv` and `AnswerInv` each step of `Beeper` is then one of `Exchange`, a
  request being answered when it is served in the kernel or its answer handed to the codec, and
  refused when `respond_to` leaves it.

`TableAt(s, i, t)` and `UpTo(kind, base, s, i, u)` avoid sums: instead of folding
over the stream they name the last frame that matters, whose own history field
(`ctx`, `upto`) carries the rest. `FlowInv` implies `BytesAccounted` in the same
way, by `UpToSum`.

### Sums and induction

`SumTo` is a recursive function, and its laws (the empty sum, one term more, a
sum over a longer sequence, sums that only grow) are proved in `SumProofs`. The prover cannot use
the library's induction theorems, as they take an operator; `InductiveSet` states
the same for a *set* of numbers, and is proved from the least element of
a non-empty set. That the recursive equation of `SumTo` has a solution at all is
proved there too, by that induction on the solutions for `0 .. n`.

### The stream

`ScanInv` of `ScannerInvariants` relates the two ways to look at the stream.

* `InputInv`: input and `hold` are what is between `Consumed` and `received`, in
  order. Only one of them is ever non-empty.
* `StateInv` says for each state of the scanner where in which frame it is, so
  that what it has collected are bytes of that frame and no other.
* `GivenInv`: what was let through lists the public bytes up to `LetThrough`, in
  order. `OnlyPublic` is part of it.
* `PendingInv`: a pending update is the frame the scanner has just got past, and
  what it holds is that frame's payload. With `GivenInv` it makes `UpdateIsBarrier`.
* `EmptyInv`: the scanner does not get past an empty update before the next
  byte has arrived. Without it the frames that `Listener` counts as arrived could
  be fewer than those scanned.

For the refinement each turn of the loop is shown to leave the cursors of
`Listener` where they are or to move them past one frame (`Moves`). The mapping
counts frames that end at or before a byte; `Levels` replaces the cardinality by
the number of a frame that is known to end there.

### The responses

The invariant is `IInv` of `ResponseInvariants`, in two halves.

* `AttachInv`. `PlacesInv`: renderings are placed one behind the other below
  `arena_len`, and each prepared route holds its path's. `ArenaInv`: the
  routes copied so far are in the arena, in one piece. This is where the order
  of the places is needed: a copy must not touch an earlier one. `IndexInv`: a key
  leads to a prepared route of its path. `LoadedWhole` follows once `pc` has
  left `attach`. That `Cardinality(todo) + Len(prepared)` stays within
  `MaxRoutes` makes the program's `min` on the index harmless.
* `ServeInv` is a loop invariant for each loop of `serve_route`. While growing,
  the message is whole or has a chunk for every turn, so the turns suffice and
  `Grown` is not left short; while copying, what is before `turn * Chunk` is
  the rendering; while stamping, the first `turn` ids are written. What
  `Servable` lets pass fits all the later limits, hence `NeverRefused`.

`ServeInv` says of the message that it is the rendering with the ids written in;
`AnsweredInFull` says what a client reads in that, for a file of any length and any
frame size. Its argument, without the program's steps:

* `Flat`: what `FlattenSeq` joins has each piece at the sum of the lengths before it.
  `ChunksAre`: the pieces of a body are all of it, in order, and there is one even if
  it is empty. With these, `RenderedMarked` gives each frame of the rendering its place in the message;
  `InPlace` shows that the offsets in `sid_offs` hit bytes 6 to 9 of each frame and no
  other byte of any frame, as a frame has at least nine.
* `ReadsBack`: a client that follows the length fields from the first byte on comes to
  each of those places, to no other, and stops at the end. `ReadFrames` is a
  recursive function whose next position is read from the message, so that its
  equation has a solution is proved from the end of the message backwards
  (`ReadsLastExists`); it needs that lengths are numbers (`Readable`).
* `ReplyAnswers`: those frames answer the request, and `SumShift` adds their payloads
  up to the length of the file, which is `h2_data_len`.

`AnswerAssumption` says no more of the constants than that frames hold at least a byte,
that files are sequences of bytes, that the renderings are the code's, and that a byte of
a length field is a number.

### The connections

`ConnProofs` has its invariant itself. A mark could only be lost if `dt_dirty`
were full when it is written, or if another connection wrote over it. `Room`
excludes the first: the maps are of one size, only ports in `upgraded_conns`
are marked, so one of these that has no mark yet leaves room for it
(`MarkFits`, by cardinality). What other connections take between the two
updates of an upgrade does not disturb it: `dt_dirty` is a third map, and a connection
is only marked once it is found in `upgraded_conns`. `Places` excludes the second: open
connections have different ports.

### Only model-checked

Liveness (`CatchesUp`, `AllIsRead`, `EveryoneHeard`, and the fairness in
`KeepsPromise`), as fairness and `ENABLED` are out of the prover's reach, and
`StreamsFit`, for which no theorem is stated. Every other property of a passing run
is a theorem.

## 5. Not modelled

* `serve_h1`, which hands the stream to hyper, and the write half of the
  stream, which has no state.
* The reverse direction: where a redirected answer lands among the bytes user
  space is writing. Stream-level windows of user space's own responses, and
  frames for streams that were answered in the kernel.
* The end of the stream in `Scanner` and `Listener`; in `ConnMaps` it ends the choice of the protocol.
* The body of a request: all that is left of it is whether it ends (`Endless`).
* In `ConnMaps`, dropped messages and failed helpers (`FastPath` has them), which socket
  a redirect finds (the one that has the port: the kernel takes closed ones out),
  and a connection that gets verdicts again after a run of bytes it was misread
  for: those runs are taken to be longer than what the model's client sends.
* In `Responses`, a file that cannot be read and a program that cannot be
  loaded, with which `attach` fails before anything is served, and two paths
  whose keys collide, which differ in spelling by construction.
* The per-CPU scratch buffer under preemption; SETTINGS beyond the sixteenth
  parameter; the method of a request.
* In `FastPath` a verdict is taken to begin at a frame; `ApplyBytes` is about
  when it does not.
* `Scanner`'s fall back to `Blind` for a report of the wrong length, which the
  program does not build, and the early return of `scan` while an update is
  pending: `poll_read` never gets there.
* The build script, the example, the benchmark and the tests: no state.

## 6. Plan

Done, in this order: `H2Frames`, `Client`, `FastPath`, `Listener`, `ServeH2`,
`Beeper`; `Exchange` and the liveness run; the invariants and their first
theorems; `Scanner`; `Rendering` and `Responses` with three theorems; `ConnMaps`
with two; `ApplyBytes`; four more theorems about `Beeper` (order, requests,
windows); sums and induction, the accounts, the safety of `Exchange`, and all of
`Scanner` with its refinement; what a client reads of a response.

Left:

1. The reverse direction: where a redirected response lands among user space's
   frames, and pipelined HTTP/1.1 answers.
2. Stream state, for frames on streams the codec never saw.
3. A theorem for `StreamsFit`, and the end of the stream in `Scanner`.
