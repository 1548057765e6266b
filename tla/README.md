# A verification project for nginx-statshouse-module

The module collects stats of nginx's requests and sends them in UDP packets to
a StatsHouse agent. This directory holds TLA+ models of it, the TLC
configurations that check them, and proofs that TLAPS checks. Paths like
`ngx_statshouse.c:300` are below `src/src/`.

## The system

A worker process of nginx has one thread and an event loop. All state of the
module is per worker; nothing is shared and nothing is persisted. What runs
beside the code of the module is the signal handler, which may set
`ngx_terminate` between any two instructions.

| part | code | state | operations | what calls it |
|---|---|---|---|---|
| request handlers | `ngx_http_statshouse_module.c:1011`, `ngx_stream_statshouse_module.c:860` | `splits[]`, the array the stats of a metric are built in | send the stats of all metrics of a location, then flush if asked to | nginx's log phase; other modules |
| stat compilation | `ngx_statshouse.c:316-654`, `ngx_statshouse_stat.c` | `conf->last` | take values and keys apart, make up to `splits_max` stats | the handlers |
| aggregator | `ngx_statshouse_aggregate.c` | arena, queue, red-black tree, timer event | take a stat; hand records over; timer | `ngx_statshouse_send()`, the event loop |
| sender | `ngx_statshouse.c:29-313` | packet buffer, socket, flush timer | put a metric; flush; timer; close an idle socket | `ngx_statshouse_send()`, the aggregator, the event loop |
| packet format | `ngx_statshouse_tl.c` | none | length of a metric; write a metric | the sender |
| configuration | directives, merging and init of both modules: `ngx_http_statshouse_module.c:307-1008`, `ngx_stream_statshouse_module.c:321-849` | the lists of metrics and of servers, a configuration for each block | `statshouse_server`, `statshouse_metric { ... }`, merging a block with the one around it, initialisation | nginx's configuration parser |
| entry points for other modules | `ngx_http_statshouse_module.c:1081-1157`, `ngx_stream_statshouse_module.c:920` | none | send a stat made elsewhere; send the metrics of a phase, for a request, a server or the whole http block | other modules |

How they interact: a handler compiles the stats of a metric into `splits[]`
and calls `ngx_statshouse_send()` for each. That tries the aggregator; a stat
the aggregator declines, or any stat without one, is put into the packet
buffer. The aggregator takes a record of the arena for each series and adds
later stats of the series to it. When the oldest record is as old as
`flush=`, when the arena is full, or when the worker stops, it calls back into
the sender: once per record to put it into the buffer, once with NULL to flush.
The sender flushes when the buffer is full, when its own timer runs out, after
a request with `flush_after_request`, and for the aggregator.

What is hard about it: two timers, one of which may be posted instead of set;
a clock that wraps; an arena used in a circle by records of different sizes; a
record that is in the queue but no longer in the tree; calls of several steps
that can fail in the middle; a worker that stops between any of these; a
length function and a writer that must agree; a tree whose two walks turn by
different rules; blocks that share arrays of metrics and servers by address. `PROJECT.json` lists these at
their lines under "hazards", with the properties that cover them.

What makes each part correct:

- aggregator: no record is written over another; every stat taken is in one
  record until that record is handed over; nothing waits longer than the
  interval; the stats of a series keep their order.
- sender: the buffer is never overrun; nothing is sent twice; what is in the
  buffer has a timer; nothing is dropped without a cause; a worker that quits
  leaves no socket.
- composition: a stat is in one place, leaves once, and is lost for a reason
  that can be named: the network, a lack of room, its length, or the exit.
- packet format: the bytes written are the bytes announced, and read as what
  was written.
- compilation: stats are what a declarative reading of values and keys says,
  fit into `splits[]`, and respect the timeout.
- configuration: each block has the metrics, the server and the timeouts that
  the file says, nginx refuses a file only for a cause, and no request of an
  accepted file meets memory that is not there. (The code breaks three of
  these in corners, which are findings below.)

## The modules

| module | what it is |
|---|---|
| `Arena` | `alloc()` and `free()` of the arena as operators on offsets, and what a queue of blocks looks like in it |
| `Aggregate` | the aggregator as a state machine, against a handler that answers anything |
| `Tree`, `AggregateTree` | the walks over the red-black tree; the aggregator with its tree, which implements `Aggregate` |
| `Server` | the sender as a state machine, against handlers that put and flush in any order |
| `Delivery` | abstract: a stat is held, then sent or lost, once |
| `Statshouse` | aggregator and sender composed through the calls between them; requests in front |
| `TL` | the packet format as sequences of fields, and a reader |
| `Parts`, `Compile` | `stat_part()` and `stat_compile()` |
| `Config` | the directives, merging and initialisation of both modules, and the requests and calls that use what they made |
| `...Props` | the properties of a module; those of `TL` are in the module itself |
| `MC...` | constants for model checking |
| `Lemmas` | lemmas about a clock that wraps, and about recursive functions and folds |
| `AggregateProofs` | lemmas about the arena; theorems of `Aggregate`: memory and calls, stats, times |
| `TreeProofs` | theorems of `AggregateTree`: the tree is exact, and with it the aggregator implements `Aggregate` |
| `ServerProofs`, `StatshouseProofs`, `TLProofs`, `CompileProofs`, `ConfigProofs` | theorems of `Server`, `Statshouse`, `TL`, `Compile` and `Config` |

In every module, a definition commented as a *slip* is a plausible mistake, used
only to see that the properties would notice it.

### Aggregate and Arena

`queue` is `aggregate->queue`, oldest record first; a record has its offset in
the arena, its size, its time, its hash (0 once it is out of the tree), its
series, and the numbers of the stats it holds: a counter that is added up and a
value that is appended are both an appended number. `index` is the tree: the
offsets of the records in it. A tree has more structure than a set, and the
code can feel it in one place: among records with equal hash and size but
different types `lookup()` (line 368) may turn to the wrong side. `Lookup`
therefore returns a found record or, if such a tie exists, possibly none; that
this is all a walk over the tree can do is what `AggregateTree` shows. `Hash` is
a constant function; a series is a name with its keys and a type, so that two
series may have equal hashes, sizes, or both. Two series that agree in hash,
size and type are one series to the code: `Lookup` finds the record of either.
The series of `MCAggregate` differ in one of the three; those of `MCSeries` have
their hash computed from their bytes, as the code does, and two of them agree
in all.

`ngx_statshouse_aggregate()` is `Refuse`, `Merge`, `Store` or `NeedSpace`. The
last begins a call of `ngx_statshouse_aggregate_process()`, which is `Enter`,
one `HandOver` for each turn of the loop, and one of `EndTimer`, `EndStored`,
`EndDeclined`, `EndFailed` according to the caller and the results. `MergeAt`,
`StoreAt` and `NeedSpaceAt` take what the lookup returned as an argument, for
`AggregateTree` to give it another lookup. A call is
several steps because `ngx_terminate` may be set within it; nothing else can
run meanwhile (`Idle`).

### Tree and AggregateTree

A tree is its nodes from left to right, with the depth of each; the depths say
how they are linked, since at the top of a subtree is the shallowest of its
nodes. A subtree is a span of places, an empty one a sentinel. `Slot` and `Walk`
are `insert_value()` and `lookup()`, step by step from a subtree to the one
below; the insertion compares hash and size, the lookup hash, size and type, and
by type it goes left from the smaller. After an insertion or a deletion nginx's
`ngx_rbtree` recolours and rotates: `Inserted` and `Deleted` allow every
red-black tree of the same nodes in the same order (`Balanced`: depths that are
`Linked`, for which some colouring makes the tree `RedBlack`), of which nginx's is
one, so that what is shown does not depend on how it balances. `AggregateTree` adds the variable `tree` to
`Aggregate`. Each of its actions is one of `Aggregate` with the position that
the walk found, and says what becomes of the tree; `AggregateImplemented` is
the specification of `Aggregate`, as a property, the variables being the same.

### Server

`server` is the struct: the metrics in the buffer, the bytes they take, whether
there is a socket; and as history what was sent, lost, or found no room.
`ngx_statshouse_flush()` is `FlushRc` and `Flushed`, for each way in which
`socket()`, `connect()` and `send()` can end: "unreachable", "refused",
"again" and "sent". `send()` answering `NGX_AGAIN` empties the buffer
(line 236), so "again" loses the packet. The operators take the server as an
argument because `ngx_statshouse_send_to_buffer()` flushes and then fills it in
one call.

### Statshouse and Delivery

Variables of both parts; each action is a step of `Agg!`, of `Srv!`, or of
both. `HandOver` ties the answer the aggregator gets to what the sender
does with the record. `options` are the two of the configuration that change
the course of a call, whether there is an aggregator and `flush_after_request`;
`Init` takes any of them, so that a run has all four.

`phase` is what the event loop runs. Stats come from handlers of two kinds:
"request" is `ngx_http_statshouse_send()` and its like in the stream module,
which send the stats of all metrics and end with
`ngx_statshouse_flush_after_request()` (`EndRequest`); "module" is a handler of
another module that calls `ngx_http_statshouse_send_stat()`, which sends a stat
and flushes nothing (`EndModule`). Between the first and the last stat of a
handler no timer runs.

`StatshouseProps` says where a stat is: `Inside` the worker (with the
aggregator, on its way, in the buffer), sent, or `Lost`. What is inside when
the process exits is `Left`, and is lost too. `LostForCause` names the reasons
for which a stat becomes lost, of which there are four: it is in a packet whose
`send()` would block (NGX_AGAIN empties the buffer); there is no room for it
and the flush that was to make room fails; its metric is longer than the whole
buffer; the process exits. `DeliverySpec` is the refinement: held stats are
those inside.

### TL

A string is a length and an identity. A packet is a sequence of fields of known
sizes. The reader follows the schema from the counts and masks in the packet;
it stands for the agent, which is not in the repository.

### Parts and Compile

A text is a short sequence of characters over the few that the code looks at,
with the two bytes that follow it in memory, because the test for " : " looks at
them. `Compiled` follows the code: parts of the value, then key after key, each
of which may open more stats. `Expected` in `CompileProps` says what each stat
is to be, by itself. The test in `is_group_delimiter()` (line 319) is true for
the end of the string only, so a " : " in the middle is text; at the end it is
stored through a NULL pointer, the result "fault". No document of the
repository speaks of groups, so this is no finding; `StatsExact` is stated for
the texts in which the code sees no delimiter.

### Config

One state machine for both modules; `module` chooses one, and where they differ
there are two definitions, `HttpX` and `StreamX`. The state is what the parser
builds: `conf` of each block, `arrays` of metrics that blocks may share (a
pointer in the code is a number here), `metrics`, `servers`. The http module
keeps pointers to metrics and merging copies the pointers; the stream module
keeps the metrics, and merging copies them, each with a `last` of its own.

nginx's part is external: `Open` and `Close` give the blocks of a file, in which
directives may come before and after those inside; each block is merged after the one
around it; `Start` compiles, initialises the servers, and refuses a file that
refers to a variable that nobody defines. A directive is a record of what the
code tells apart: a server has an address, whether it can be parsed, the
parameters that are compared later, and `flush=`; the items of a metric have
the variables they refer to and those `exists` asks for. After `Start` come
requests (`Handler`) and calls of other modules (`SendPhase`, `SendHttp`,
`SendStat`). `SendHttp` uses the configuration of the http block, which was
merged with nothing, so that server and enable are still "unset" there, which
the tests of `ngx_http_statshouse_send()` take for set. `rc` is "fault" when
memory is used that was never set or initialised.

At the end of the configuration the http module compiles metric by metric, and
in a metric its value, its conditions and then key by key. What `exists` asks for
is looked for among the variables that are defined and those that were indexed
up to there, also by the same metric (`CompileKey`, `CompileMetric`). The stream
module compiles what it parses.

`ConfigProps` says what a file means from the list of directives alone, without
the tests that the code makes: `Effective` metrics and the `Nearest` server; a
server directive that `SaysOff` has the word `off` and nothing else; a metric
is `WellFormed` if it has one of count, value and unique, and nothing twice.
The code's own tests are others, and where they disagree it shows:

- `IsOff` is the code's comparison of three letters. A lone address that begins
  with "off" is in `OffWords` and disables; `ServerAsWritten` fails for it
  (`off_prefix`), and holds if the word is alone in `OffWords`.
- `StreamAccepts` refuses every `aggregate_values=`: line 735 looks for the
  number in the middle of the name. `RefusedForCause` has this as its one
  exception, named as such.
- `StreamMerge` copies `last`. `PacedWhereShared` is about blocks that have the
  same metrics in memory; without that restriction it is `PacedWithinWorker`,
  which fails in the stream module.

`FaultsForCause` names the two ways into a fault, both by calls of other
modules; no document speaks of them. Numbers, sizes and addresses are not
parsed: a directive says whether its address and all its parameters can be
(`valid`).

## The runs

| run | what it asks | bounds, and why they are enough |
|---|---|---|
| `aggregate` | is anything overwritten, forgotten, doubled, kept too long, left in the tree? | 4 stats of 4 series; the arena of 8 holds two records of 2 or 3 and refuses or wraps with the third, or one of 5; four records are enough to fill it to the byte after a wrap if `alloc()` let them; hash and size tie with and without equal types; records full after 2 values; the clock wraps after 5 with an interval of 1 and a delay of 1 |
| `aggregate_tree` | does the walk over the tree find what `Aggregate` says, is the tree always right, and does every stat taken leave with `flush=0`? | 4 stats of 5 series, of which three tie on hash and size and one on the hash only; an arena of five records of the smallest size, so that trees of four nodes, all their red-black shapes, and records detached while full occur; one value fills a record; the timer is posted and time stands still |
| `server` | is the buffer overrun, a timer lost, a packet sent twice, a socket left? | 4 metrics of 2, 3 and 6 bytes in a buffer of 5: one that fits with another, one that does not, one that never does |
| `statshouse` | is a stat ever in two places, sent twice, lost without a cause, left in the buffer by a request that flushes, or kept for ever by a running worker? | 3 stats of 2 series through an arena of one or two records (5 bytes for records of 3 or 4) and a buffer of 4, so that the second or third finds no space in either; a record of two values, of 5 bytes, is longer than the buffer, one of one value is not; all four options; 2 kinds of handlers; the delay of the loop is 0, for lateness is covered by `aggregate` and `server` |
| `tl` | do lengths and bytes agree, and does a packet read back? | strings of 0, 3, 252 to 255 bytes, around the change of form at 253; up to 3 values; two stats in a packet |
| `compile` | are the stats what values and keys say? | all lists of up to 3 characters with all pairs of key texts, up to 4 with the same text as key, and the shapes a group delimiter can take; `splits_max` 3 is reached by both |
| `config` | do blocks have the metrics, servers and timeouts of the file; is a file refused, or memory missed, for a cause only? | 3 directives of 10 in an outer block, two inside it and one inside those, before and after each other: a block with a metric between two that have one needs three; two servers that differ in `flush=` only, one with `aggregate_values=`, one that cannot be parsed, and `off`; a metric with a timeout of 1 and a clock of 2 ticks; 2 calls, the second after a send or a fault |
| `series_collision` | violation: see below | 2 stats are enough |
| `sent_after_request` | violation: see below | as `statshouse`, with 4 stats and an arena of 7 |
| `off_prefix` | violation: see below | as `config`, with a server and one whose name begins with "off" |
| `paced_within_worker` | violation: see below | as `config` |
| `unique_count` | violation: see below | as `tl` |

`MaxStats`, `MaxMetrics`, `MaxDirectives`, `MaxCalls` and `MaxTime` bound the
histories. `MsecWrap` is as
small as signed comparison of times allows (twice the longest delay): every
state near a wrap is reached. Deadlock is not checked: workers exit, and the
bounded ones run out of stats.

Fairness. `Process` and `Call` are weakly fair: a call of the single thread
returns. The loop reads the clock and runs expired timers and posted events in
each turn, which is fairness of `Tick` and of the timers; in `Statshouse` it is
strong, since requests come in between. `FlushTimer("sent")` is strongly fair:
a network tried again and again works at last; without that nothing can be
promised. Requests and signals are not fair: they need not come. All
liveness properties except a worker that stops: the timers are cancelable, and
exit does not wait for them.

Findings. `sent_after_request`: the README says of `flush_after_request` "Send
stats after every request."; with `aggregate=` the stats stay in the
aggregator until the interval is over. `unique_count`: a unique stat of
several aggregated values is written with a count of 1
(`ngx_statshouse_tl.c:231`), and what follows cannot be read.
`series_collision`: the README says of a key "sends matching key to
`statshouse`"; the aggregator knows a series by the checksum of its name, key
names and key values with nothing in between, and the size. Key names are "0",
"1" and so on, so that `key0=a1b key1=c` and `key0=a key1=b1c` are the same
bytes; the second stat is sent with the keys of the first. `off_prefix`: the
syntax in the README has `off` in the place of an address; the code compares
three letters of a lone argument (`ngx_http_statshouse_module.c:835`,
`ngx_stream_statshouse_module.c:677`), so that `statshouse_server offshore:13337;`
switches sending off without a word. `paced_within_worker`: the README says of
`timeout` "timeout of how often stat could be sent (within a worker)"; the
stream module copies the metrics of the stream block into server blocks that
have metrics of their own, `last` with them (`ngx_stream_statshouse_module.c:422`), and
each copy counts for itself.

One more is no run of its own. The stream module refuses `aggregate_values=` with
every number, since it skips ten of the seventeen letters before it
(`ngx_stream_statshouse_module.c:735`). No document describes the parameter, but the
http module takes it, and the message says that the number is invalid. It is the
exception in `RefusedForCause`; without it the run `config` fails.

## The proofs

All theorems are about the `Spec` of the module, for every value of the
constants that satisfies its named assumptions; a hypothesis beyond those is in
the theorem. Each follows from an inductive invariant, which TLC checked on the
instance of a run before it was proved.

- `AggregateProofs`, the arena: `ArenaInv` is kept by an allocation (`AllocTiled`) and by a free
  of the oldest block (`FreeTiled`), and it implies that blocks are disjoint
  (`TiledDisjoint`). That no two blocks overlap is not inductive: one has to
  know that the queue tiles the space between `last` and `pos`, in one stretch
  or in two after a wrap (`Straight`, `Wrapped`), and that the strict
  comparisons of `alloc()` keep `pos` from catching up with `last`. The gap at
  the end of the arena that a wrap leaves is given back when the record at
  offset 0 is freed, which is why `free()` restarts the count there.
  `EmptyServes` shows why the arena never gets stuck: when the queue is empty
  `pos = last`, and one of the two sides has half of the arena.
- `AggregateProofs`, the aggregator: the invariant `Inv` is the types, `ArenaInv` for the queue,
  `IndexExact`, the shape of the call under way (`CallOK`), and that the timer is
  set or posted except while the timer's own call runs (`TimerInv`). From it:
  `TypeCorrect`, `ArenaIsSafe`, `IndexIsExact`, `TimerIsSet`, `EmptyArenaHasRoom`.
  `IndexExact` needs the arena: an offset identifies a record only because
  blocks are disjoint and not empty.
- `AggregateProofs`, the stats: `SInv` adds what the records hold. A record has the
  size, hash and type of its series, room for its values, and stats that are
  held and look like its series (`RecordsHold`); each held stat is in a record
  (`Kept`), at one place (`Once`). With them `ValuesAreBounded` and
  `StatsAreConserved`. `StatsStayInOrder` needs two more, for a series
  with a hash and size of its own: of its records only the youngest is open and
  has the youngest stats (`Ordered`), and no stat left before an older one
  (`NoneOvertaken`). All of this would break in
  one place: after `process()` has made space the stat is stored without a second
  lookup. `CallHolds` says why that is right: while the call runs no open record
  could take the stat, since the full one was detached before and nothing comes
  in. `SeriesArePure` has the hypothesis `SeriesDiffer`, that hash, size and type
  tell the series apart; `series_collision` shows that it is needed, and that
  the program does not see to it. `StatsLeaveOnTime` is an action property:
  `CallHolds` has that only a worker that stops hands over everything.
- `Lemmas`, the clock: what `(now - t) % W` is after a tick, before and after a wrap,
  for `t` in the past or not far ahead.
- `AggregateProofs`, the time: `RecordsLeaveInTime`. Ages fall along the queue
  (`AgesFall`), also over a wrap, and the timer matches the oldest record
  (`TimerMatches`): it expires when that record's time is up or earlier, or it
  has expired and is no later than the loop may be. Ages are what is
  compared, never times; `TimeAssumption`, which for nginx says that the interval
  is below 2^31 ms or so, makes the two agree.
- `ServerProofs`: `Inv` is the types with what the server's fields mean to each
  other (`ServerOK`); `TypeCorrect`, `BufferIsSafe`, `FlushIsArmed`,
  `SocketIsClosed`. `Account`: the metrics put are in the buffer, sent, lost or
  dropped, in one of these only; `SentAtMostOnce` is its reading as numbers.
  `DropsHaveCause` is an action property. `MetricsLeaveInTime` is from
  `ClockInv`: until a flush fails, each metric in the buffer is due when the
  timer expires or later (`InTime`), also if the timer was set by one put before
  it.
- `StatshouseProofs`: `WInv` is `SInv` of the aggregator, `ServerOK` of the
  sender, and where the stats are in between (`PhaseInv`, `PlacesInv`). The
  theorems of the parts are used, not proved again: `AggregatorStep` shows that
  each step is one of the aggregator or leaves its variables, `FlushStep` and
  `PutStep` the same of the sender's operators. From it: `TypeCorrect`,
  `EachStatIsOnce`, and `StatsAreDelivered`, the step simulation of `Delivery`,
  which rests on `Advances`: a step moves stats towards the network or brings a
  new one, never both, and takes none back. `LossesHaveCause` goes through the steps:
  what each may lose, and why, from the theorems of the two parts;
  `BufferIsFlushed` adds `Quick`, that what `process()` has put into the buffer
  stays there no longer than the call. `RequestsAreSent` is that after a request
  with `flush_after_request` only the aggregator has anything; that it may have
  something is `sent_after_request`.
- `ConfigProofs`: `Inv` is kept from the first directive to the last call.
  `NoneFaults` needs that a block knows its server once it is merged
  (`BlockInv`) and that servers are initialised unless there is no metric
  (`ReadyInv`). `MetricsArePaced` is about what merging shares. In the http
  module several arrays may point to a metric, and it is enough that there is
  one metric for each directive (`HttpInv`). In the stream module metrics are
  copied, so that a directive may have several, each with a `last` of its own;
  pacing holds because a block without metrics takes the whole array of the
  stream block (`Shares`), no two others share one (`Apart`), and an array has no
  directive twice (`OneEach`). `MadeInv` ties the history to `last`. That blocks
  with metrics of their own are excepted is not for want of a proof:
  `paced_within_worker` refutes it for them.

  What a block has and what the file says (`Kept`) are two readings of the same
  directives, and the invariant relates them at every point of the file.
  `MetricsInv`: the origins of a block's metrics are the places of its own
  directives until it is merged, and `Effective` after that. `Exclusive` is why
  a directive reaches no other block: blocks have an array in common only when
  both are merged, and nothing is written in a merged block. It is from these
  two that `MetricsAreInherited` follows. `ServersInv` says the same of servers,
  with `Own` and `Nearest`; it also needs that a block whose last directive is
  `off` has no server of its own. `FirstInv` is that the servers of the list
  are those of the first directives with their parameters, which is what
  `ServersAreAsWritten` claims of `flush=`. That theorem has the hypothesis
  `OffWords = {"off"}`: no address but the word begins with it, which is what
  `off_prefix` lacks. `PlacesInv` has that `In` gives places of the file.

  `RefusedForACause` has no hypothesis. It needs that the parser's loop over the
  items of a metric fails only if they are not `WellFormed`, which is an induction
  over the items (`ItemsRead`, `ParsedFacts`) that relates each flag the loop sets
  to the items that were read. `AsksInv` is that the metrics of the stream
  module ask for no variable, so that what is refused at the end is not guarded
  in that module either; for the http module, that what a guarded metric indexes
  is defined, whatever was indexed before it. A refused file is no longer as
  `Kept` says: the directive that ended it is written, and made nothing.
- `TLProofs`: `IInv` says what a packet is: fields of sizes that are multiples of
  four and come to what was counted (`Piece`), one stretch of them for each stat
  (`Batches`), and a reader that stands between two stretches (`Reading`). From
  it `TLLengthExact`, `TLAligned` and `TLRoundTrip`, for every length of strings
  and any number of stats, keys and values. The lists of fields are flattened by
  a fold, which `Flattens` says step by step; alignment could fail in the
  padding, which the code counts with an unsigned `-len`.
- `CompileProofs`: `Inv` has the shape of a result: stats with numbers, at most
  `splits_max` of them, whose keys go up (`Built`). The recursion of `Parts` gives
  no more parts than it is asked for, and the folds over the keys keep `Built`,
  whatever the text is: from it `TypeCorrect` and `StatsFit`. `MetricIsPaced`
  needs that `last` is set whenever stats have been made, and is no earlier.
  `StatsAreExact` is that `Compiled` and `Expected` are equal for texts without
  delimiters. `Expected` cuts a list at its commas by counting them, the code
  walks from one to the next, so first `PartsExact`: the cuts in order
  (`Cutting`), a piece between two of them (`Stretch`), what `StatPart` does
  from any blank before its text (`StatPartIs`), and that it says "none" just
  after the last piece that is listed (`StopsAtSize`). Then the loop over the
  keys: after n of them each stat has the keys among the first n that it is to
  have (`MadeUpto`), also one that the key opens, for no part of an earlier key
  reaches it (`OpenedIs`). What was answered stays the answer to the request
  under way (`Answered`).
- `Lemmas`, recursion: what `f[x \in S] == e` and `FoldLeft` compute. TLA+ defines such a
  function by CHOOSE, so that one must first prove that there is a function of
  which the equation holds (`RecursionHolds`: there is, if `e` looks at `f` only
  where some number is smaller), and for a fold that it is that of the elements
  before the last, and then one step (`FoldNone`, `FoldOneMore`). The module has
  the right-hand side as a parameter, and `TLProofs`, `CompileProofs`, `ConfigProofs`
  and `TreeProofs` instantiate it for each of theirs; the induction itself is over
  sets of numbers (`SetInduction`). For `Effective` and `Nearest` the number is the
  depth of a block, which `BlocksAssumption` gives, for `Slot` and `Walk` the number
  of nodes of a subtree.
- `TreeProofs`, the walks: in a tree whose nodes are in order (`Sorted`), `Slot` is
  the place with no node to its left that the new one goes before and none to its
  right that it goes behind (`SlotSplits`), so that order is kept. `Walk` returns
  a node with the hash, size and type it looks for, or `NotFound`. It can miss
  one only by turning at a node of equal hash and size and another type: from any
  other node it turns to the side where the one looked for must be, so that a
  subtree that is entered has it still.
- `TreeProofs`, the aggregator: `TInv` is the invariant of `AggregateProofs` and that
  the tree is in order and links the open records of the queue, each by one node
  (`Links`). Insertion and deletion change one node and keep the order of the rest,
  whatever the depths become; a record that leaves the queue has been deleted
  unless its hash is 0 already. `TreeIsExact` is a reading of it. With it
  `Found` is one of the values of `Lookup` at each step, which is all that
  `TreeImplements` needs. What is proved of `Aggregate` is so proved of the
  aggregator with its tree, for trees of every size and shape.

The assumptions are on constants only. `SeriesAssumption` has hashes that are
not 0: a hash of 0 is the hazard at `ngx_statshouse_aggregate.c:222`.
`TimeAssumption` and `ServerTimeAssumption` are the range in which nginx's
timers are compared correctly at all. `BufferAssumption` and `MetricAssumption`
say that an encoded metric is not empty, `BlocksAssumption` that blocks are
inside blocks and none inside itself, `OffAssumption` that the word `off`
disables, `ItemAssumption` that timeouts are natural numbers and the phase of a
metric, if there is one, is not empty. `StatsAssumption` has that a counter has one value, as
`ngx_statshouse_stat.c` makes it. `SizeAssumption`, `PartsAssumption`,
`BoundAssumption`, `CompileAssumption` and the `MetricAssumption` of `Config` are
types.

Only model-checked: liveness under fairness (`HeldLeaves`, `StatLeaves`)
and whatever needs ENABLED, which the prover does not do. That there always is a
red-black tree for `Balanced` to allow is of that kind: the proofs need it
nowhere, and in `aggregate_tree` a record that no deletion could take out would be held for
ever, against `HeldLeaves`.

## What is not modelled

- Sampling (`sample`): a random choice before each metric, documented nowhere.
- How nginx balances its red-black trees: any red-black tree is allowed.
- Configuration inside `if` blocks, and the inheritance of blocks into them.
- The memory of other modules: a stat handed to
  `ngx_http_statshouse_send_stat()` is kept by the aggregator with its name by
  reference (`ngx_statshouse_aggregate.c:154`).
- Reloading: the new worker has a configuration and buffers of its own, and
  the old one quits, which is modelled.
- Arithmetic of values, memory alignment of records, checksums: numbers and
  hashes are symbols. So it is not seen that a unique value passes through a
  double (`ngx_statshouse_stat.c:59`), which keeps 53 bits.
- `ngx_pcalloc()` failing at start: nginx does not start then.
- The build script `src/config`.

## The plan

1. Done: `Arena`, `Aggregate`, `Server`, `Statshouse`, `Delivery`, `TL`, `Parts`
   and `Compile`, their runs, and the theorems above.
2. Done: the configuration (`Config`), the tree (`Tree`, `AggregateTree`) and
   the bytes of a series (`MCSeries`).
3. Done: the theorems of `Aggregate` about stats and times, of `Server` about
   what was put, the implementation of `Delivery`, and those of `Config`.
4. Done: recursion and folds (`Lemmas`), and with them the theorems of `TL` and
   `Compile`, what `Config` says of metrics, servers and refused files, and the
   theorems of `AggregateTree`.
5. Left: the time a stat may wait in `Statshouse`, from the clocks of its parts.
