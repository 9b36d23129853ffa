# A TLA+ development of the ESP8266 web server firmware

This directory holds TLA+ specifications of the firmware in `src/main` and of the
SPIFFS file system in `src/spiffy/src` that its image is made with, the TLC
configurations that check them on small instances, and theorems about them
proved with TLAPS. The reference is the code; the modules are named after its
classes and their actions after its functions.

## The system

The firmware turns an ESP8266 into a small HTTP server. It joins a Wi-Fi
network or, failing that, offers an access point with a set-up page; it serves
files from a SPIFFS image, gives web pages access to the UART and to GPIO pins,
and bridges one TCP client on port 5000 to the UART.

| component | source | state | operations |
|---|---|---|---|
| Wi-Fi manager | `main/wifi_manager.*` | `state`, `counter`, `scanning`, `networks`, a lock queue, a periodic timer | JoinNetwork, ListNetworks, IsConnectionSafe, OnConnect, OnDisconnect, OnScanDone, OnTimeout |
| HTTP server | `main/webserver.*` | accept mutex, buffers, one task per connection slot with its request and response | accept, ReceiveRequest, ParseRequest, SendResponse |
| service dispatch | `main/service_factory.*` | list of services ordered by priority | RegisterService, CreateService |
| services | `main/service*.*` | what a request owns: open file, UART lock, network to join, pin | SetReqData, GetRespCode, GetLength, GetNextChunk, destructor |
| serial port | `main/serial_port.*` | UART receive buffer, lock queue | Lock, Unlock, Flush, Count, Read, Write |
| port 5000 server | `main/server.*` | one connection | accept, safety check, copy loop |
| text utilities | `main/utils.*` | none | StartsWith, EndsWith, NextString, Print |
| start-up | `main/cpp_main.*`, `main/user_main.c` | none | construction of the objects above |
| SPIFFS object storage | `spiffy/src/spiffs_{nucleus,hydrogen,gc}.c` | flash pages, block and page counters, free cursor, descriptors, the shared buffer `fs->work` | mount, open, read, write, lseek, close, remove, rename, gc (vendored) |
| SPIFFS cache and check | `spiffy/src/spiffs_{cache,check}.c` | a pool of cache pages, each a copy of a flash page or a cached write of a descriptor; the cursor of the last search | cached read and write, flush, SPIFFS_check (vendored) |
| image tool | `spiffy/src/main.c` | the image | format, copy files (host program) |
| pages | `files/*` | browser state | requests sent to the firmware |

### How they interact

* Four kinds of threads enter the Wi-Fi manager: the event-loop task, the timer
  daemon, the HTTP tasks (through `ServiceWifi`), and the port 5000 task, which
  only reads `state`. All but the last go through `Lock()`/`Unlock()`, a queue
  of capacity one.
* `WEB_CONNECTIONS` equal HTTP tasks take turns in `accept()` under a mutex,
  then serve a connection each. The service of a request is created by the
  factory and owns its resource from constructor to destructor; an error code
  deletes it and puts the file service of the error page in its place.
* `ServiceSerial` takes the UART lock in its constructor and gives it back in
  its destructor. The port 5000 server uses the same UART without the lock.
* `ServiceWifi` calls `JoinNetwork` in its *destructor*, after the answer.
* SPIFFS is layered: the calls of `spiffs_hydrogen.c` work on objects, objects on
  pages, and any of them may first run the garbage collector, which moves pages
  under open descriptors. `spiffs_cb_object_event` is what tells the descriptors.
  The firmware reads files through it; `spiffy` writes the image with it.
* Between the calls and the flash is the cache: every read and write of a page goes
  through its pool, and small writes of a descriptor wait there until something
  flushes them. Pages that are copies and pages that are cached writes compete for
  the same pool.
* `SPIFFS_check` is called by an application after a mount. The firmware never
  does; nothing else would mend what a reset inside a call leaves.

### What is hard here

* Late events: `GOT_IP` and `DISCONNECTED` are queued and may be acted upon
  after a join or a tick has changed the state they were about; one timer is
  restarted by every handler; a scan must not disturb a connection attempt.
* The network table is rebuilt and sorted while others list it; its loops count
  down in `uint16_t`.
* Resources of a request must survive exactly as long as its service, over the
  error path, failed sends and dropped connections; the two tasks share two
  file descriptors and one UART.
* `recv()` cuts a request anywhere; content may arrive with the headers.
* The length of a UART answer is announced before its bytes are read.
* Every change of a file writes new pages, then index pages, then the header, then
  deletes the old ones, and each of these may trigger or meet garbage collection;
  counters are adjusted in eight places and never recounted until a mount;
  descriptors cache page addresses that other calls change.
* A reset may come at any of those writes, and leaves two versions of a page, or a
  page that is entered and not written, or written and not entered. The check has
  to tell which to keep, and may itself be cut off.
* The cache holds bytes that the flash does not have and copies of pages that
  others write; what one descriptor has cached, another one of the file must see.

The full list, with source lines and the properties aimed at each, is under
`hazards` in `PROJECT.json`.

## The modules

`Mutex.tla` is the abstract specification of a lock: a set of holders with at
most one member, entered when empty. Two components implement it by refinement.

**`WifiManager.tla`** has the manager's fields under their own names and, for
each thread, its place (`pc`) and the call it executes (`job`). A handler is
three or more steps (call, `Lock`, body, `Unlock`), so everything that can
happen between them does. `OnScanDone` and `JoinNetwork` have two body steps.
The Wi-Fi driver (`mode`, `link`, `scanRun`, `events`) is external and modelled
from the calls and events in the code: a connect starts an attempt when the link
is down, an attempt ends in `GOT_IP` or `DISCONNECTED`, leaving a network is
reported and giving up an attempt may or may not be. `due` is the time left in
the timer period, so that a restart by another handler is visible.
`IsConnectionSafe` reads one word without the lock and has no step of its own.

**`ScanTable.tla`** has what happens inside `OnScanDone` and `ListNetworks`:
the table, the bubble sort with its 16-bit loop variables, and the listing with
`snprintf`'s return value. The lock theorems of `WifiManagerProofs` are the
reason nothing interleaves here. A scan may find nothing; its sort leaves the table, and
there the model stops (`pc = "undefined"`), since what lies behind `networks` is then read
and swapped.

**`SerialPort.tla`**, **`Webserver.tla`**, **`Server.tla`** and their
composition **`WebSystem.tla`** model the UART, the HTTP tasks with their
services, the port 5000 server, and all of it together. A place of `pc` names
the call a task makes next; `fd` and `port` say what its live service owns;
`length`, `left`, `chunk`, `body` count bytes. A request is one of 14 kinds,
covering every service and each of its error answers. `WebSystem` is the two
servers interleaved over one UART.

**`RequestReader.tla`** is `Webserver::ReceiveRequest` character by character,
with segments of any length. **`ServiceFactory.tla`** is the dispatch list, paths
and URLs being sequences of tokens. **`Requests.tla`** composes the two as
`ServerTask` does: services are registered, a request is received, `ParseRequest`
cuts method and URL out of the buffer in place, `CreateService` looks the URL up,
and the next request is received into the same buffer.

**`SpiffsPages.tla`**, **`SpiffsGc.tla`**, **`SpiffsObjects.tla`** and
**`SpiffsStore.tla`** are SPIFFS, each extending the one before. The first three
are operators: a C function `f(fs, ...)` is an operator that maps the record `s`
of everything `fs` reaches to the record it leaves, with its return code in
`s.res`; `Then` is `SPIFFS_CHECK_RES`. `SpiffsPages` has searching, allocating,
moving, deleting and erasing pages, `SpiffsGc` candidate selection and cleaning,
`SpiffsObjects` create, append, modify, truncate and read with their loops over
index pages. `SpiffsStore` is the state machine: one action per call of
`spiffs_hydrogen.c`, each a single step because the library has one caller and
`SPIFFS_LOCK` is empty. A page of the model has the header flags, the index
entries and the bytes of a real one; programming only clears bits, as on flash
(`Program`, `AndByte`). `files`, the map from names to bytes that the calls have
promised, is the abstract specification, and `ContentKept` the claim that the
pages implement it. `offset` is an argument of `SPIFFS_write` and not part of a
descriptor: writes may come at any offset up to the size. Addresses are below
`IX_FLAG - 2` and no file is as large as the mark of an unwritten size (`SizesAssumption`,
`BoundsAssumption`): the code has 16 bits for an address or an id, one of them for the flag,
and does not look out for files that large.

A reset inside a call costs no interleaving: every operator that writes a page
does so through `write`, which, while `tearing` is set, collects in `torn` the
flash after each of its writes. `ResetIn` then takes one of them and mounts it.
`possible` holds what the files may be from then on: as before the call, as after
it, or what a partial call may have left. No call follows a reset but the check.

**`SpiffsCheck.tla`** is `spiffs_check.c`: the pass over the lookup pages, the
pass over the index pages and the pass over all pages in ranges as large as
`fs->work` allows (`PAGES_PER_SCAN`), which starts a range anew after each repair.
Here two versions of a page may exist, so a search starts where the last one ended
(`cursor`). Repairs for which no reset can make a case are an error, `FOREIGN`, and
so is a page check that needs more than `MaxPasses`; `CheckEnds` says that neither
comes up. **`SpiffsRecovery.tla`** adds `SPIFFS_check` to the calls of
`SpiffsStore`, with resets inside it.

**`SpiffsCache.tla`** is `spiffs_cache.c` and the calls as they use it. The pool has
`cpage_count` pages, free, a copy of a flash page, or a cached write, and keeps the
copies in the order of `last_access` (`older`, the pairs of them, and `newest`, the
one accessed at this very count). A copy carries whether it is `current`
rather than its bytes. The flash traffic of the object layer (`phys_rd`, `phys_wr`,
`gc_erase_block`) is free to happen between any two calls, which covers every order in
which a call can cause it; the object layer itself is reduced to the file's bytes and to
whether a write to them succeeds. **`Files.tla`** is what the calls promise with
no cache in sight: a write is in the file when it returns, every descriptor sees it,
and bytes are lost only when somebody was told. `SpiffsCache` implements it under
the refinement at its end, where the content of a file is what is stored with what is
cached laid over it.
**`FileBytes.tla`** has what a write does to bytes, for all three.

The modules named `MC...` give the constants of a run their values and symmetry
sets. The definitions marked as faulty variants are not used by any
specification: each is a plausible mistake in one operator, and `PROJECT.json`
records which property notices it.

### Correspondence with the code

`map` in `PROJECT.json` gives each definition's lines. The rules followed are:
the code between two points where another thread can act is one step; an early
return is a guard or the other arm of an `IF`; a member left alone is
`UNCHANGED`; logging, formatting and colours of text are left out unless a
property is about them (row lengths in `ScanTable`, byte counts in `Webserver`).

## The runs

| run | question | bounds |
|---|---|---|
| `WifiManager` | the manager never loses track of link or scan; a listing never sees a half-built table; AP_MODE has its access point; no scan starts in the tick that dials; handlers exclude each other; a lost network is redialled; an attempt ends connected or with the access point on; a stable link is recognised; scans recur unless one was refused | 1 client, 2 joins, 2 events of the driver's own |
| `WifiManagerAp` | *violated*: after a join from the access point it stays on | 1 join |
| `ScanTable` | the sort leaves the table after an empty scan and after no other; after any other it sorts; listings are strongest first, and their rows do not run together | scans of 0 to 3 networks, table of 3, 3 kinds of network, 4 buffer sizes |
| `Webserver` | bodies have the announced length when the HTTP tasks have the UART for themselves; a request for the UART is served in the end; the listen queue drains | 2 tasks, 7 kinds of request |
| `WebSystem` | UART lock and descriptors are accounted for on all paths; files are always served; a join follows the answer | 2 tasks, all 14 kinds, port 5000 server |
| `WebSystemLength` | *violated*: the port 5000 server takes bytes already announced | 2 tasks, UART requests |
| `Requests` | however cut, a request is returned whole, with its content found, and answered by the best service registered for the URL in its own head; a call ends | 4 records, 3 priorities, 3 paths; heads with 0 to 2 headers, bodies of 0 to 3 characters |
| `RequestReaderBody` | *violated*: a body with CR LF received with the headers moves the content | |
| `SpiffsStore` | files keep their bytes over writes, removals, renames, garbage collection and remounts; one version of each page and no lost page; counters and descriptors follow the flash; an open file reads back | 2 names, 2 descriptors, 4 blocks of 3 pages of 2 bytes, files of up to 4 bytes, 1 block erased |
| `SpiffsTruncate` | *violated*: truncating an existing empty file writes a stale buffer as its header | 5 blocks |
| `SpiffsReset` | after a reset at any flash write of a call, or of a check before it, the check comes to an end, meets no page it has no rule for, and leaves each file with its old or its new bytes and the pages to hold them; a check without a reset loses nothing (`ContentKept`, which says nothing after one: `files` is then what is stored) | 2 names, 1 descriptor, files of up to 3 bytes, 1 reset |
| `SpiffsCache` | no copy of a page goes stale; a cached write belongs to the descriptors of its file and to no other; a read always finds a page for its copy, if need be that of the oldest; a read returns what was written through any descriptor; the calls implement `Files` | 2 cache pages, 2 flash pages, 1 file, 2 descriptors, files of up to 3 bytes |

### Bounds, and why they are enough

* Two web tasks are what the firmware has (`WEB_CONNECTIONS`), and two
  descriptors are what it mounts SPIFFS with, so these are not reductions.
  The Wi-Fi manager is checked with one client: whatever two do to it, each holds
  the lock alone (`LockCorrect` is proved for any number), and the two joins let one
  come in while the timer and the event task have not yet digested the other.
* `MaxEvents = 2` lets a `DISCONNECTED` and a `GOT_IP` be queued behind one that
  is being handled: three link reports in flight. It bounds only what the driver
  adds of its own accord; the event of a join is never suppressed.
* The intervals are 1 and 2 ticks in place of minutes: unequal, and small enough
  for the counter to reach zero in every state. `TIMER_PERIOD = 1` gives a tick
  that is due and one that is not.
* `UART_QUEUE_SIZE = 2`, `CHUNK = 1`, `FileLength` 1 or 2: more than one chunk per
  body, a full buffer, a buffer emptied between two chunks. `BUFF_SIZE = 1` of
  the port 5000 server makes it take some of the bytes and leave others.
* `MaxBacklog` and `MaxResponses` are 1: one queued client, one response and a
  return to `ReceiveRequest` on the same connection. Nothing depends on earlier
  responses but what they forgot to release, and one is enough to forget.
* `WORD = 16` stands for 2^16; all that matters is that it exceeds the table.
* SPIFFS: the header and each index page hold one entry and a data page two bytes,
  so a file of four bytes has a header, an index page and two data pages, and
  writes of one and two bytes fill a page, half a page, and cross both borders.
  Two files of that size are eight pages on a flash of twelve, of which six are
  reserved for the collector: every run of calls soon needs it. `MaxErase = 2`
  allows one block to be erased: it is full of a mixture of live, dead and index
  pages by then, and the calls go on after it. The same properties were explored
  once with a second erase and files of three bytes (136578 states) and held.
* When few blocks are left `gc_check`, which counts pages, can let a call in that
  `obj_lu_find_free`, which counts blocks, then refuses a page half-way
  (`starved`). The model goes up to that call and not beyond, and apart from
  `TypeOK` and `StatsMatch` the properties do not speak of the state it leaves:
  there they are false, see below.
* `SPIFFS_gc` is called with 2 and `SPIFFS_gc_quick` with 0, the argument the
  library uses itself; `SPIFFS_TRUNC` is used on non-empty files in `SpiffsStore`
  and on empty ones too in `SpiffsTruncate`.
* A table of three entries makes the sort run two passes of different length. The buffers
  have no room for a row, just room for the short one, just room for one of each, and room
  for all.
* `SpiffsReset`: files of three bytes have a header, an index page and two data pages
  on a flash of twelve pages. `MaxErase = 2` lets a call collect garbage, so a reset
  hits the collector too. `PAGES_PER_SCAN = 6` makes the page check work in two
  ranges. A block is erased in one step, as with `log_block_size` equal to
  `phys_erase_block` in the firmware and in `spiffy`.
* `SpiffsCache`: with two cache pages a copy must make room for another copy and for a
  cached write. With one file only one page at a time is a cached write: that writes take
  all of them (`spiffs_cache.c:158`) is outside these bounds, and `ReadsFindAPage` says
  when it cannot happen. Two files of one byte on three pages were explored once (53720
  states up to symmetry) and the properties held. A page holds two bytes and writes are
  of one and of two, so a write fits, starts before, behind or runs over a cached one,
  or is too big to be cached. Two flash pages are one block; a third would only be
  another page like them.
* `Requests`: the buffer has 16 characters, and requests are from 6 to 18 of them.

### Fairness

Stated in `WifiManager`, `Webserver` and `Requests`, next to
the specification. A task that is ready runs (weak fairness). `Lock` and
`LockMutex` are strongly fair: FreeRTOS serves tasks blocked on a queue by
priority and then by arrival, and the contenders have equal priority or hold
the lock for bounded work. The timer runs. The driver finishes a scan it has
begun. A send returns, successfully or not, and an idle client closes its
connection in the end: the server has no timeout of its own, and without this
assumption `BacklogDrains` is false. Nothing is assumed about links coming up or
clients calling. Scans may be refused: after one refused scan `scanning` stays set and
no scan is ever started again, so `ScansRecur` says that scans recur for ever or that
one was refused (`ScanRefused`), and that a scan that was not refused frees `scanning`.

## What is proved

`WifiManagerProofs.tla` proves, for every value of the constants allowed by
`WifiAssumption` (any set of clients, any intervals, any bounds):

1. `TypeCorrect`: `TypeOK` is inductive by itself.
2. `LockCorrect`: `LockInv` (the queue is full exactly when a thread is between
   `Lock` and `Unlock`, and only one is) and `RoleInv` (the event task executes only event
   handlers, the timer task only the tick, clients only joins and listings). The
   proof sorts steps into five kinds (taking, giving, staying, entering,
   unconcerned), so that the handlers are looked at once.
3. `LockImplementsMutex`: hence the set of threads in a critical section behaves
   as `Mutex` says.
4. `ListingSafe`: from `TornInv`, that the table is torn only while the event
   task is at `rebuild`, and the mutex.
5. `ApModeCorrect`: `ApModeHasAp` is inductive.
6. `ScanApartFromConnect`: from `CounterInv`, that the counter is never zero
   while `DISCONNECTED`; every path into that state sets it to an interval.
7. `LinkCorrect`: `LinkTracked`. It is not inductive: a join that has left its
   network and not yet dialled must have left the link down or its report
   pending, which is the conjunct `LeftInv`. The lemmas before it say what
   appending to and taking from the event queue does to "the newest report".
8. `ScanCorrect`: `ScanTracked`. The strengthening, `ScanInv`, is that a report of
   the end of a scan is at one place only, in the queue or in the hand of the event
   task: with two of them the first would free `scanning` under the second.

`ScanTableProofs.tla` proves, for a table of any length, any networks, any strength
and any size of buffer, whether a scan found a network or not, that a sort leaves the table only
after an empty scan and returns only after another (`LoopsInBounds`), that a sort which returns
has left the networks it was given, sorted (`SortCorrect`), that a listing is of the strongest
ones (`ListingCorrect`), and that only its last row can have lost its newline (`ListedApart`).
The invariant `Inv` is that of a bubble sort: the table is a permutation of what was
reported (`Permuted`, an explicit bijection), the entries behind the outer index are in
their places (`SortedBehind`), and the inner index carries the weakest entry so far. `EmptyInv` is the
sort of nothing: `i` is `WORD - 1` and stays there, more than `j` can reach inside the table.

`RequestsProofs.tla` begins with the dispatch list and proves for any tokens, paths,
URLs and priorities that the list keeps its types, its order and its catch-all record
(`ListCorrect`), that the service created is the best one (`BestCreated`) and
that no URL is left without (`EveryUrlServed`). The inductive invariant is
`TypeOK /\ Ordered /\ CatchAll`; the lemmas `LeastIndex` (of `Indices.tla`) and
`PositionFound` establish that the `CHOOSE` of `Position` picks what the loop stops at.

It goes on to what `Requests` promises of a request, for any services, any buffer, any segments and any requests that are `WellFormed`: the head ends at its
first empty line, has method, blank, URL, blank in front and announces the content once.
`MCRequests` assumes it of the requests of the run, so that TLC checks that it can be met;
`RequestReaderBody` is what happens to others.

1. `ContentIsFound`: the content is where `content_data` points. `RequestsInv` says that
   what has been received is the front of the request (`Delivered`), how far the scan has come
   (`Progress`), that `last_line_start` is a start of a line with no end of one between it and
   `position` (`InHead`), and after the empty line that the content starts there (`InBody`).
2. `GivenUpOnlyWhenTooLong`: a request is only given up when it is as long as the buffer.
3. `BestServiceAnswers`: the answer is that of the best service for the URL in the
   request's own head. `ParseRequest` writes terminators into the buffer, so `Delivered`
   holds of the head only until the answer.

`WebSystemProofs.tla` proves what services own, for any finite set of tasks, any
requests and any sizes (`WebAssumption`), with the port 5000 server running:

1. `PortCorrect` and `FdsCorrect`: `PortAccounted` and `FdsAccounted`. A step of a
   task takes (a constructor), opens (that of an error page), drops (a destructor) or
   is quiet, as every step of the other server is (`StepKinds`). The inductive
   invariant `Inv` is `Types`, `FdInv` (`openFds` counts the owners) and `PortInv` (one
   task at most has the port, and the lock is full exactly then); both also say
   that a task owns nothing where it has no service, without which a
   constructor could take twice.
2. `SessionsImplementMutex`: sessions on the port implement `Mutex`.
3. `FilesAlwaysServed`: `FilesServed`, when `MaxFds` is at least the number of tasks
   (two, `user_main.c:36`, and two, `user_config.h:10`: there is none to spare). `FileInv` carries the open file from the constructor
   to the code; `RoomLeft` is the pigeonhole step.
4. `JoinsAfterAnswer`: `JoinAfterAnswer`, from `JoinInv`: a join owns nothing, is
   answered with 200 and has no body.
5. `AnnouncedIsDelivered`: `LengthDelivered`, of `WebSpec`, where the HTTP tasks are alone with
   the UART; with the port 5000 server it is false (`WebSystemLength`). `SumInv` is that what
   was sent, what is in hand and what is left add up to the length announced, and that
   what is left for the holder of the port waits in the receive buffer; `HolderInv` that who
   holds the port asked for it and serves no file.

`SpiffsCacheProofs.tla` is about the cache, for any number of cache pages, flash pages,
files, descriptors, any writes and any flags (`CacheAssumption`). It is built in three
layers. The first is about the pool: `CacheInv` (types, `older` is a strict order of the read pages
with `newest` at its end, one copy of a flash page at most) and `CurrentInv` (no copy is stale)
are kept by every operator of `spiffs_cache.c`. The second is about a call at work: `CallInv` adds `OwnedInv`,
that every cached write is known to an open descriptor of its object, that
a descriptor's cache page is a write of its own object, and that no object has two;
each helper of `spiffs_hydrogen.c` keeps it. The third, `StateInv`, is `CallInv` of the state between calls.

1. `StateCorrect`: `StateInv`, under the hypothesis `Exclusive` (nobody removes or
   empties a file that is open elsewhere): without it `OwnedInv` is false (below).
2. `CopiesAreCurrent` and `WritesAreOwned`: `Coherent` and `WritesOwned`.
3. `ReadsFindAPage`: `PageForReads`, under `RoomForReads`, that there are fewer
   descriptors, or fewer files, than cache pages. It is a pigeonhole argument on `OwnedInv`. The firmware
   has two descriptors (`user_main.c:36`) and memory for three cache pages
   (`user_main.c:37`, less the head of the cache); with as many written files as
   cache pages `spiffs_phys_rd` does use a null pointer.

Its second half is what the file calls promise, again under `Exclusive`. A file as it is seen (`SeenOf`) is its stored bytes with its cached write laid over them. The
proof follows the helpers of `spiffs_hydrogen.c` from the inside out: `hydro_write`
stores, `WriteBack` moves bytes without changing what is seen, `StoreSmall` and `StoreBig` change
it by exactly one `Overwrite`, at the offset `WriteOffset` picks, and a part of a call that
fails makes the file `lost` and leaves an error (`Effect`, `CallDone`). Two writes of the same bytes to
the same place are one (`OverwriteTwice`), which is why the double write of a big
one behind a cached one is harmless.

1. `OffsetsInFiles`: `FilesInv`, the strengthening: unless a call has failed on a file,
   its cached write begins inside the stored bytes (`CachedPlaced`) and every descriptor's
   offset is inside what is seen (`FdsPlaced`). Without the first, writing back would
   clamp the offset to the end of the file (`hydro_write`) and put the bytes elsewhere;
   without the second, a write at a descriptor's offset could make the first false.
2. `ReadsAreCurrent`: `ReadsSeeWrites`.
3. `PromisesKept`: `KeepsPromises`, the refinement of `Files`. The mapping is `SeenFiles` and
   `Positions`; each call has a lemma (`OpenMaps` to `RemoveMaps`) that it is a step of `Files`: the step the
   call is named for, `Fail` if the file was lost, or `Unseen` if a removal was refused. The steps of the flash (`FlashSeen`)
   change no cached write and stutter; a reset (`MountStep`) loses cached writes, which are of open files by
   `OwnedInv`.

`SpiffsForestProofs.tla` and `SpiffsStoreProofs.tla` are about SPIFFS below the cache, for any
flash, names, descriptors, sizes, writes and arguments of `SPIFFS_gc`, and any number of calls, of
erased blocks and of resets. They have two hypotheses, both of which a run or a hazard explains:
`~TruncateEmpty`, since `SPIFFS_TRUNC` on an empty file writes a stale buffer as its header
(`SpiffsTruncate` shows it), and `QuickPages \subseteq {0}`, the argument the library uses itself,
since with others `SPIFFS_gc_quick` erases blocks that are free already.

1. `StoreInvariant`: the inductive invariant `StoreInv`. It is that the counters match, and that
   unless a call has starved or a reset has come, the state is `Settled`, which has four parts:
   `Sound`, that the counters are what a recount gives; `Layout`, that the free entries of a block
   are behind the used ones and the free cursor is at the last used one, or at an end of its block;
   `Forest`, below; and `FdsOK`, that an open descriptor has the address and the size of its
   header, and the address of the index page its cursor is in.
2. `CountersMatch`: `StatsMatch`. It needs no `Forest` and holds after calls that starved too.
3. `OneVersionOfEachPage`: `Unique`, which is what makes the search of the code, from
   wherever the last one ended, find *the* page.
4. `NoOrphanPages`: `NoOrphans`.
5. `DescriptorsFresh`: `FdsFresh`.

A flash is a `Forest` if every live page has the shape of its kind (`Shaped`), no two have the same
id and span (`OneVersion`), every entry of an index page that is in use names the data page
of that object and span (`Refs`), every data page is named by one (`Owned`), every object has a
header (`Headed`), and the pages of each object are those that the size in its header says
(`Sized`). None of it holds at every moment of a call. A call that extends or shortens an object has
more or fewer pages than the header says, so `Forest` has a parameter, the object at work, which need not be
`Sized` and whose `Extent` the lemmas about the call count along instead. And an index
page is changed in `fs->work` first: in between, what is on the flash is no forest, but what
the flash would be with `fs->work` written back to it (`View`) is, and that is what
`Busy` says. Garbage collection may run in both kinds of moment and keeps what
it finds (`Kin`: no new object, no descriptor closed or with another size), which is where
descriptors can go wrong: each page it moves is told to all of them (`Told`).
Each loop of a call has its invariant (`Cutting`, `Modifying`, `Appended`) and a lemma for each
of its steps, and each call `Ends` settled or starved.

TLC checked `StoreInv` as an invariant, on the instances of `SpiffsStore` and
`SpiffsReset`, before it was proved.

The loops of the code are `Fold`s in the model, and a `Fold` is a recursive function. For
each of them a lemma (`DataLoopSteps` to `AppendLoopSteps`) turns the function into the
states after 0, 1, 2, ... steps; what every step keeps, all of them have kept: that is
`Steps`, about the set of the numbers of those steps, and proved from `LeastIndex`.

Only model-checked:

* all liveness (TLAPS has no rules for `ENABLED` here);
* `ContentKept` and `ReadsBack` of `SpiffsStore`: that the bytes behind the index are the promised
  ones. The invariant above says which page is which and not what is in a data page; with the
  bytes, each lemma about a step of a write would have to say which of them are written so far;
* `CheckEnds` and `LeftIsRight` of `SpiffsReset`: they are about the flash in the middle of
  a call, where the invariant does not hold, and about the passes of `SPIFFS_check` over it.

## Disagreements with the code's own words

1. `WifiManagerAp`: `OnConnect` switches the access point off only in `AP_MODE`
   (`wifi_manager.cpp:116`), but `JoinNetwork` has already set `CONNECTING`, so a
   join from the set-up page leaves it on until the next restart.
2. `WebSystemLength`: the port 5000 server reads the UART without its lock
   (`server.cpp:73`), so a response can be shorter than its `Content-Length`.
3. `RequestReaderBody`: the scan for the empty line continues over content that
   arrived in the same segment (`webserver.cpp:151`).
4. `SpiffsTruncate`: with `SPIFFS_TRUNC` on a file that exists and is empty,
   `spiffs_object_truncate` runs no iteration of its loop, so `fs->work` still
   holds what an earlier call left in it; this becomes the file's new header
   (`spiffs_nucleus.c:1578`). With a header of another file there, the name
   disappears and the other one exists twice. When `gc_check` has cleared the
   buffer in between, the call fails with `SPIFFS_ERR_IS_FREE` instead.

Seen while modelling, without a run of their own:

* A scan that finds no network: `count - 1` is 65535 in the sort
  (`wifi_manager.cpp:148`), and the sort reads and swaps records behind the table
  (`wifi_manager.cpp:152`). `TableLeftIffEmpty` says so: no such sort returns, and
  no other leaves the table. With a table of three entries `pc` is `"undefined"` in the
  sixth state.
* A request head with fewer than two blanks gets no answer at all: `ServerTask` reads
  the next request on the connection (`webserver.cpp:67`).
* A row of the network list as long as the room left passes
  `length <= size` (`wifi_manager.cpp:77`), though `snprintf` has replaced its
  newline by the terminator. No row follows one that lost it (`RowsApart`), so
  the page that shows the list still splits it into the same rows, the last of which ends
  in NUL.
* After a call has starved, a remount restarts the free cursor at the first block
  and a later `SPIFFS_remove` may delete the data pages of a file and then find no
  page for its header: the file is left half removed, marked `IXDELE`.
* A modify whose last `page_move` fails sets the descriptor's cursor to an
  uninitialised variable (`spiffs_nucleus.c:1315`).
* `SPIFFS_gc_quick` with an argument of at least a block's pages erases free
  blocks and counts them as free again.
* A reset between the new version of a header or index page and the deletion of
  the old one leaves two that name the same data pages. `SPIFFS_check` takes
  them for two files with one id (the comment at `spiffs_check.c:667`) and removes
  both: a file that was there before and after the interrupted call can be gone. What
  `LeftIsRight` says is only that what is left is right.
* `spiffs_check.c:10` promises to delete index pages without a header; the function
  returns early for every index page that is final (`spiffs_check.c:882`), so only
  unfinished ones are deleted.
* A reset inside a truncation can leave a file whose header still has its size but
  whose data pages are gone; the check does not notice (`Emptied`).
* A reset inside the check itself, in `spiffs_rewrite_index`, leaves a page that is
  written but whose entry is still free. The next check may be given that page as a free one
  (two resets: `MaxResets = 2` ends in `FOREIGN`).
* `SPIFFS_check` returns the result of its last pass only (`spiffs_hydrogen.c:822`): a
  repair that ran out of pages is reported as OK.
* `SPIFFS_remove` by name does not release the cached write of the object
  (`spiffs_hydrogen.c:518`), and a descriptor closed by an event keeps its
  `cache_page`. With `Exclusive = FALSE` `WritesOwned` fails after open, a small write
  and the removal: the next file that gets the object id gets the bytes. The same
  happens with `SPIFFS_fremove` through a descriptor that did not write, and with
  `SPIFFS_TRUNC` by another one, after which the old cached bytes come back. The
  run has `Exclusive = TRUE`: nobody removes or empties a file that is open elsewhere.
* A big write behind a cached one is stored twice (`spiffs_hydrogen.c:433` and 440), at
  the same offset. `KeepsPromises` holds, so it costs only flash.
* `SPIFFS_close` ignores the result of the flush (`spiffs_hydrogen.c:663`), so
  `spiffy`, which looks at the result of the write alone (`main.c:85`), does not
  notice when the last bytes of a file did not fit the image.

## What is not modelled, and why

* `GetMemory` (`webserver.cpp:47`), where both HTTP tasks advance one pointer
  without a lock; `Print` and the text of headers; GPIO levels.
* The destructors of the long-lived objects: the program never ends.
* Of SPIFFS: directory listing, format, stat and the opening flags `EXCL`, `RDONLY`
  and `WRONLY`. In `SpiffsStore` the cursor `fs->cursor_*`, which only chooses
  among several matches, is left out on the strength of `Unique`; `SpiffsCheck`,
  where there may be several, has it.
* Of the check: repairs of a final page that is entered under another id or as the
  wrong kind, and of references to no page. No reset leaves such a page (`CheckEnds`).
  Calls after a check, and a reset that leaves some bits of one write programmed.
* Of the cache: a file that is written through cached and `SPIFFS_DIRECT` descriptors
  at once (a later flush then overwrites the newer direct write), the cache statistics,
  and which flash pages a call reads.
* The cache and the pages below it are two modules and not composed: `SpiffsCache`
  needs of the object layer that a write stores its bytes or fails, which is
  `ContentKept` and `ReadsBack` of `SpiffsStore`.
* The image tool and the web pages are programs outside the firmware; the former's
  use of SPIFFS is among the behaviours of `SpiffsStore` and `SpiffsCache`. Start-up is
  straight-line code whose constants became the parameters above.
* Writing to the UART: serialised by the driver, with no effect on the state.

## Plan

Done: `Mutex`, `WifiManager` and its proofs, `ScanTable` and its proofs, `SerialPort`,
`Webserver`, `Server`, `WebSystem` and its proofs, `ServiceFactory`, `RequestReader`, `Requests`
and their proofs, `SpiffsPages`, `SpiffsGc`, `SpiffsObjects`, `SpiffsStore` and their proofs (two
modules), `SpiffsCheck`, `SpiffsRecovery`, `Files`, `SpiffsCache` and its proofs.

Next, in this order:

1. `BufferPool` (`GetMemory`): the two tasks at start-up.
2. `Firmware`: `WifiManager` composed with the servers, so that `connSafe` and
   the effect of a join on open connections are the manager's; `Gpio` with it.
