----------------------------- MODULE SpiffsCache -----------------------------
\* The cache of SPIFFS (spiffs_cache.c) and the file calls that use it
\* (spiffs_hydrogen.c). One pool of pages holds copies of flash pages that were read
\* and writes that have not reached their file yet. The objects below are taken for
\* what SpiffsStore shows they are: bytes by object id, of which every descriptor
\* knows the size. Descriptors opened with SPIFFS_DIRECT are those of SpiffsStore.
EXTENDS FileBytes, FiniteSetsExt

CONSTANTS
    cpage_count,       \* pages of the cache
    LOG_PAGE_SIZE,     \* bytes in a page
    Pages,             \* pages of the flash
    PAGES_PER_BLOCK,
    Fds,               \* 1 .. fd_count
    Ids,               \* object ids
    OpenFlags,         \* the flags files are opened with
    Exclusive,         \* a file is removed and truncated while nothing else has it open
    Writes,            \* the byte sequences written
    Lengths,           \* the lengths read and the offsets sought
    MaxSize,           \* bound: bytes in a file, and offsets
    Lost               \* what is promised of a file after a failure

ASSUME CacheAssumption ==
    /\ {cpage_count, LOG_PAGE_SIZE, PAGES_PER_BLOCK, MaxSize} \subseteq Nat
    /\ cpage_count > 0 /\ PAGES_PER_BLOCK > 0
    /\ Pages \subseteq Nat
    /\ IsFiniteSet(Fds) /\ Fds = 1 .. Cardinality(Fds)
    /\ Writes \subseteq Seq(Nat) /\ Lengths \subseteq Nat
    /\ Lost \notin Seq(Nat)
    /\ Exclusive \in BOOLEAN

VARIABLES
    cache,             \* the pages of the cache and the order of their last accesses
    content,           \* the bytes of each object
    fds,               \* fs->fd_space
    err_code,          \* fs->err_code after SPIFFS_clearerr and a call, of its writes
    lost,              \* objects a call has failed on
    stopped            \* a page address that is null was used

vars == <<cache, content, fds, err_code, lost, stopped>>

NoPage == 0

\* ------------------------------- pages of the cache ------------------------------

Free == [type |-> "free"]

\* spiffs_cache_init.
cache_init == [cpages |-> [i \in 1 .. cpage_count |-> Free], older |-> {}, newest |-> NoPage]

Busy(c) == {i \in DOMAIN c.cpages : c.cpages[i].type # "free"}
Full(c) == Busy(c) = DOMAIN c.cpages
ReadPages(c)  == {i \in DOMAIN c.cpages : c.cpages[i].type = "RD"}
WritePages(c) == {i \in DOMAIN c.cpages : c.cpages[i].type = "WR"}

\* cache->last_access counts up, and only the order of the accesses to the read pages
\* matters: "older" has the pairs of them, the older access first, and "newest" is the
\* page whose access is of this very count, if there is one.
Touch(c, i) ==
    [c EXCEPT !.older = {p \in @ : p[1] # i} \union ((ReadPages(c) \ {i}) \X {i}), !.newest = i]

\* spiffs_cache_page_get: the copies of a flash page.
cache_page_get(c, pix) == {i \in ReadPages(c) : c.cpages[i].pix = pix}

\* spiffs_cache_page_free, of each of "pages". No page is ever DIRTY, so nothing is
\* written back.
Freed(c, pages) ==
    [cpages |-> [i \in DOMAIN c.cpages |-> IF i \in pages THEN Free ELSE c.cpages[i]],
     older  |-> {p \in c.older : p[1] \notin pages /\ p[2] \notin pages},
     newest |-> IF c.newest \in pages THEN NoPage ELSE c.newest]
cache_page_free(c, i) == Freed(c, {i})

\* The read pages that are older than the last access, and no other is older.
Oldest(c) == {i \in ReadPages(c) \ {c.newest} : \A j \in ReadPages(c) : <<j, i>> \notin c.older}

\* Faulty variant (no specification uses it): it is the other way round with the free page.
RemoveIfRoom(c) == IF ~Full(c) THEN Freed(c, Oldest(c)) ELSE c

\* spiffs_cache_page_remove_oldest, as its callers use it: read pages only.
cache_page_remove_oldest(c) == IF Full(c) THEN Freed(c, Oldest(c)) ELSE c

\* spiffs_cache_page_allocate.
cache_page_allocate(c) == Min(DOMAIN c.cpages \ Busy(c))

\* spiffs_cache_page_get_by_fd: the cached write of an object.
cache_page_get_by_id(c, id) ==
    LET own == {i \in WritePages(c) : c.cpages[i].obj_id = id}
    IN IF own = {} THEN NoPage ELSE Min(own)

\* --------------------------- reads and writes of the flash -----------------------

\* spiffs_phys_rd. Reads of the second pass over the lookup pages (LU2) only take
\* what is cached. With every page a cached write there is none for the copy.
phys_rd(pix, lu2) ==
    LET found == cache_page_get(cache, pix)
        room == cache_page_remove_oldest([cache EXCEPT !.newest = NoPage])
        i == cache_page_allocate(room)
        copied == [room EXCEPT !.cpages[i] = [type |-> "RD", pix |-> pix, current |-> TRUE]]
    IN /\ ~stopped
       /\ cache' = CASE found # {} -> Touch(cache, Min(found))
                     [] found = {} /\ lu2 -> [cache EXCEPT !.newest = NoPage]
                     [] OTHER -> IF Full(room) THEN room ELSE Touch(copied, i)
       /\ stopped' = (found = {} /\ ~lu2 /\ Full(room))
       /\ UNCHANGED <<content, fds, err_code, lost>>

\* The flash changes under the copies of pages "pixs".
Outdate(c, pixs) ==
    [c EXCEPT !.cpages = [i \in DOMAIN @ |-> IF @[i].type = "RD" /\ @[i].pix \in pixs
                                             THEN [@[i] EXCEPT !.current = FALSE] ELSE @[i]]]

\* The copy of a page that is written: updated, or dropped when the page is deleted.
Copy(c, pix, delete) ==
    LET i == Min(cache_page_get(c, pix))
    IN IF cache_page_get(c, pix) = {} THEN c
       ELSE IF delete THEN cache_page_free(c, i)
       ELSE Touch([c EXCEPT !.cpages[i].current = TRUE], i)

\* spiffs_phys_wr: "delete" for SPIFFS_OP_C_DELE on a page that is no lookup page.
phys_wr(pix, delete) ==
    /\ ~stopped
    /\ cache' = Copy(Outdate(cache, {pix}), pix, delete)
    /\ UNCHANGED <<content, fds, err_code, lost, stopped>>

\* Faulty variant (no specification uses it): the copies outlive the block.
KeepBlock(c, b) == Outdate(c, {p \in Pages : p \div PAGES_PER_BLOCK = b})

\* spiffs_gc_erase_block erases past the cache and then drops what it has of the block.
EraseBlock(c, b) ==
    Freed(c, UNION {cache_page_get(c, p) : p \in {q \in Pages : q \div PAGES_PER_BLOCK = b}})

gc_erase_block(b) ==
    /\ ~stopped
    /\ cache' = EraseBlock(cache, b)
    /\ UNCHANGED <<content, fds, err_code, lost, stopped>>

\* ------------------------------- calls on descriptors -----------------------------

\* Closing sets file_nbr to 0 and no more: the cache page stays.
Closed(page) == [open |-> FALSE, obj_id |-> 0, fdoffset |-> 0, flags |-> {}, cache_page |-> page]
NoFds == [f \in Fds |-> Closed(NoPage)]
Close(d) == Closed(d.cache_page)

\* The record a call works on. Of its writes to the objects below the first "good"
\* succeed and the next one fails. What a failing one may have stored is left out: the
\* properties expect nothing of a file after that ("lost").
Current(good) ==
    [c |-> cache, content |-> content, fds |-> fds, err_code |-> "OK", lost |-> lost,
     good |-> good, failed |-> FALSE, got |-> <<>>]

Size(s, f) == Len(s.content[s.fds[f].obj_id])

\* spiffs_hydro_write: an offset behind the end of a file that has bytes is its end.
hydro_write(s, f, offset, bytes) ==
    LET id == s.fds[f].obj_id
        old == s.content[id]
        at == IF offset > Len(old) /\ old # <<>> THEN Len(old) ELSE offset
    IN IF s.good > 0 THEN [s EXCEPT !.content[id] = Overwrite(old, at, bytes), !.good = @ - 1]
       ELSE [s EXCEPT !.failed = TRUE, !.lost = @ \union {id}]

\* A call that fails returns the error and leaves it in err_code.
Report(s) == IF s.failed THEN [s EXCEPT !.err_code = "FULL"] ELSE s

\* Faulty variant (no specification uses it): the page is released, the descriptors
\* that share it are not told.
ReleaseOwn(s, i) == [s EXCEPT !.c = cache_page_free(@, i)]

\* spiffs_cache_fd_release.
cache_fd_release(s, i) ==
    [s EXCEPT !.c = cache_page_free(@, i),
              !.fds = [f \in Fds |-> IF @[f].open /\ @[f].cache_page = i
                                     THEN [@[f] EXCEPT !.cache_page = NoPage] ELSE @[f]]]

\* The cached write of the descriptor's object goes to the file and out of the cache.
WriteBack(s, f) ==
    LET i == s.fds[f].cache_page
        p == s.c.cpages[i]
    IN cache_fd_release(hydro_write(s, f, p.offset, p.data), i)

\* Whatever descriptor has written, the object's cached write is found.
FindCached(s, f) ==
    IF s.fds[f].cache_page # NoPage THEN s
    ELSE [s EXCEPT !.fds[f].cache_page = cache_page_get_by_id(s.c, s.fds[f].obj_id)]

\* Faulty variant (no specification uses it): only the descriptor that wrote flushes.
FlushOwn(s, f) ==
    IF s.fds[f].cache_page # NoPage THEN Report(WriteBack(s, f)) ELSE s

\* spiffs_fflush_cache: read, lseek and close do not look at its result.
fflush_cache(s, f) ==
    LET t == FindCached(s, f)
    IN IF t.fds[f].cache_page # NoPage THEN Report(WriteBack(t, f)) ELSE t

\* spiffs_cache_page_allocate_by_fd: NoPage when there is no room.
cache_page_allocate_by_fd(s, f, offset) ==
    LET room == cache_page_remove_oldest(s.c)
        i == cache_page_allocate(room)
    IN IF Full(room) THEN [s EXCEPT !.c = room, !.fds[f].cache_page = NoPage]
       ELSE [s EXCEPT !.fds[f].cache_page = i,
                      !.c = [room EXCEPT !.cpages[i] = [type |-> "WR", obj_id |-> s.fds[f].obj_id,
                                                        offset |-> offset, data |-> <<>>]]]

CachedEnd(s, f) ==
    LET p == s.c.cpages[s.fds[f].cache_page]
    IN IF s.fds[f].cache_page = NoPage THEN 0 ELSE p.offset + Len(p.data)

\* Faulty variant (no specification uses it): an appending write forgets the cached one.
OffsetInFile(s, f) == IF "APPEND" \in s.fds[f].flags THEN Size(s, f) ELSE s.fds[f].fdoffset

\* Where a write goes: an appending one behind the bytes still in the cache.
WriteOffset(s, f) ==
    IF "APPEND" \in s.fds[f].flags THEN Longer(Size(s, f), CachedEnd(s, f)) ELSE s.fds[f].fdoffset

\* The cached write can take these bytes.
Fits(s, f, offset, bytes) ==
    LET p == s.c.cpages[s.fds[f].cache_page]
    IN /\ offset >= p.offset /\ offset <= CachedEnd(s, f)
       /\ offset + Len(bytes) <= p.offset + LOG_PAGE_SIZE

\* A small write is cached if there is a page for it.
StoreSmall(s, f, offset, bytes) ==
    LET cached == s.fds[f].cache_page # NoPage
        fits == cached /\ Fits(s, f, offset, bytes)
        freed == IF cached /\ ~fits THEN WriteBack(s, f) ELSE s
        t == IF fits \/ freed.failed THEN freed ELSE cache_page_allocate_by_fd(freed, f, offset)
        i == t.fds[f].cache_page
    IN IF t.failed THEN t
       ELSE IF i = NoPage THEN hydro_write(t, f, offset, bytes)
       ELSE [t EXCEPT !.c.cpages[i].data = Overwrite(@, offset - t.c.cpages[i].offset, bytes)]

\* A big one goes to the file; behind a cached write it is written twice.
StoreBig(s, f, offset, bytes) ==
    LET t == WriteBack(s, f)
        u == IF t.failed THEN t ELSE hydro_write(t, f, offset, bytes)
    IN IF s.fds[f].cache_page = NoPage THEN hydro_write(s, f, offset, bytes)
       ELSE IF u.failed THEN u ELSE hydro_write(u, f, offset, bytes)

\* ------------------------------------- calls --------------------------------------

Keep(s) ==
    /\ cache' = s.c /\ content' = s.content /\ fds' = s.fds
    /\ err_code' = s.err_code /\ lost' = s.lost
    /\ UNCHANGED stopped

\* A call runs with all its writes to the objects good, or with one that fails. Calls
\* that fail before they change anything (no descriptor, no such file) are left out.
Call(Run(_)) ==
    /\ ~stopped
    /\ \/ Keep(Run(Current(3)))
       \/ \E good \in 0 .. 2 : \E s \in {Run(Current(good))} : s.failed /\ Keep(s)

OpenOn(id) == {f \in Fds : fds[f].open /\ fds[f].obj_id = id}
FreeFds == {f \in Fds : ~fds[f].open}

\* The descriptor keeps whatever cache page it had when it was closed.
Opened(s, f, id, flags, empty) ==
    LET t == [s EXCEPT !.fds[f] = [open |-> TRUE, obj_id |-> id, fdoffset |-> 0,
                                   flags |-> flags, cache_page |-> s.fds[f].cache_page]]
    IN IF empty THEN [t EXCEPT !.content = [i \in DOMAIN s.content \union {id} |->
                                              IF i = id THEN <<>> ELSE s.content[i]],
                               !.lost = @ \ {id}]
       ELSE t

\* SPIFFS_open of a file that is there, and with SPIFFS_CREAT of one that is not.
SPIFFS_open(id, flags, trunc) ==
    LET f == Min(FreeFds)
        there == id \in DOMAIN content
    IN /\ FreeFds # {}
       /\ trunc => there
       /\ trunc /\ Exclusive => OpenOn(id) = {}
       /\ Call(LAMBDA s : Opened(s, f, id, flags, trunc \/ ~there))

Written(s, f, bytes) ==
    LET found == FindCached(s, f)
        offset == WriteOffset(found, f)
        t == IF Len(bytes) < LOG_PAGE_SIZE THEN StoreSmall(found, f, offset, bytes)
             ELSE StoreBig(found, f, offset, bytes)
    IN IF t.failed THEN Report(t) ELSE [t EXCEPT !.fds[f].fdoffset = @ + Len(bytes)]

SPIFFS_write(f, bytes) ==
    /\ fds[f].open
    /\ WriteOffset(FindCached(Current(3), f), f) + Len(bytes) <= MaxSize
    /\ fds[f].fdoffset + Len(bytes) <= MaxSize
    /\ Call(LAMBDA s : Written(s, f, bytes))

\* The bytes that are there, from the file.
ReadStored(s, f, len) ==
    LET d == s.fds[f]
        bytes == SubSeq(s.content[d.obj_id], d.fdoffset + 1, Min({d.fdoffset + len, Size(s, f)}))
    IN [s EXCEPT !.got = bytes, !.fds[f].fdoffset = @ + Len(bytes)]

ReadFlushed(s, f, len) == ReadStored(fflush_cache(s, f), f, len)

SPIFFS_read(f, len) == fds[f].open /\ len > 0 /\ Call(LAMBDA s : ReadFlushed(s, f, len))

\* The size of an empty file is the mark of no size, below any offset.
Sought(s, f, offset) ==
    LET t == fflush_cache(s, f)
    IN IF offset <= Size(t, f) /\ Size(t, f) > 0 THEN [t EXCEPT !.fds[f].fdoffset = offset] ELSE t

SPIFFS_lseek(f, offset) == fds[f].open /\ Call(LAMBDA s : Sought(s, f, offset))

\* SPIFFS_fflush, and SPIFFS_fstat, which then looks at the size.
SPIFFS_fflush(f) == fds[f].open /\ Call(LAMBDA s : fflush_cache(s, f))

Returned(s, f) == [s EXCEPT !.fds[f] = Close(@)]

SPIFFS_close(f) == fds[f].open /\ Call(LAMBDA s : Returned(fflush_cache(s, f), f))

\* spiffs_object_truncate to nothing: every descriptor of the object is closed.
Removed(s, id) ==
    [s EXCEPT !.content = [i \in DOMAIN @ \ {id} |-> @[i]], !.lost = @ \ {id},
              !.fds = [f \in Fds |-> IF @[f].open /\ @[f].obj_id = id THEN Close(@[f]) ELSE @[f]]]

\* SPIFFS_remove knows the name only: what is cached for the object stays cached.
SPIFFS_remove(id) ==
    /\ FreeFds # {} /\ id \in DOMAIN content
    /\ Exclusive => OpenOn(id) = {}
    /\ Call(LAMBDA s : Removed(s, id))

\* The cached write that the descriptor itself knows is dropped, and then the file may
\* fail to be removed.
RemovedBy(s, f) ==
    LET i == s.fds[f].cache_page
        id == s.fds[f].obj_id
        t == IF i = NoPage THEN s ELSE cache_fd_release(s, i)
    IN IF s.good > 0 THEN Removed(t, id)
       ELSE Report([t EXCEPT !.failed = TRUE,
                             !.lost = IF i = NoPage THEN @ ELSE @ \union {id}])

SPIFFS_fremove(f) ==
    /\ fds[f].open
    /\ Exclusive => OpenOn(fds[f].obj_id) = {f}
    /\ Call(LAMBDA s : RemovedBy(s, f))

\* A reset between two calls, and SPIFFS_mount: the cache and the descriptors are blank.
SPIFFS_mount ==
    LET unwritten == {cache.cpages[i].obj_id : i \in WritePages(cache)}
    IN /\ ~stopped
       /\ Keep([Current(3) EXCEPT !.c = cache_init, !.fds = NoFds, !.lost = @ \union unwritten])

Init ==
    /\ cache = cache_init /\ fds = NoFds
    /\ content = <<>> /\ err_code = "OK" /\ lost = {} /\ stopped = FALSE

Next ==
    \/ \E id \in Ids, flags \in OpenFlags, trunc \in BOOLEAN : SPIFFS_open(id, flags, trunc)
    \/ \E f \in Fds, bytes \in Writes : SPIFFS_write(f, bytes)
    \/ \E f \in Fds, n \in Lengths : SPIFFS_read(f, n) \/ SPIFFS_lseek(f, n)
    \/ \E f \in Fds : SPIFFS_fflush(f) \/ SPIFFS_close(f) \/ SPIFFS_fremove(f)
    \/ \E id \in Ids : SPIFFS_remove(id)
    \/ SPIFFS_mount
    \/ \E p \in Pages : (\E lu2 \in BOOLEAN : phys_rd(p, lu2)) \/ (\E d \in BOOLEAN : phys_wr(p, d))
    \/ \E b \in {p \div PAGES_PER_BLOCK : p \in Pages} : gc_erase_block(b)

Spec == Init /\ [][Next]_vars

\* ----------------------------------- properties -----------------------------------

\* The copies of flash pages are what the flash holds, and no page has two copies:
\* deleting a page, writing it and erasing its block never leave an old copy behind.
Coherent ==
    \A i \in DOMAIN cache.cpages : cache.cpages[i].type = "RD" =>
        /\ cache.cpages[i].current
        /\ cache_page_get(cache, cache.cpages[i].pix) = {i}

\* A file that nobody has open has nothing in the cache, no object has two cached
\* writes, and the cache page a descriptor points to is its object's: nothing can
\* reach another file, or one created later under the same object id.
WritesOwned ==
    /\ \A i \in WritePages(cache) :
          /\ OpenOn(cache.cpages[i].obj_id) # {}
          /\ cache_page_get_by_id(cache, cache.cpages[i].obj_id) = i
          /\ \A j \in WritePages(cache) : cache.cpages[j].obj_id = cache.cpages[i].obj_id => j = i
    /\ \A f \in Fds : fds[f].cache_page # NoPage =>
          fds[f].open /\ cache_page_get_by_id(cache, fds[f].obj_id) = fds[f].cache_page

\* As long as fewer files are written than the cache has pages, spiffs_phys_rd finds a
\* page for its copy: it uses the page's address without looking whether there is one.
PageForReads == ~stopped

Seen(id) ==
    LET i == cache_page_get_by_id(cache, id)
        p == cache.cpages[i]
    IN IF id \in lost THEN Lost
       ELSE IF i = NoPage THEN content[id]
       ELSE Overwrite(content[id], p.offset, p.data)

\* A read through any descriptor of a file returns the bytes that were written through
\* all of them, cached or not, and the size it goes by is the size with them.
ReadsSeeWrites ==
    \A f \in Fds, len \in Lengths : fds[f].open /\ fds[f].obj_id \notin lost =>
        LET from == fds[f].fdoffset
            bytes == Seen(fds[f].obj_id)
        IN ReadFlushed(Current(1), f, len).got = SubSeq(bytes, from + 1, Min({from + len, Len(bytes)}))

\* The files and the open descriptors as module Files has them.
SeenFiles == [id \in DOMAIN content |-> Seen(id)]
Positions ==
    [f \in Fds \ FreeFds |-> [id |-> fds[f].obj_id, offset |-> fds[f].fdoffset,
                              append |-> "APPEND" \in fds[f].flags]]

F == INSTANCE Files WITH file <- SeenFiles, pos <- Positions, errno <- err_code

\* The file calls with the cache keep the promises of module Files: every descriptor
\* sees every write at once, and a write is only lost where an error is left.
KeepsPromises == F!Spec
==============================================================================
