----------------------------- MODULE SpiffsStore -----------------------------
\* The file calls of SPIFFS (spiffs_hydrogen.c) on the flash, for descriptors
\* whose writes go straight to it (SPIFFS_DIRECT). A call runs to its end before
\* the next one starts: SPIFFS_LOCK is empty and the library has one caller.
\*
\* "files" is what the calls have promised: a call that returns OK does to it what
\* its name says. The properties relate it to what the pages hold. A reset may come
\* after any flash write of a call; "possible" then says what the files may be until
\* SPIFFS_check has run (SpiffsRecovery).
EXTENDS SpiffsObjects
LOCAL INSTANCE FileBytes

CONSTANTS
    MaxSize,           \* bound: bytes in a file
    MaxErase,          \* bound: max_erase_count, so the number of blocks erased
    Writes,            \* the byte sequences written
    GcSizes,           \* lengths SPIFFS_gc is called with
    QuickPages,        \* max_free_pages SPIFFS_gc_quick is called with
    TruncateEmpty,     \* whether SPIFFS_TRUNC is used on a file without bytes
    MaxResets          \* bound: resets inside a call

\* A handle is the index of a descriptor, from 1: 0 is none. No file has the size
\* that marks an unwritten one.
ASSUME BoundsAssumption ==
    /\ IsFiniteSet(Fds) /\ Fds = 1 .. Cardinality(Fds)
    /\ {MaxSize, MaxErase} \subseteq Nat /\ MaxSize < UNDEFINED_LEN
    /\ Writes \subseteq Seq(Nat)
    /\ GcSizes \subseteq Nat /\ QuickPages \subseteq Nat /\ TruncateEmpty \in BOOLEAN
    /\ MaxResets \in Nat

VARIABLES
    page, erase,       \* the flash: its pages, and the erase counter of each block
    fs,                \* the counters of the spiffs struct
    fds,               \* fs->fd_space
    work,              \* the page header fs->work was left with
    starved,           \* a call has run out of pages after gc_check let it in
    files,             \* the content of each file, by its name
    resets,            \* resets so far
    possible,          \* after a reset: what the files may be, until they are checked
    checked            \* how the last check ended

vars == <<page, erase, fs, fds, work, starved, files, resets, possible, checked>>

Closed == [open |-> FALSE, id |-> DELETED, objix_hdr_pix |-> 0, size |-> 0,
           cursor_objix_pix |-> NoPage, cursor_objix_spix |-> 0]

Counters(s) ==
    [max_erase_count |-> s.max_erase_count, free_blocks |-> s.free_blocks,
     allocated |-> s.allocated, deleted |-> s.deleted, free_cursor |-> s.free_cursor]

\* The record a call works on.
Current ==
    [page |-> page, erase |-> erase, fds |-> fds, work |-> work,
     max_erase_count |-> fs.max_erase_count, free_blocks |-> fs.free_blocks,
     allocated |-> fs.allocated, deleted |-> fs.deleted, free_cursor |-> fs.free_cursor,
     tearing |-> resets < MaxResets, torn |-> {}, cursor |-> 0, cleaning |-> FALSE, stop |-> FALSE, empty |-> FALSE, starved |-> FALSE,
     res |-> "OK", pix |-> 0]

\* spiffs_object_find_object_index_header_by_name.
Headers(pg, n) ==
    {p \in Pages : /\ pg[p].name = n /\ Live(pg, p) /\ IsIx(pg[p].lu) /\ pg[p].span = 0
                   /\ "FINAL" \in pg[p].flags /\ {"DELET", "IXDELE"} \intersect pg[p].flags = {}}

\* ----------------------------- what the pages hold -------------------------------

\* The page the index of object "id" names for data span "span".
Ref(pg, id, span) ==
    LET ix == Matches(pg, id + IX_FLAG, IxSpan(span))
    IN IF ix = {} THEN FREE ELSE pg[Min(ix)].ix[IxEntry(span)]

\* The bytes behind header p; Garbage where the index leads to no page of the file.
Content(pg, p) ==
    LET id == pg[p].lu % IX_FLAG
        Byte(i) == LET q == Ref(pg, id, i \div DATA_PAGE_SIZE)
                   IN IF q \in Pages /\ pg[q].lu = id THEN pg[q].data[i % DATA_PAGE_SIZE] ELSE Garbage
    IN [i \in 1 .. Length(pg[p].size) |-> Byte(i - 1)]

Stored(pg) == [n \in {m \in Names : Headers(pg, m) # {}} |-> Content(pg, Min(Headers(pg, n)))]

\* ------------------------------------ calls --------------------------------------

\* SPIFFS_mount forgets everything that is not on the flash.
Mounted(s) ==
    obj_lu_scan([s EXCEPT !.free_cursor = 0, !.work = Erased, !.fds = [f \in Fds |-> Closed]])

\* What a call leaves in memory and on the flash.
Keep(s) ==
    /\ s.max_erase_count <= MaxErase
    /\ page' = s.page
    /\ erase' = s.erase
    /\ fs' = Counters(s)
    /\ fds' = [f \in Fds |-> IF s.fds[f].open THEN s.fds[f] ELSE Closed]
    /\ work' = IF TruncateEmpty
               THEN [Erased EXCEPT !.id = s.work.id, !.span = s.work.span,
                                   !.flags = s.work.flags, !.name = s.work.name]
               ELSE Erased
    /\ starved' = s.starved

\* A reset after any of the writes of a call that was to make "s", and SPIFFS_mount.
ResetIn(s, outcomes) == \E flash \in s.torn :
    /\ Keep(Mounted([Current EXCEPT !.page = flash.page, !.erase = flash.erase]))
    /\ resets' = resets + 1
    /\ possible' = outcomes
    /\ UNCHANGED <<files, checked>>

Unchecked == possible # {}

\* A call leaves "result". If it returned OK the files are "expected"; if not they
\* are what the pages show when the call may stop there ("partial"), else unchanged.
\* The model ends with the first call that starves, and no call follows a reset.
CommitPart(result, expected, partial) ==
    /\ ~starved /\ resets = 0
    /\ \E s \in {result} :
          \/ /\ Keep(s)
             /\ files' = CASE s.res = "OK" -> expected
                           [] s.res # "OK" /\ Stored(s.page) \in partial -> Stored(s.page)
                           [] OTHER -> files
             /\ UNCHANGED <<resets, possible, checked>>
          \/ ResetIn(s, {files, expected} \union partial)

Commit(result, expected) == CommitPart(result, expected, {files})

Put(n, content) == [m \in DOMAIN files \union {n} |-> IF m = n THEN content ELSE files[m]]
Drop(n) == [m \in DOMAIN files \ {n} |-> files[m]]

Init ==
    LET blank == [page |-> [p \in Pages |-> Erased], erase |-> [b \in Blocks |-> FREE],
                  max_erase_count |-> 0, free_blocks |-> 0, allocated |-> 0, deleted |-> 0,
                  free_cursor |-> 0, work |-> Erased, fds |-> <<>>]
        s == Mounted(blank)
    IN /\ page = s.page /\ erase = s.erase /\ fs = Counters(s)
       /\ fds = s.fds /\ work = s.work
       /\ starved = FALSE /\ files = <<>> /\ resets = 0 /\ possible = {} /\ checked = "OK"

\* spiffs_fd_find_new.
FreeFds == {f \in Fds : ~fds[f].open}
NewFd == Min(FreeFds)
Close(s, f) == [s EXCEPT !.fds[f] = Closed]

\* A call that fails after it took a descriptor gives it back.
Opened(s, f) == IF s.res = "OK" THEN s ELSE Close(s, f)

\* SPIFFS_CREAT matters for a name that is not there, SPIFFS_TRUNC for one that is.
SPIFFS_open(n, creat, trunc) ==
    LET there == Headers(page, n) # {}
        f == NewFd
        p == Min(Headers(page, n))
        made == Then(object_create(Current, n), LAMBDA t : object_open_by_page(t, t.pix, f))
        found == object_open_by_page(Current, p, f)
        cut == IF trunc THEN Then(found, LAMBDA t : object_truncate(t, f, FALSE)) ELSE found
    IN /\ FreeFds # {}
       /\ creat <=> ~there
       /\ trunc => there
       /\ trunc /\ ~TruncateEmpty => page[p].size # UNDEFINED_LEN
       /\ IF there THEN Commit(Opened(cut, f), IF trunc THEN Put(n, <<>>) ELSE files)
          ELSE Commit(Opened(made, f), Put(n, <<>>))

\* The offset of a descriptor is not kept: a write may come at any offset up to
\* the size. What SPIFFS_lseek leaves behind is the index page under the cursor.
SPIFFS_lseek(f, offset) ==
    LET span == IxSpan(offset \div DATA_PAGE_SIZE)
        found == obj_lu_find_id_and_span(Current, fds[f].id, span)
    IN /\ fds[f].open
       /\ fds[f].size # UNDEFINED_LEN /\ offset <= fds[f].size
       /\ fds[f].cursor_objix_spix # span
       /\ Commit(Then(found, LAMBDA t : SetCursor(t, f, t.pix, span)), files)

\* spiffs_hydro_write modifies what is there and appends the rest.
hydro_write(s, f, offset, bytes) ==
    LET size == s.fds[f].size
        old == IF size = UNDEFINED_LEN \/ offset >= size THEN 0
               ELSE Min({size - offset, Len(bytes)})
        Rest(t) == IF old = Len(bytes) THEN t
                   ELSE object_append(t, f, offset + old, SubSeq(bytes, old + 1, Len(bytes)))
    IN Then(IF old > 0 THEN object_modify(s, f, offset, SubSeq(bytes, 1, old)) ELSE s, Rest)

\* A write that fails may have stored a prefix.
SPIFFS_write(f, offset, bytes) ==
    /\ fds[f].open
    /\ offset <= Length(fds[f].size)
    /\ offset + Len(bytes) <= MaxSize
    /\ LET n == page[fds[f].objix_hdr_pix].name
           Done(k) == Put(n, Overwrite(files[n], offset, SubSeq(bytes, 1, k)))
       IN CommitPart(hydro_write(Current, f, offset, bytes),
                     Done(Len(bytes)), {Done(k) : k \in 0 .. Len(bytes)})

\* A read of the whole file, from its start.
SPIFFS_read(f) ==
    /\ fds[f].open
    /\ Length(fds[f].size) > 0
    /\ Commit(object_read(Current, f, fds[f].size).s, files)

SPIFFS_close(f) == fds[f].open /\ Commit(Close(Current, f), files)

RemoveThrough(n, f) ==
    Then(object_open_by_page(Current, Min(Headers(page, n)), f),
         LAMBDA t : object_truncate(t, f, TRUE))

SPIFFS_remove(n) ==
    /\ FreeFds # {} /\ Headers(page, n) # {}
    /\ Commit(Opened(RemoveThrough(n, NewFd), NewFd), Drop(n))

SPIFFS_fremove(f) ==
    /\ fds[f].open
    /\ Commit(object_truncate(Current, f, TRUE), Drop(page[fds[f].objix_hdr_pix].name))

SPIFFS_rename(n, m) ==
    LET f == NewFd
        opened == object_open_by_page(Current, Min(Headers(page, n)), f)
        Rename(t) == LET h == t.fds[f].objix_hdr_pix
                     IN update_index_hdr(t, f, t.fds[f].id, h, t.page[h], m, 0)
        named == [k \in (DOMAIN files \ {n}) \union {m} |-> files[IF k = m THEN n ELSE k]]
    IN /\ FreeFds # {} /\ Headers(page, n) # {} /\ Headers(page, m) = {}
       /\ Commit(Close(Then(opened, Rename), f), named)

SPIFFS_gc(len) == Commit(gc_check(Current, len), files)

SPIFFS_gc_quick(max_free_pages) == Commit(gc_quick(Current, max_free_pages), files)

\* SPIFFS_unmount, or a reset between two calls, and SPIFFS_mount.
SPIFFS_mount == Commit(Mounted(Current), files)

Next ==
    \/ \E n \in Names, creat, trunc \in BOOLEAN : SPIFFS_open(n, creat, trunc)
    \/ \E f \in Fds, offset \in 0 .. MaxSize : SPIFFS_lseek(f, offset)
    \/ \E f \in Fds, offset \in 0 .. MaxSize, bytes \in Writes : SPIFFS_write(f, offset, bytes)
    \/ \E f \in Fds : SPIFFS_read(f) \/ SPIFFS_close(f) \/ SPIFFS_fremove(f)
    \/ \E n \in Names : SPIFFS_remove(n) \/ \E m \in Names : SPIFFS_rename(n, m)
    \/ \E len \in GcSizes : SPIFFS_gc(len)
    \/ \E k \in QuickPages : SPIFFS_gc_quick(k)
    \/ SPIFFS_mount

Spec == Init /\ [][Next]_vars

\* ---------------------------------- properties -----------------------------------

\* The counters that gc_check decides by are, after every call and whatever it
\* failed at, those a new mount would count on the flash.
StatsMatch ==
    /\ fs.allocated = Cardinality({p \in Pages : Live(page, p)})
    /\ fs.deleted = Cardinality({p \in Pages : page[p].lu = DELETED})
    /\ fs.free_blocks = Cardinality({b \in Blocks : page[b * MAX_ENTRIES].lu = FREE})

\* No two live pages claim to be the same span of the same object: appending,
\* rewriting and garbage collection each leave one version of every page, so it
\* does not matter where obj_lu_find_id_and_span starts.
Unique == ~starved /\ ~Unchecked =>
    LET live == {p \in Pages : Live(page, p)}
    IN Cardinality({<<page[p].lu, page[p].span>> : p \in live}) = Cardinality(live)

HeaderOf(id) == {p \in Pages : page[p].lu = id + IX_FLAG /\ page[p].span = 0}

\* Every live page belongs to a file: its object has a header, its span is within
\* the file's size, and the index names it. No call loses pages for good.
NoOrphans == ~starved /\ ~Unchecked =>
    \A p \in Pages : Live(page, p) =>
        LET id == page[p].lu % IX_FLAG
            span == page[p].span
            pages == PageCount(page[Min(HeaderOf(id))].size)
        IN /\ HeaderOf(id) # {}
           /\ IF IsIx(page[p].lu) THEN span = 0 \/ span <= IxSpan(pages - 1)
              ELSE span < pages /\ Ref(page, id, span) = p

\* An open descriptor knows the header, the size and the index page under its cursor
\* after calls through other descriptors, removals and garbage collection too.
FdsFresh == ~starved /\ ~Unchecked =>
    \A f \in Fds : fds[f].open =>
        LET d == fds[f]
            hdr == page[d.objix_hdr_pix]
        IN /\ hdr.lu = d.id /\ hdr.span = 0
           /\ Length(d.size) = Length(hdr.size)
           /\ \/ d.cursor_objix_pix = NoPage
              \/ /\ d.cursor_objix_pix \in Pages
                 /\ page[d.cursor_objix_pix].lu = d.id
                 /\ page[d.cursor_objix_pix].span = d.cursor_objix_spix

\* The pages hold exactly the files and the bytes that the calls have promised,
\* across garbage collection and new mounts; a call that fails changes nothing,
\* except that a write may have stored a prefix.
ContentKept == ~starved /\ ~Unchecked => Stored(page) = files

\* Reading an open file from start to end succeeds and returns its bytes.
ReadsBack == ~starved /\ ~Unchecked =>
    \A f \in Fds : fds[f].open /\ Length(fds[f].size) > 0 =>
        LET r == object_read(Current, f, fds[f].size)
        IN r.s.res = "OK" /\ r.got = files[page[fds[f].objix_hdr_pix].name]

==============================================================================
