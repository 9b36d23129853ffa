----------------------------- MODULE SpiffsPages -----------------------------
\* The page layer of SPIFFS (spiffs_nucleus.c, first half): the flash as pages
\* with a lookup entry each, and the primitives that search, allocate, move,
\* delete and erase them. Every primitive maps a record of the whole file system
\* (the flash, the spiffs struct and the descriptors) to the one it leaves behind;
\* "res" is its return code and "pix" the page it reports.
\*
\* A page is addressed by block * MAX_ENTRIES + entry: the object lookup pages
\* are the "lu" field of the pages they describe. The bytes of a deleted page are
\* dropped (nothing reads them), and a search reports the first match in address
\* order: fs->cursor_* only says where a search starts, and SpiffsStore!Unique
\* says that a search has one match at most.
EXTENDS Integers, FiniteSets, Sequences, FiniteSetsExt

CONSTANTS
    Names,             \* file names
    Fds,               \* file descriptors
    block_count,
    MAX_ENTRIES,       \* pages of a block that are not lookup pages
    DATA_PAGE_SIZE,    \* bytes in a data page
    HDR_IX_LEN,        \* entries in an object index header
    IX_LEN             \* entries in an object index page

IX_FLAG == 32768

\* Addresses, ids and spans are 16 bits wide, and one bit of an id marks an index.
ASSUME SizesAssumption ==
    /\ block_count \in Nat /\ block_count > 2
    /\ {MAX_ENTRIES, DATA_PAGE_SIZE, HDR_IX_LEN, IX_LEN} \subseteq Nat \ {0}
    /\ block_count * MAX_ENTRIES < IX_FLAG - 2

FREE == 65535
DELETED == 0
UNDEFINED_LEN == 2147483647     \* 0xffffffff in the code: above every length
NoName == "none"
Blank == -1                     \* a byte that is still erased
Garbage == -2                   \* a byte programmed twice with different values
NoPage == -1                    \* address 0, a lookup page: "no index page" in a cursor
Uninitialised == -2             \* a page address no one has assigned

Pages == 0 .. block_count * MAX_ENTRIES - 1
Blocks == 0 .. block_count - 1
BlockOf(p) == p \div MAX_ENTRIES
EntryOf(p) == p % MAX_ENTRIES
PagesOf(b) == b * MAX_ENTRIES .. (b + 1) * MAX_ENTRIES - 1
MaxIxLen == IF HDR_IX_LEN > IX_LEN THEN HDR_IX_LEN ELSE IX_LEN

\* "flags" holds the header flags that are programmed (the bits that are 0).
Erased ==
    [lu |-> FREE, id |-> FREE, span |-> FREE, flags |-> {}, size |-> UNDEFINED_LEN,
     name |-> NoName, ix |-> [i \in 0 .. MaxIxLen - 1 |-> FREE],
     data |-> [i \in 0 .. DATA_PAGE_SIZE - 1 |-> Blank]]

DeletedPage == [Erased EXCEPT !.lu = DELETED, !.flags = {"USED", "DELET"}]

IsIx(id) == id # FREE /\ id >= IX_FLAG
Live(page, p) == page[p].lu \notin {FREE, DELETED}

IxEntry(spix) == IF spix < HDR_IX_LEN THEN spix ELSE (spix - HDR_IX_LEN) % IX_LEN
IxSpan(spix) == IF spix < HDR_IX_LEN THEN 0 ELSE 1 + (spix - HDR_IX_LEN) \div IX_LEN

\* "s" passed on to Op.
With(Op(_), s) == Op(s)

\* SPIFFS_CHECK_RES: a step that fails ends its function.
Fail(s, err) == [s EXCEPT !.res = err]
Then(s, Op(_)) == With(LAMBDA t : IF t.res = "OK" THEN Op(t) ELSE t, s)

\* A loop over a sequence.
Fold(Op(_, _), s, seq) ==
    LET after[k \in 0 .. Len(seq)] == IF k = 0 THEN s ELSE Op(after[k - 1], seq[k])
    IN after[Len(seq)]

\* The flash clears bits and never sets one.
Bits(n) == {i \in 0 .. 30 : (n \div 2^i) % 2 = 1}
AndNum(old, new, blank) ==
    IF old = blank THEN new ELSE IF new \in {blank, old} THEN old
    ELSE MapThenSumSet(LAMBDA i : 2^i, Bits(old) \intersect Bits(new))
AndByte(old, new) == IF old = Blank THEN new ELSE IF new \in {Blank, old} THEN old ELSE Garbage
Program(old, new) ==
    [new EXCEPT !.flags = old.flags \union new.flags,
                !.size = AndNum(old.size, new.size, UNDEFINED_LEN),
                !.ix = [i \in DOMAIN new.ix |-> AndNum(old.ix[i], new.ix[i], FREE)]]

\* A search for a free page starts at the cursor, or at the next block when the
\* cursor is at the last entry of one, and wraps around.
SearchStart(p) ==
    IF EntryOf(p) = MAX_ENTRIES - 1 THEN ((BlockOf(p) + 1) % block_count) * MAX_ENTRIES ELSE p

FirstFrom(start, pages) ==
    LET ahead == {p \in pages : p >= start} IN Min(IF ahead = {} THEN pages ELSE ahead)

\* The erase counter of the block is written after the erasure.
erase_block(s, b) ==
    LET blank == [p \in Pages |-> IF BlockOf(p) = b THEN Erased ELSE s.page[p]]
        Flash(count) == [page |-> blank, erase |-> [s.erase EXCEPT ![b] = count]]
    IN
    [s EXCEPT !.page = blank,
              !.erase[b] = s.max_erase_count,
              !.torn = IF s.tearing THEN @ \union {Flash(FREE), Flash(s.max_erase_count)} ELSE @,
              !.max_erase_count = IF @ + 1 = IX_FLAG THEN 0 ELSE @ + 1,
              !.free_blocks = @ + 1]

\* Make page p "pg", through the pages "stages", one flash write each. While "tearing"
\* is set, "torn" collects the flash after every write: what a reset there leaves.
write(s, p, stages, pg) ==
    [s EXCEPT !.page[p] = pg,
              !.torn = IF s.tearing
                       THEN @ \union {[page |-> [s.page EXCEPT ![p] = q], erase |-> s.erase] :
                                          q \in stages \union {pg}}
                       ELSE @]

\* spiffs_obj_lu_scan: what a mount computes from the flash.
EraseCounter(erase) ==
    LET counts == {erase[b] : b \in Blocks} \ {FREE}
        low == IF counts = {} THEN FREE ELSE Min(counts)
        high == IF counts = {} THEN 0 ELSE Max(counts)
    IN IF high - low > FREE \div 2 THEN low + 1 ELSE high + 1

obj_lu_scan(s) ==
    [s EXCEPT !.max_erase_count = EraseCounter(s.erase),
              !.free_blocks = Cardinality({b \in Blocks : s.page[b * MAX_ENTRIES].lu = FREE}),
              !.allocated = Cardinality({p \in Pages : Live(s.page, p)}),
              !.deleted = Cardinality({p \in Pages : s.page[p].lu = DELETED})]

\* spiffs_gc_quick: erase the first block without live pages and with at most
\* max_free_pages free ones.
gc_quick(s, max_free_pages) ==
    LET Count(b, lu) == Cardinality({p \in PagesOf(b) : s.page[p].lu = lu})
        EraseFirst(found) ==
            IF found = {} THEN Fail(s, "NO_DELETED_BLOCKS")
            ELSE erase_block([s EXCEPT !.deleted = @ - Count(Min(found), DELETED)], Min(found))
    IN EraseFirst({b \in Blocks : /\ Count(b, DELETED) + Count(b, FREE) = MAX_ENTRIES
                                  /\ Count(b, FREE) <= max_free_pages})

\* A block counts as free until its first page is taken.
BlocksLeft(free, p) == IF EntryOf(p) = 0 THEN free - 1 ELSE free

\* Two blocks stay free for the garbage collector, which alone may use them.
\* "starved" notes that a page was asked for in vain.
obj_lu_find_free(s) ==
    LET Short(t) == ~t.cleaning /\ t.free_blocks < 2
        Starved(t, err) == Fail([t EXCEPT !.starved = TRUE], err)
        Take(t, p) == [t EXCEPT !.free_cursor = p, !.pix = p, !.free_blocks = BlocksLeft(@, p)]
        Search(t, free) ==
            IF Short(t) THEN Starved(t, "FULL")
            ELSE IF free = {} THEN Starved(t, "NOT_FOUND")
            ELSE With(LAMBDA p : Take(t, p), FirstFrom(SearchStart(t.free_cursor), free))
        From(t) == Search(t, {p \in Pages : t.page[p].lu = FREE})
    IN With(From, IF Short(s) THEN [gc_quick(s, 0) EXCEPT !.res = "OK"] ELSE s)

\* spiffs_obj_lu_find_id_and_span: a final, live page of the object with that
\* span; an index header that is being removed is not one.
Matches(page, id, spix) ==
    {p \in Pages :
        /\ page[p].lu = id /\ page[p].id = id /\ page[p].span = spix
        /\ {"FINAL", "USED"} \subseteq page[p].flags /\ "DELET" \notin page[p].flags
        /\ ~(IsIx(id) /\ "IXDELE" \in page[p].flags /\ spix = 0)}

obj_lu_find_id_and_span(s, id, spix) ==
    IF Matches(s.page, id, spix) = {} THEN Fail(s, "NOT_FOUND")
    ELSE [s EXCEPT !.pix = Min(Matches(s.page, id, spix))]

\* The checks of a page before it is used (the VALIDATE macros): an index refers
\* to no erased page, and the page is written, live, final and of the right kind.
Validate(s, pg, index, spix) ==
    IF "USED" \notin pg.flags THEN Fail(s, "IS_FREE")
    ELSE IF "DELET" \in pg.flags THEN Fail(s, "DELETED")
    ELSE IF "FINAL" \notin pg.flags THEN Fail(s, "NOT_FINALIZED")
    ELSE IF ("INDEX" \in pg.flags) # index THEN Fail(s, "WRONG_KIND")
    ELSE IF pg.span # spix THEN Fail(s, "SPAN_MISMATCH")
    ELSE s

page_data_check(s, p, spix) ==
    IF p = FREE THEN Fail(s, "INDEX_REF_FREE") ELSE Validate(s, s.page[p], FALSE, spix)

page_index_check(s, p, spix) ==
    IF p = FREE THEN Fail(s, "INDEX_FREE") ELSE Validate(s, s.page[p], TRUE, spix)

\* Faulty variant (no specification uses it): the deleted page still counts as allocated.
DeleteUncounted(s, p) == [s EXCEPT !.page[p] = DeletedPage, !.deleted = @ + 1]

\* First the lookup entry, then the header.
page_delete(s, p) ==
    write([s EXCEPT !.deleted = @ + 1, !.allocated = @ - 1], p,
          {[s.page[p] EXCEPT !.lu = DELETED]}, DeletedPage)

\* Occupies a free page: lookup entry, header with "flags", the data "bytes" from
\* its start, and the FINAL flag unless it is among "flags" already.
page_allocate_data(s, id, spix, flags, bytes) ==
    LET entry == [Erased EXCEPT !.lu = id]
        header == [entry EXCEPT !.id = id, !.span = spix, !.flags = flags \union {"USED"}]
        filled == [header EXCEPT !.data = [i \in DOMAIN @ |-> IF i < Len(bytes) THEN bytes[i + 1]
                                                              ELSE Blank]]
        final == [filled EXCEPT !.flags = @ \union {"FINAL"}]
    IN Then(obj_lu_find_free(s), LAMBDA t :
           write([t EXCEPT !.allocated = @ + 1], t.pix, {entry, header, filled}, final))

\* Faulty variant (no specification uses it): the source of a move stays.
MoveWithoutDelete(s, pg, id, src) ==
    Then(obj_lu_find_free(s), LAMBDA t :
        [t EXCEPT !.allocated = @ + 1, !.page[t.pix] = [pg EXCEPT !.lu = id]])

\* Faulty variant (no specification uses it): the source is deleted first.
MoveDeletesFirst(s, pg, id, src) ==
    LET unentered == [pg EXCEPT !.lu = FREE]
    IN Then(obj_lu_find_free(s), LAMBDA t :
           write(page_delete([t EXCEPT !.allocated = @ + 1], src), t.pix,
                 {unentered}, [pg EXCEPT !.lu = id]))

\* Writes "pg" to a free page, enters it under lookup id "id", marks it final if it
\* was, then deletes the source.
page_move(s, pg, id, src) ==
    LET unentered == [pg EXCEPT !.lu = FREE, !.flags = (@ \ {"FINAL"}) \union {"USED"}]
        entered == [unentered EXCEPT !.lu = id]
    IN Then(obj_lu_find_free(s), LAMBDA t :
           page_delete(write([t EXCEPT !.allocated = @ + 1], t.pix,
                             {unentered, entered}, [pg EXCEPT !.lu = id]), src))

\* page_move without page data copies the source in chunks, its header first.
page_copy(s, id, src) ==
    LET pg == s.page[src]
        whole == [pg EXCEPT !.lu = FREE]
        first == [whole EXCEPT !.data = Erased.data, !.ix = Erased.ix]
    IN Then(obj_lu_find_free(s), LAMBDA t :
           page_delete(write([t EXCEPT !.allocated = @ + 1], t.pix,
                             {first, whole}, [pg EXCEPT !.lu = id]), src))

\* Faulty variant (no specification uses it): the event reaches the header of a descriptor and not its cursor.
EventWithoutCursor(s, ev, id, spix, new_pix, new_size) ==
    LET Header(d) ==
            IF ~d.open \/ d.id % IX_FLAG # id % IX_FLAG \/ spix # 0 THEN d
            ELSE IF ev = "DEL" THEN [d EXCEPT !.open = FALSE]
            ELSE [d EXCEPT !.objix_hdr_pix = new_pix,
                           !.size = IF new_size # 0 THEN new_size ELSE @]
    IN [s EXCEPT !.fds = [f \in Fds |-> With(Header, @[f])]]

\* spiffs_cb_object_event: every open descriptor of the object follows its index.
cb_object_event(s, ev, id, spix, new_pix, new_size) ==
    LET Mine(d) == d.open /\ d.id % IX_FLAG = id % IX_FLAG
        Header(d) ==
            IF ~Mine(d) \/ spix # 0 THEN d
            ELSE IF ev = "DEL" THEN [d EXCEPT !.open = FALSE]
            ELSE [d EXCEPT !.objix_hdr_pix = new_pix,
                           !.size = IF new_size # 0 THEN new_size ELSE @]
        Cursor(d, e) ==
            IF ~Mine(d) \/ d.cursor_objix_spix # spix THEN e
            ELSE [e EXCEPT !.cursor_objix_pix = IF ev = "DEL" THEN NoPage ELSE new_pix]
        Follow(d) == Cursor(d, Header(d))
    IN [s EXCEPT !.fds = [f \in Fds |-> With(Follow, @[f])]]

\* spiffs_object_update_index_hdr: the header "hdr" (the caller's work buffer)
\* replaces the header page "old"; size 0 and NoName change nothing.
update_index_hdr(s, f, id, old, hdr, name, size) ==
    LET new == [hdr EXCEPT !.name = IF name # NoName THEN name ELSE @,
                           !.size = IF size # 0 THEN size ELSE @]
        Move(t) == page_move([t EXCEPT !.work = new], new, id, old)
        Moved(t) == cb_object_event(t, "UPD", id, new.span, t.pix, new.size)
        Owned(t) == IF f \in Fds THEN [t EXCEPT !.fds[f].objix_hdr_pix = t.pix] ELSE t
    IN Then(Then(Then(Validate([s EXCEPT !.work = hdr], hdr, TRUE, 0), Move), Moved), Owned)
==============================================================================
