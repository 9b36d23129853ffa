---------------------------- MODULE SpiffsObjects ----------------------------
\* The object layer of SPIFFS (spiffs_nucleus.c, second half): an object is an
\* index header (span 0) with the name, the size and the first data pages, index
\* pages with the others, and the data pages. The functions below keep the index
\* page they work on in "s.work", as the code does in fs->work.
EXTENDS SpiffsGc

Length(size) == IF size = UNDEFINED_LEN THEN 0 ELSE size
PageCount(size) == (Length(size) + DATA_PAGE_SIZE - 1) \div DATA_PAGE_SIZE

\* The bytes of a write that starts at "offset", cut at the data page borders.
Chunks(offset, bytes) ==
    LET first == offset \div DATA_PAGE_SIZE
        last == (offset + Len(bytes) - 1) \div DATA_PAGE_SIZE
        From(span) == IF span = first THEN offset ELSE span * DATA_PAGE_SIZE
        To(span) == IF span = last THEN offset + Len(bytes) ELSE (span + 1) * DATA_PAGE_SIZE
    IN [k \in 1 .. last - first + 1 |->
          LET span == first + k - 1
          IN [span |-> span, offs |-> From(span) % DATA_PAGE_SIZE, at |-> From(span),
              bytes |-> SubSeq(bytes, From(span) - offset + 1, To(span) - offset)]]

\* spiffs_obj_lu_find_free_obj_id: the lowest id no lookup entry holds.
FreeObjId(page) ==
    Min({i \in 1 .. Cardinality(Pages) + 1 :
            \A p \in Pages : page[p].lu = FREE \/ page[p].lu % IX_FLAG # i})

object_create(s, name) ==
    LET id == FreeObjId(s.page) + IX_FLAG
        entry == [Erased EXCEPT !.lu = id]
        header == [entry EXCEPT !.id = id, !.span = 0, !.name = name,
                                !.flags = {"FINAL", "INDEX", "USED"}]
    IN Then(Then(gc_check([s EXCEPT !.work = Erased], DATA_PAGE_SIZE), obj_lu_find_free),
            LAMBDA t : cb_object_event(write([t EXCEPT !.allocated = @ + 1], t.pix, {entry}, header),
                                       "NEW", id, 0, t.pix, UNDEFINED_LEN))

\* spiffs_object_open_by_page.
object_open_by_page(s, p, f) ==
    Validate([s EXCEPT !.fds[f] = [open |-> TRUE, id |-> s.page[p].lu, objix_hdr_pix |-> p,
                                   size |-> s.page[p].size, cursor_objix_pix |-> p,
                                   cursor_objix_spix |-> 0]],
             s.page[p], TRUE, 0)

\* The loops below carry r: the file system, the index page in s.work (its span
\* and its page), how much is written, and "ret" for a return from inside the
\* loop. A failed step that does not return leaves the loop with its error.
Loop(s, f) == [s |-> s, span |-> 0, prev |-> -1, pix |-> s.fds[f].objix_hdr_pix,
               written |-> 0, ret |-> FALSE]
Running(r) == ~r.ret /\ r.s.res = "OK"
Returning(r) == [r EXCEPT !.ret = r.s.res # "OK"]
AtPage(r, t) == [r EXCEPT !.s = t, !.pix = t.pix]

SetCursor(s, f, p, span) ==
    [s EXCEPT !.fds[f].cursor_objix_pix = p, !.fds[f].cursor_objix_spix = span]

\* Read page s.pix, which should be the index page of "span", into s.work.
LoadWork(s, span) == LET t == [s EXCEPT !.work = s.page[s.pix]] IN Validate(t, t.work, TRUE, span)

\* Truncate and read find every index page but the header by a search.
EnterIndex(s, f, span) ==
    LET found == IF span = 0 THEN [s EXCEPT !.pix = s.fds[f].objix_hdr_pix]
                 ELSE obj_lu_find_id_and_span(s, s.fds[f].id, span)
    IN Then(Then(found, LAMBDA t : LoadWork(t, span)), LAMBDA t : SetCursor(t, f, t.pix, span))

\* Append and modify load the index page of "span": the header through the
\* page the loop holds, another one through the descriptor's cursor or a search.
LoadIndex(r, f, span) ==
    LET d == r.s.fds[f]
        found == IF span = 0 THEN [r.s EXCEPT !.pix = r.pix]
                 ELSE IF d.cursor_objix_spix = span THEN [r.s EXCEPT !.pix = d.cursor_objix_pix]
                 ELSE obj_lu_find_id_and_span(r.s, d.id, span)
    IN With(LAMBDA t : AtPage(r, t), Then(found, LAMBDA t : LoadWork(t, span)))

\* Program s.work over the index page it was loaded from.
RewriteIndex(s, p, span) ==
    Then(page_index_check(s, p, span),
         LAMBDA t : write(t, p, {}, [Program(t.page[p], t.work) EXCEPT !.lu = t.page[p].lu]))

\* ------------------------------- append ----------------------------------------

\* Store the index page the loop leaves behind, and the size in the header.
StoreAppended(r, f, offset) ==
    LET d == r.s.fds[f]
        size == offset + r.written
        Resize(s, hdr) == update_index_hdr(s, f, d.id, s.fds[f].objix_hdr_pix, hdr, NoName, size)
        stored ==
            IF r.prev = 0
            THEN IF offset = 0 THEN RewriteIndex([r.s EXCEPT !.work.size = size], r.pix, 0)
                 ELSE Resize(r.s, r.s.work)
            ELSE Then(Then(RewriteIndex(r.s, r.pix, r.prev),
                           LAMBDA t : cb_object_event(t, "UPD", d.id, t.work.span, r.pix, 0)),
                      LAMBDA t : Resize(t, t.page[t.fds[f].objix_hdr_pix]))
    IN [r EXCEPT !.s = stored]

NewIndexPage(r, f, span) ==
    LET id == r.s.fds[f].id
    IN With(LAMBDA t : AtPage(r, t),
            Then(page_allocate_data(r.s, id, span, {"FINAL", "INDEX"}, <<>>),
                 LAMBDA t : [cb_object_event(t, "NEW", id, span, t.pix, 0)
                                 EXCEPT !.work = t.page[t.pix]]))

SwitchAppend(r, f, offset, span) ==
    LET Grown(q) == [q EXCEPT !.s.fds[f].size = IF r.written > 0 THEN offset + r.written ELSE @]
        Next(q) ==
            IF span > 0 /\ (q.written > 0 \/ span > IxSpan((q.s.fds[f].size - 1) \div DATA_PAGE_SIZE))
            THEN NewIndexPage(q, f, span) ELSE LoadIndex(q, f, span)
        Enter(q) ==
            IF q.s.res # "OK" \/ span = 0 THEN q
            ELSE [q EXCEPT !.s = SetCursor(q.s, f, q.pix, span),
                           !.s.fds[f].size = offset + q.written]
        Go(q) == IF q.s.res # "OK" THEN q
                 ELSE [With(Enter, With(Next, Grown(q))) EXCEPT !.prev = span, !.span = span]
    IN With(Returning, With(Go, IF r.written > 0 THEN StoreAppended(r, f, offset) ELSE r))

\* A new data page, or the free rest of the last one.
AppendChunk(r, f, c) ==
    LET id == r.s.fds[f].id % IX_FLAG
        last == r.s.work.ix[IxEntry(c.span)]
        Filled(pg) == [pg EXCEPT !.data =
                          [i \in DOMAIN @ |-> IF i >= c.offs /\ i < c.offs + Len(c.bytes)
                                              THEN AndByte(@[i], c.bytes[i - c.offs + 1]) ELSE @[i]]]
        Fill(t) == write([t EXCEPT !.pix = last], last, {}, Filled(t.page[last]))
        Note(t, size) == [t EXCEPT !.work.ix[IxEntry(c.span)] = t.pix,
                                   !.work.size = IF r.span = 0 THEN size ELSE @]
        Done(t) == IF t.res = "OK"
                   THEN [r EXCEPT !.s = Note(t, c.at), !.written = @ + Len(c.bytes)]
                   ELSE [r EXCEPT !.s = t, !.ret = c.offs # 0]
    IN With(Done, IF c.offs = 0 THEN page_allocate_data(r.s, id, c.span, {"FINAL"}, c.bytes)
                  ELSE Then(page_data_check(r.s, last, c.span), Fill))

FinishAppend(r, f, offset) ==
    LET size == offset + r.written
        s == [SetCursor(r.s, f, r.pix, r.span) EXCEPT !.fds[f].size = size, !.res = "OK"]
        Event(t) == cb_object_event(t, "UPD", t.fds[f].id, 0, r.pix, t.work.size)
        Result(t) == IF t.res # "OK" THEN t ELSE Fail(t, r.s.res)
    IN IF r.ret THEN r.s
       ELSE With(Result,
                 IF r.span = 0 /\ offset = 0
                 THEN Then(RewriteIndex([s EXCEPT !.work.size = size], r.pix, 0), Event)
                 ELSE StoreAppended([r EXCEPT !.s = s, !.prev = r.span], f, offset).s)

object_append(s, f, offset, bytes) ==
    LET at == IF offset > s.fds[f].size THEN s.fds[f].size ELSE offset
        Step(r, c) == IF ~Running(r) THEN r
                      ELSE With(LAMBDA q : IF Running(q) THEN AppendChunk(q, f, c) ELSE q,
                                IF IxSpan(c.span) = r.prev THEN r
                                ELSE SwitchAppend(r, f, at, IxSpan(c.span)))
    IN Then(gc_check(s, Len(bytes) + DATA_PAGE_SIZE),
            LAMBDA t : With(LAMBDA r : FinishAppend(r, f, at),
                            Fold(Step, Loop(t, f), Chunks(at, bytes))))

\* ------------------------------- modify ----------------------------------------

\* A new version of the index page goes to a free page.
StoreModified(s, f, p, span) ==
    IF span = 0
    THEN update_index_hdr(s, f, s.fds[f].id, s.fds[f].objix_hdr_pix, s.work, NoName, 0)
    ELSE Then(Then(page_index_check(s, p, span),
                   LAMBDA t : page_move(t, t.work, t.fds[f].id, p)),
              LAMBDA t : cb_object_event(t, "UPD", t.fds[f].id, t.work.span, t.pix, 0))

SwitchModify(r, f, span) ==
    LET Enter(q) == IF q.s.res # "OK" THEN q
                    ELSE [q EXCEPT !.s = SetCursor(q.s, f, q.pix, span)]
        Go(q) == IF q.s.res # "OK" THEN q
                 ELSE [With(Enter, LoadIndex(q, f, span)) EXCEPT !.prev = span, !.span = span]
    IN With(Returning, With(Go, IF r.written > 0
                                THEN [r EXCEPT !.s = StoreModified(r.s, f, r.pix, r.prev)]
                                ELSE r))

\* A full page is written anew; of a partial one the rest is copied.
ModifyChunk(r, f, c) ==
    LET id == r.s.fds[f].id % IX_FLAG
        old == r.s.work.ix[IxEntry(c.span)]
        full == Len(c.bytes) = DATA_PAGE_SIZE
        data == [k \in 1 .. DATA_PAGE_SIZE |->
                   IF k > c.offs /\ k <= c.offs + Len(c.bytes) THEN c.bytes[k - c.offs]
                   ELSE r.s.page[old].data[k - 1]]
        Moved(s) == Then(page_allocate_data(s, id, c.span, {}, data),
                         LAMBDA t : [page_delete(t, old) EXCEPT !.work.ix[IxEntry(c.span)] = t.pix])
        Done(t) == [r EXCEPT !.s = t, !.written = IF t.res = "OK" THEN @ + Len(c.bytes) ELSE @]
        Write(s) == IF s.res # "OK" THEN [r EXCEPT !.s = s, !.ret = TRUE] ELSE With(Done, Moved(s))
    IN With(Write, IF full THEN r.s ELSE page_data_check(r.s, old, c.span))

\* When the last page_move fails, the cursor takes an address no one has set.
FinishModify(r, f) ==
    LET s == [SetCursor(r.s, f, r.pix, r.span) EXCEPT !.res = "OK"]
        Moved(t) == CASE r.span = 0 -> t
                      [] r.span # 0 /\ t.res = "OK" -> SetCursor(t, f, t.pix, r.span)
                      [] r.span # 0 /\ t.res \in {"FULL", "NOT_FOUND"} ->
                            SetCursor(t, f, Uninitialised, r.span)
                      [] OTHER -> t
        Result(t) == IF t.res # "OK" THEN t ELSE Fail(t, r.s.res)
    IN IF r.ret THEN r.s ELSE With(Result, With(Moved, StoreModified(s, f, r.pix, r.span)))

object_modify(s, f, offset, bytes) ==
    LET Step(r, c) == IF ~Running(r) THEN r
                      ELSE With(LAMBDA q : IF Running(q) THEN ModifyChunk(q, f, c) ELSE q,
                                IF IxSpan(c.span) = r.prev THEN r
                                ELSE SwitchModify(r, f, IxSpan(c.span)))
    IN Then(gc_check(s, Len(bytes) + DATA_PAGE_SIZE),
            LAMBDA t : With(LAMBDA r : FinishModify(r, f),
                            Fold(Step, Loop(t, f), Chunks(offset, bytes))))

\* ------------------------------- truncate to 0 / remove ------------------------

\* Faulty variant (no specification uses it): the index page is left behind.
LeaveIndexPage(r, f, size) ==
    LET d == r.s.fds[f]
        hdr == r.s.page[d.objix_hdr_pix]
    IN [r EXCEPT !.s = update_index_hdr(r.s, f, d.id, d.objix_hdr_pix, hdr, NoName, size)]

\* The index page behind the loop is deleted, and the header told the new size.
LeaveIndex(r, f, size) ==
    LET d == r.s.fds[f]
        Delete(t) == cb_object_event(page_delete(t, r.pix), "DEL", d.id, t.work.span, r.pix, 0)
        Resize(t) == update_index_hdr(t, f, d.id, t.fds[f].objix_hdr_pix,
                                      t.page[t.fds[f].objix_hdr_pix], NoName, size)
        left == Then(Then(page_index_check(r.s, r.pix, r.prev), Delete), Resize)
    IN [r EXCEPT !.s = left]

SwitchTruncate(r, f, span, size) ==
    LET Go(q) == IF q.s.res # "OK" THEN q
                 ELSE [With(LAMBDA t : AtPage(q, t), EnterIndex(q.s, f, span))
                         EXCEPT !.prev = span, !.span = span]
    IN With(Returning, With(Go, IF r.prev = -1 THEN r ELSE LeaveIndex(r, f, size)))

\* The data page of "span" goes; a reference to a page that is gone is tolerated.
DropData(r, f, span) ==
    LET e == IxEntry(span)
        old == r.s.work.ix[e]
        s == [r.s EXCEPT !.work.ix[e] = FREE]
        Drop(check) ==
            IF check.res \notin {"OK", "DELETED", "INDEX_REF_FREE"} THEN check
            ELSE [IF check.res = "OK" THEN page_delete(s, old) ELSE s
                    EXCEPT !.fds[f].size = span * DATA_PAGE_SIZE]
    IN [r EXCEPT !.s = With(Drop, page_data_check(s, old, span))]

FinishTruncate(r, f, size, remove) ==
    LET s == [r.s EXCEPT !.res = "OK"]
        d == s.fds[f]
        Delete(t) == cb_object_event(page_delete(t, r.pix), "DEL", d.id, 0, r.pix, 0)
        Uninit == [s.work EXCEPT !.ix = [i \in DOMAIN @ |-> FREE]]
        Moved(t) == cb_object_event(t, "UPD", d.id, t.work.span, t.pix, 0)
        Done(t) == IF t.res = "OK" THEN [t EXCEPT !.fds[f].size = size] ELSE t
    IN IF r.ret THEN r.s
       ELSE With(Done,
            IF r.span = 0
            THEN IF size = 0 /\ remove THEN Then(page_index_check(s, r.pix, 0), Delete)
                 ELSE IF size = 0 THEN update_index_hdr(s, f, d.id, r.pix, Uninit, NoName, UNDEFINED_LEN)
                 ELSE update_index_hdr(s, f, d.id, r.pix, s.work, NoName, size)
            ELSE Then(Then(Then(Then(page_index_check(s, r.pix, r.span),
                                     LAMBDA t : page_move(t, t.work, d.id, r.pix)),
                                Moved),
                           LAMBDA t : SetCursor(t, f, t.pix, r.span)),
                      LAMBDA t : update_index_hdr(t, f, d.id, t.fds[f].objix_hdr_pix,
                                     t.page[t.fds[f].objix_hdr_pix], NoName, size)))

\* spiffs_object_truncate with new size 0, the only one its callers give.
object_truncate(s, f, remove) ==
    LET Mark(t) == IF remove
                   THEN LET p == t.fds[f].objix_hdr_pix
                        IN write(t, p, {}, [t.page[p] EXCEPT !.flags =
                                            @ \union {"USED", "INDEX", "FINAL", "IXDELE"}])
                   ELSE t
        Count(t) == PageCount(t.fds[f].size)
        Spans(t) == [k \in 1 .. Count(t) |-> Count(t) - k]
        Step(r, span) ==
            IF ~Running(r) THEN r
            ELSE With(LAMBDA q : IF Running(q) THEN DropData(q, f, span) ELSE q,
                      IF IxSpan(span) = r.prev THEN r
                      ELSE SwitchTruncate(r, f, IxSpan(span), r.s.fds[f].size))
        Finish(r) == FinishTruncate(r, f, Length(r.s.fds[f].size), remove)
        Run(t) == With(Finish, Fold(Step, Loop(Mark(t), f), Spans(t)))
    IN Then(gc_check(s, IF remove THEN 0 ELSE DATA_PAGE_SIZE), Run)

\* ------------------------------- read -------------------------------------------

\* Faulty variant (no specification uses it): a page is always read whole.
WholePage(span, size) == DATA_PAGE_SIZE

\* Bytes of data page "span" that belong to a file of "size" bytes.
BytesIn(span, size) ==
    IF (span + 1) * DATA_PAGE_SIZE <= size THEN DATA_PAGE_SIZE ELSE size % DATA_PAGE_SIZE

\* spiffs_object_read of the bytes 0 .. size - 1: "got" collects them.
ReadChunk(r, f, span, size) ==
    LET Page(t) == t.work.ix[IxEntry(span)]
        Copy(t) ==
            IF t.res # "OK" THEN [r EXCEPT !.s = t]
            ELSE [r EXCEPT !.s = t, !.prev = IxSpan(span),
                           !.got = @ \o [k \in 1 .. BytesIn(span, size) |-> t.page[Page(t)].data[k - 1]]]
    IN IF r.s.res # "OK" THEN r
       ELSE With(Copy, Then(IF IxSpan(span) = r.prev THEN r.s ELSE EnterIndex(r.s, f, IxSpan(span)),
                            LAMBDA t : page_data_check(t, Page(t), span)))

object_read(s, f, size) ==
    LET Step(r, span) == ReadChunk(r, f, span, size)
    IN Fold(Step, [s |-> s, prev |-> -1, got |-> <<>>],
                [k \in 1 .. PageCount(size) |-> k - 1])
===============================================================================
