------------------------------- MODULE SpiffsGc -------------------------------
\* The garbage collector of SPIFFS (spiffs_gc.c): when an operation needs room,
\* the block with the best score is emptied into free pages of other blocks,
\* the object indices that refer to its pages are rewritten, and it is erased.
EXTENDS SpiffsPages

SPIFFS_GC_MAX_RUNS == 5
SPIFFS_GC_HEUR_W_DELET == 5
SPIFFS_GC_HEUR_W_USED == -1
SPIFFS_GC_HEUR_W_ERASE_AGE == 50

\* Two blocks do not count: the collector needs them.
free_pages(s) == MAX_ENTRIES * (block_count - 2) - s.allocated - s.deleted

\* The pages of a block before its first free one.
Scanned(s, b) ==
    {p \in PagesOf(b) : \A q \in PagesOf(b) : q <= p => s.page[q].lu # FREE}

EraseAge(s, b) ==
    IF s.max_erase_count > s.erase[b] THEN s.max_erase_count - s.erase[b]
    ELSE FREE - (s.erase[b] - s.max_erase_count)

Score(s, b, crammed) ==
    LET deleted == Cardinality({p \in Scanned(s, b) : s.page[p].lu = DELETED})
        used == Cardinality(Scanned(s, b)) - deleted
    IN deleted * SPIFFS_GC_HEUR_W_DELET + used * SPIFFS_GC_HEUR_W_USED
       + (IF crammed THEN 0 ELSE EraseAge(s, b) * SPIFFS_GC_HEUR_W_ERASE_AGE)

\* spiffs_gc_find_candidate: the blocks with deleted pages, and of those with the
\* best score the first.
Candidates(s) == {b \in Blocks : \E p \in Scanned(s, b) : s.page[p].lu = DELETED}

find_candidate(s, crammed) ==
    LET score == [b \in Candidates(s) |-> Score(s, b, crammed)]
        best == Max({score[b] : b \in DOMAIN score})
    IN Min({b \in DOMAIN score : score[b] = best})

\* Faulty variant (no specification uses it): the index page is not told where the
\* data page went.
MoveDataUnnoted(s, p, id, ixspan) ==
    IF s.page[p].lu # id \/ IxSpan(s.page[p].span) # ixspan THEN s
    ELSE page_copy(s, id, p)

\* One data page of the object whose index page "s.work" is in memory.
MoveData(s, p, id, ixspan) ==
    LET span == s.page[p].span
        Note(t, new) == [t EXCEPT !.work.ix[IxEntry(span)] = new]
    IN IF s.page[p].lu # id \/ IxSpan(span) # ixspan THEN s
       ELSE IF "DELET" \in s.page[p].flags THEN Note(page_delete(s, p), FREE)
       ELSE Then(page_copy(s, id, p), LAMBDA t : Note(t, t.pix))

StoreIndex(s, id, ixspan, old) ==
    IF ixspan = 0 THEN update_index_hdr(s, 0, id, old, s.work, NoName, 0)
    ELSE Then(page_move(s, s.work, id, old),
              LAMBDA t : cb_object_event(t, "UPD", id, t.work.span, t.pix, 0))

\* The pages a block's scan visits, in order.
Scan(b) == [e \in 1 .. MAX_ENTRIES |-> b * MAX_ENTRIES + e - 1]

\* FIND_OBJ_DATA finds a data page at p, MOVE_OBJ_DATA moves every page of the
\* block that the same index page refers to, and the index page is stored.
MoveObject(s, b, p) ==
    LET id == s.page[p].lu
        ixspan == IxSpan(s.page[p].span)
        MoveAll(t) ==
            LET loaded == [t EXCEPT !.work = t.page[t.pix]]
                old == t.pix
                Step(u, q) == Then(u, LAMBDA v : MoveData(v, q, id, ixspan))
            IN Then(Then(Validate(loaded, loaded.work, TRUE, ixspan),
                         LAMBDA u : Fold(Step, u, Scan(b))),
                    LAMBDA u : StoreIndex(u, id + IX_FLAG, ixspan, old))
    IN IF s.page[p].lu \in {FREE, DELETED} \/ IsIx(s.page[p].lu) THEN s
       ELSE Then(obj_lu_find_id_and_span(s, id + IX_FLAG, ixspan), MoveAll)

\* MOVE_OBJ_IX: an index page that is still in the block.
MoveIndex(s, p) ==
    LET id == s.page[p].lu
        span == s.page[p].span
    IN IF ~IsIx(id) THEN s
       ELSE IF "DELET" \in s.page[p].flags
            THEN cb_object_event(page_delete(s, p), "DEL", id, span, p, 0)
       ELSE Then(page_copy(s, id, p),
                 LAMBDA t : cb_object_event(t, "UPD", id, span, t.pix, 0))

gc_clean(s, b) ==
    LET cursor == [s EXCEPT !.free_cursor =
                       IF BlockOf(@) = b THEN ((b + 1) % block_count) * MAX_ENTRIES ELSE @]
        Data(t, p) == Then(t, LAMBDA u : MoveObject(u, b, p))
        Index(t, p) == Then(t, LAMBDA u : MoveIndex(u, p))
    IN Fold(Index, Fold(Data, cursor, Scan(b)), Scan(b))

gc_erase_page_stats(s, b) ==
    [s EXCEPT !.allocated = @ - Cardinality({p \in PagesOf(b) : Live(s.page, p)}),
              !.deleted = @ - Cardinality({p \in PagesOf(b) : s.page[p].lu = DELETED})]

\* One round of spiffs_gc_check's loop. "stop" is the loop's way out: it keeps
\* running while few blocks are free or "len" does not fit.
Collect(s, len) ==
    LET before == free_pages(s)
        Cleaned(b) ==
            Then([gc_clean([s EXCEPT !.cleaning = TRUE, !.work = Erased], b) EXCEPT !.cleaning = FALSE],
                 LAMBDA t : erase_block(gc_erase_page_stats(t, b), b))
        Decide(t) ==
            [t EXCEPT !.stop = \/ t.res # "OK"
                               \/ before <= 0 /\ free_pages(t) = before
                               \/ t.free_blocks > 2 /\ len <= free_pages(t) * DATA_PAGE_SIZE]
    IN With(Decide, With(Cleaned, find_candidate(s, before <= 0)))

gc_check(s, len) ==
    LET needed == (len + DATA_PAGE_SIZE - 1) \div DATA_PAGE_SIZE
        Empty(t) == [t EXCEPT !.stop = TRUE, !.empty = TRUE, !.work = Erased,
                              !.res = IF needed < free_pages(t) THEN "OK" ELSE "FULL"]
        Round(t, i) == IF t.stop THEN t
                       ELSE IF Candidates(t) = {} THEN Empty(t)
                       ELSE Collect(t, len)
        Fits(t) == IF t.res = "OK" /\ ~t.empty /\ len > free_pages(t) * DATA_PAGE_SIZE
                   THEN Fail(t, "FULL") ELSE t
    IN IF s.free_blocks > 3 /\ len < free_pages(s) * DATA_PAGE_SIZE THEN s
       ELSE IF needed > free_pages(s) + s.deleted THEN Fail(s, "FULL")
       ELSE With(Fits, Fold(Round, [s EXCEPT !.stop = FALSE, !.empty = FALSE],
                            [i \in 1 .. SPIFFS_GC_MAX_RUNS |-> i]))
===============================================================================
