----------------------------- MODULE SpiffsCheck -----------------------------
\* The consistency check of SPIFFS (spiffs_check.c): three passes over the flash
\* that mend what a reset between two writes has left: the lookup entries against
\* the page headers, index pages whose header is gone, and the pages against the
\* indices that refer to them.
\*
\* A page may have two versions here, so a search starts where the last one ended
\* (fs->cursor_*, "s.cursor"). The repairs of a final page that is entered under
\* another id, or as the wrong kind, and of references to no page, are left out:
\* no reset leaves such a page, and a check that meets one ends in "FOREIGN".
EXTENDS SpiffsObjects

CONSTANT PAGES_PER_SCAN      \* pages fs->work has room for in the page check

ASSUME ScanAssumption == PAGES_PER_SCAN \in Nat \ {0}

IxId(id) == IF id >= IX_FLAG THEN id ELSE id + IX_FLAG
ObjId(id) == id % IX_FLAG
Foreign(s) == Fail(s, "FOREIGN")

\* spiffs_obj_lu_find_id_and_span with its cursor, passing over page "exclude".
find_id_and_span(s, id, spix, exclude) ==
    LET found == Matches(s.page, id, spix) \ {exclude}
    IN IF found = {} THEN Fail(s, "NOT_FOUND")
       ELSE With(LAMBDA p : [s EXCEPT !.pix = p, !.cursor = p],
                 FirstFrom(SearchStart(s.cursor), found))

\* What follows a search: Found on its page, Missing when there is none.
Search(s, Found(_), Missing(_)) ==
    With(LAMBDA t : CASE t.res = "OK" -> Found(t)
                      [] t.res = "NOT_FOUND" -> Missing([t EXCEPT !.res = "OK"])
                      [] OTHER -> t, s)

\* spiffs_object_get_data_page_index_reference: the index page is s.pix.
find_reference(s, id, spix) == find_id_and_span(s, IxId(id), IxSpan(spix), NoPage)
Reference(s, spix) == s.page[s.pix].ix[IxEntry(spix)]

\* A free page that nothing was written to.
find_blank(s) ==
    Then(obj_lu_find_free(s), LAMBDA t : IF t.page[t.pix] = Erased THEN t ELSE Foreign(t))

\* A copy of page p under the id in its header; spiffs_rewrite_page.
rewrite_page(s, p) ==
    LET pg == s.page[p]
        entry == [Erased EXCEPT !.lu = pg.id]
        header == [entry EXCEPT !.id = pg.id, !.span = pg.span, !.flags = pg.flags]
    IN Then(find_blank(s), LAMBDA t :
           write([t EXCEPT !.allocated = @ + 1], t.pix,
                 {entry, header}, [pg EXCEPT !.lu = pg.id]))

\* A copy of index page objix that names page "new" for data span "spix" replaces it.
rewrite_index(s, id, spix, new, objix) ==
    LET pg == s.page[objix]
        good == /\ pg.id = IxId(id) /\ pg.span = IxSpan(spix)
                /\ {"USED", "INDEX", "FINAL"} \subseteq pg.flags
                /\ {"DELET", "IXDELE"} \intersect pg.flags = {}
        copy == [pg EXCEPT !.ix[IxEntry(spix)] = new, !.lu = FREE]
    IN Then(find_blank(s), LAMBDA t :
           IF good THEN page_delete(write(t, t.pix, {copy}, [copy EXCEPT !.lu = IxId(id)]), objix)
           ELSE Fail(page_delete(t, t.pix), "BAD_INDEX"))

delete_obj_lazy(s, id) ==
    Search(find_id_and_span(s, id, 0, NoPage),
           LAMBDA t : write(t, t.pix, {}, [t.page[t.pix] EXCEPT !.flags = @ \union {"IXDELE"}]),
           LAMBDA t : t)

\* A rewritten index, or the object given up when the index is bad as well.
Mended(s, GiveUp(_)) ==
    With(LAMBDA t : IF t.res = "BAD_INDEX" THEN GiveUp([t EXCEPT !.res = "OK"]) ELSE t, s)

\* ------------------------------- lookup pages ----------------------------------

\* Deleted or free in the lookup page but not on the page: a data page its index
\* still names, or the only version of an index page of some object, is copied.
Unentered(s, p) ==
    LET pg == s.page[p]
        Move(t) ==
            LET objix == t.pix
                Index(u) == LET new == u.pix
                            IN Mended(rewrite_index(u, pg.id, pg.span, new, objix),
                                      LAMBDA v : delete_obj_lazy(page_delete(v, new), pg.id))
            IN Then(rewrite_page(t, p), Index)
        header == {q \in Pages : /\ s.page[q].id = IxId(pg.id) /\ s.page[q].span = 0
                                 /\ {"FINAL", "USED"} \subseteq s.page[q].flags
                                 /\ {"DELET", "IXDELE"} \intersect s.page[q].flags = {}}
    IN IF "INDEX" \notin pg.flags
       THEN Search(find_reference(s, pg.id, pg.span),
                   LAMBDA t : IF Reference(t, pg.span) = p THEN Move(t) ELSE t,
                   LAMBDA t : t)
       ELSE Search(find_id_and_span(s, IxId(pg.id), pg.span, p),
                   LAMBDA t : t,
                   LAMBDA t : IF header = {} THEN t
                              ELSE rewrite_page([t EXCEPT !.cursor =
                                       FirstFrom(SearchStart(@), header)], p))

\* Busy in the lookup page but not final: kept if the index names it.
Unfinished(s, p) ==
    LET pg == s.page[p]
        Drop(t) == page_delete(t, p)
    IN Search(find_reference(s, pg.lu, pg.span),
              LAMBDA t : IF Reference(t, pg.span) # p THEN Drop(t)
                         ELSE write(t, p, {}, [pg EXCEPT !.flags = @ \union {"FINAL"}]),
              Drop)

\* Faulty variant (no specification uses it): a page that was written before its entry is not seen.
EntryDeleted(pg) == pg.lu = DELETED /\ "DELET" \notin pg.flags

\* The lookup entry does not tell of what is on the page.
EntryLost(pg) ==
    \/ pg.lu = DELETED /\ "DELET" \notin pg.flags
    \/ pg.lu = FREE /\ "USED" \in pg.flags

lookup_check_validate(s, p) ==
    LET pg == s.page[p]
        Drop(t) == page_delete(t, p)
    IN IF EntryLost(pg) THEN Then(Unentered(s, p), Drop)
       ELSE IF pg.lu \in {DELETED, FREE} THEN s
       ELSE IF IxId(pg.id) # IxId(pg.lu)
       THEN IF \/ "DELET" \in pg.flags \/ "FINAL" \notin pg.flags
               \/ {"INDEX", "IXDELE"} \subseteq pg.flags
            THEN Drop(s) ELSE Foreign(s)
       ELSE IF IsIx(pg.lu) # ("INDEX" \in pg.flags) THEN Foreign(s)
       ELSE IF "DELET" \in pg.flags THEN Drop(s)
       ELSE IF "FINAL" \notin pg.flags THEN Unfinished(s, p)
       ELSE s

InOrder == [k \in 1 .. Cardinality(Pages) |-> k - 1]

lookup_consistency_check(s) ==
    Fold(LAMBDA t, p : Then(t, LAMBDA u : lookup_check_validate(u, p)), s, InOrder)

\* ------------------------------- object indices --------------------------------

\* A header marked for removal is deleted. A final index page that is not is passed
\* over, whether it has a header or not; the rest are deleted without one.
\* fs->work remembers the answers, which do not change during the pass.
index_check(s, p) ==
    LET pg == s.page[p]
        Drop(t) == page_delete(t, p)
        Valid == {"INDEX", "FINAL"} \subseteq pg.flags /\ {"DELET", "IXDELE"} \intersect pg.flags = {}
    IN IF ~IsIx(pg.lu) \/ Valid THEN s
       ELSE IF pg.span = 0
       THEN IF {"INDEX", "FINAL", "IXDELE"} \subseteq pg.flags /\ "DELET" \notin pg.flags THEN Drop(s) ELSE s
       ELSE Search(find_id_and_span(s, IxId(pg.lu), 0, NoPage), LAMBDA t : t, Drop)

object_index_consistency_check(s) ==
    Fold(LAMBDA t, p : Then(t, LAMBDA u : index_check(u, p)), s, InOrder)

\* ------------------------------------ pages -------------------------------------

\* A pass over the pages lo .. lo + PAGES_PER_SCAN - 1 carries r: the file system,
\* the bits of fs->work as sets of pages, "restart", and "leave" for a break.
Scanning(s, lo) ==
    [s |-> s, lo |-> lo, used |-> {}, index |-> {}, refs |-> {}, restart |-> FALSE, leave |-> FALSE]
InRange(r, p) == p \in r.lo .. r.lo + PAGES_PER_SCAN - 1
Goes(r) == r.s.res = "OK" /\ ~r.restart /\ ~r.leave
Again(r, s) == [r EXCEPT !.s = s, !.restart = TRUE]

\* Faulty variant (no specification uses it): the entry in the index page is taken for the span.
FitsEntry(rp, id, span) ==
    /\ rp.id = ObjId(id) /\ rp.span = IxEntry(span)
    /\ "USED" \in rp.flags /\ {"DELET", "INDEX"} \intersect rp.flags = {}

\* Page rp is data page "span" of object "id".
FitsRef(rp, id, span) ==
    /\ rp.id = ObjId(id) /\ rp.span = span
    /\ "USED" \in rp.flags /\ {"DELET", "INDEX"} \intersect rp.flags = {}

\* Entry i of the index page pg at p: a page that does not fit is replaced by one
\* that does, or the object is given up; so is the second index to name a page.
check_entry(r, p, pg, i) ==
    LET rpix == pg.ix[i]
        span == IF pg.span = 0 THEN i ELSE HDR_IX_LEN + IX_LEN * (pg.span - 1) + i
        Replace(t) == Again(r, Mended(rewrite_index(t, pg.id, span, t.pix, p),
                                      LAMBDA u : delete_obj_lazy(u, pg.id)))
        GiveUp(t) == [r EXCEPT !.s = delete_obj_lazy(t, pg.id), !.leave = TRUE]
        Decide(t) == IF t.res = "OK" THEN Replace(t) ELSE GiveUp([t EXCEPT !.res = "OK"])
    IN IF ~Goes(r) \/ rpix = FREE THEN r
       ELSE IF rpix \notin Pages THEN [r EXCEPT !.s = Foreign(@)]
       ELSE IF ~InRange(r, rpix) THEN r
       ELSE IF ~FitsRef(r.s.page[rpix], pg.id, span)
       THEN With(Decide, find_id_and_span(r.s, ObjId(pg.id), span, rpix))
       ELSE IF rpix \in r.refs
       THEN Again(r, Then(delete_obj_lazy(r.s, pg.id), LAMBDA t : page_delete(t, p)))
       ELSE [r EXCEPT !.refs = @ \union {rpix}]

check_page(r, p) ==
    LET pg == r.s.page[p]
        live == "DELET" \notin pg.flags /\ "USED" \in pg.flags
        index == live /\ "INDEX" \in pg.flags /\ "IXDELE" \notin pg.flags
        Mark(set, is) == IF is /\ InRange(r, p) THEN set \union {p} ELSE set
        marked == [r EXCEPT !.used = Mark(@, live), !.index = Mark(@, index)]
        entries == IF pg.span = 0 THEN HDR_IX_LEN ELSE IX_LEN
    IN IF ~Goes(r) THEN r
       ELSE IF ~index THEN marked
       ELSE [Fold(LAMBDA q, i : check_entry(q, p, pg, i), marked, [i \in 1 .. entries |-> i - 1])
               EXCEPT !.leave = FALSE]

\* A used page that no index names and that is no index: it is deleted when the
\* index names a good page or is gone, and put into the index otherwise.
check_unreferenced(r, p) ==
    LET pg == r.s.page[p]
        Drop(t) == [r EXCEPT !.s = page_delete(t, p)]
        Enter(t) == Again(r, Mended(rewrite_index(t, pg.id, pg.span, p, t.pix),
                                    LAMBDA u : delete_obj_lazy(page_delete(u, p), pg.id)))
        Good(q) == FitsRef(q, pg.id, q.span) /\ "FINAL" \in q.flags
        Named(t, q) == IF q \notin Pages THEN Enter(t)
                       ELSE IF Good(t.page[q]) THEN Drop(t)
                       ELSE IF q # p THEN Enter(t) ELSE [r EXCEPT !.s = t]
        Decide(t) == IF t.res = "OK" THEN Named(t, Reference(t, pg.span)) ELSE Drop([t EXCEPT !.res = "OK"])
    IN IF ~Goes(r) \/ p \notin r.used \ (r.index \union r.refs) THEN r
       ELSE With(Decide, find_reference(r.s, pg.id, pg.span))

\* One pass over a range of pages; the next range once nothing had to be mended.
check_range(q) ==
    IF q.s.res # "OK" \/ q.lo \notin Pages THEN q
    ELSE With(LAMBDA r : [q EXCEPT !.s = r.s, !.lo = IF r.restart THEN @ ELSE @ + PAGES_PER_SCAN],
              Fold(check_unreferenced, Fold(check_page, Scanning(q.s, q.lo), InOrder), InOrder))

\* Bound: passes of the page check. One that needs more ends in "ENDLESS".
MaxPasses == 2 * Cardinality(Pages)

page_consistency_check(s) ==
    LET Ended(q) == IF q.s.res = "OK" /\ q.lo \in Pages THEN Fail(q.s, "ENDLESS") ELSE q.s
    IN With(Ended, Fold(LAMBDA q, i : check_range(q), [s |-> s, lo |-> 0], [i \in 1 .. MaxPasses |-> i]))

\* SPIFFS_check runs every pass, whatever the one before it failed at.
check(s) ==
    LET Next(t) == IF t.res \in {"FOREIGN", "ENDLESS"} THEN t ELSE [t EXCEPT !.res = "OK"]
    IN With(obj_lu_scan,
            With(Next, Then(With(Next, Then(With(Next, lookup_consistency_check(s)),
                                            object_index_consistency_check)),
                            page_consistency_check)))
==============================================================================
