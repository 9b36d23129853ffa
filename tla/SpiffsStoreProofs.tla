--------------------------- MODULE SpiffsStoreProofs ---------------------------
\* SPIFFS keeps its pages in order, for every flash, every set of names and descriptors,
\* and every number of calls: writes, like the calls of SpiffsForestProofs, take a state
\* in which every page and every open descriptor is in its place to another one, or run
\* out of pages. From that the safety properties of SpiffsStore follow that are about
\* pages and descriptors.
EXTENDS SpiffsForestProofs, SequenceTheorems

\* --------------------- SPIFFS_write: bytes that are there ---------------------

\* A page as page_allocate_data writes it.
PageOf(pg, id, span, flags) ==
  /\ DOMAIN pg = PageFields /\ pg.lu = id /\ pg.id = id /\ pg.span = span
  /\ pg.flags = flags \union {"USED", "FINAL"}
  /\ pg.ix = [i \in 0 .. MaxIxLen - 1 |-> FREE] /\ pg.size = UNDEFINED_LEN

Allocated(s, t, id, span, flags) ==
  NotFound(s, t) \/ \E pg : PageOf(pg, id, span, flags) /\ Occupied(s, t, pg)

\* page_allocate_data takes a free page, or there is none.
LEMMA AllocateData ==
  ASSUME NEW s, Sound(s), s.res = "OK", NEW id \in LiveIds, NEW span, NEW flags, NEW bytes
  PROVE  Allocated(s, page_allocate_data(s, id, span, flags, bytes), id, span, flags)
<1> DEFINE entry == [Erased EXCEPT !.lu = id]
           header == [entry EXCEPT !.id = id, !.span = span, !.flags = flags \union {"USED"}]
           filled == [header EXCEPT !.data = [i \in DOMAIN @ |-> IF i < Len(bytes) THEN bytes[i + 1] ELSE Blank]]
           final == [filled EXCEPT !.flags = @ \union {"FINAL"}]
           found == obj_lu_find_free(s)
           made == write([found EXCEPT !.allocated = @ + 1], found.pix, {entry, header, filled}, final)
<1>1. page_allocate_data(s, id, span, flags, bytes) = IF found.res = "OK" THEN made ELSE found
  BY DEF page_allocate_data, Then, With
<1>2. PageOf(final, id, span, flags)
  <2>1. /\ DOMAIN header = PageFields /\ header.lu = id /\ header.id = id /\ header.span = span
        /\ header.flags = flags \union {"USED"} /\ header.ix = [i \in 0 .. MaxIxLen - 1 |-> FREE]
        /\ header.size = UNDEFINED_LEN
    BY DEF Erased, PageFields
  <2> HIDE DEF header
  <2>2. /\ DOMAIN filled = PageFields /\ filled.lu = id /\ filled.id = id /\ filled.span = span
        /\ filled.flags = flags \union {"USED"} /\ filled.ix = header.ix /\ filled.size = header.size
    BY <2>1 DEF PageFields
  <2> HIDE DEF filled
  <2>3. final.flags = flags \union {"USED", "FINAL"}
    BY <2>2 DEF PageFields
  <2>4. /\ DOMAIN final = PageFields /\ final.lu = id /\ final.id = id /\ final.span = span
        /\ final.ix = filled.ix /\ final.size = filled.size
    BY <2>2 DEF PageFields
  <2> HIDE DEF final
  <2> QED BY <2>1, <2>2, <2>3, <2>4 DEF PageOf
<1> HIDE DEF final, filled, header, entry
<1>3. Found(s, found) \/ NotFound(s, found) BY FindFree
<1> HIDE DEF found
<1>4. CASE found.res # "OK"
  <2>1. NotFound(s, found) BY <1>3, <1>4 DEF Found
  <2> QED BY <1>1, <1>4, <2>1 DEF Allocated
<1>5. CASE found.res = "OK"
  <2>1. Found(s, found) BY <1>3, <1>5 DEF NotFound
  <2>2. PageOK(final) /\ final.lu \in LiveIds BY <1>2, LiveId DEF PageOK, PageOf
  <2>3. Occupied(s, made, final) BY <2>1, <2>2, Occupy DEF Sound
  <2> HIDE DEF made
  <2> QED BY <1>1, <1>2, <1>5, <2>3 DEF Allocated
<1> QED BY <1>4, <1>5

\* A page in use and the work page are as they were when no free page was found.
LEMMA NotFoundBusy ==
  ASSUME NEW s, NEW w, NEW cur, Busy(s, w, cur), NEW t, NotFound(s, t)
  PROVE  Busy(t, w, cur) /\ t.starved /\ t.res # "OK" /\ t.fds = s.fds /\ t.work = s.work
<1> DEFINE P == View(s, w)  Q == View(t, w)
<1>1. /\ Sound(s) /\ Layout(s) /\ w \in Pages /\ Live(s.page, w) /\ DOMAIN s.work = PageFields
      /\ Forest(P, cur) /\ FdsOK(s.fds, P, cur) /\ s.work.lu = s.page[w].lu
      /\ s.work.span = s.page[w].span /\ IsIx(s.work.lu) /\ Shape(s.page[w], cur)
  BY DEF Busy
<1>2. Sound(t) /\ Layout(t) /\ t.fds = s.fds /\ t.work = s.work /\ SameLive(s.page, t.page) /\ t.starved /\ t.res # "OK"
  BY <1>1 DEF NotFound, Same
<1>3. t.page[w] = s.page[w] /\ Live(t.page, w) BY <1>1, <1>2 DEF SameLive, Live
<1>4. /\ P[w] = s.work /\ \A q \in Pages : q # w => P[q] = s.page[q]
      /\ \A q \in Pages : Live(P, q) <=> Live(s.page, q)
  BY <1>1, ViewPage
<1>5. /\ Q[w] = t.work /\ \A q \in Pages : q # w => Q[q] = t.page[q]
      /\ \A q \in Pages : Live(Q, q) <=> Live(t.page, q)
  BY <1>1, <1>2, <1>3, ViewPage
<1> HIDE DEF P, Q
<1>6. SameLive(P, Q)
  <2> SUFFICES ASSUME NEW q \in Pages, Live(P, q) \/ Live(Q, q) PROVE Q[q] = P[q] BY DEF SameLive
  <2>1. CASE q = w BY <2>1, <1>2, <1>4, <1>5
  <2>2. CASE q # w
    <3>1. t.page[q] = s.page[q] BY <1>2, <1>4, <1>5 DEF SameLive
    <3> QED BY <3>1, <2>2, <1>4, <1>5
  <2> QED BY <2>1, <2>2
<1>7. Forest(Q, cur) /\ IxStay(P, Q, cur) BY <1>1, <1>6, SameForest, SameStay
<1>8. FdsOK(t.fds, Q, cur) BY <1>1, <1>2, <1>7, FdsStay
<1> QED BY <1>1, <1>2, <1>3, <1>7, <1>8 DEF Busy, Q

Finds(r, f, span, w) ==
  /\ Live(r.s.page, w) /\ r.s.page[w].lu = r.s.fds[f].id /\ r.s.page[w].span = span
  /\ (IF span = 0 THEN [r.s EXCEPT !.pix = r.pix]
      ELSE IF r.s.fds[f].cursor_objix_spix = span THEN [r.s EXCEPT !.pix = r.s.fds[f].cursor_objix_pix]
      ELSE obj_lu_find_id_and_span(r.s, r.s.fds[f].id, span)) = [r.s EXCEPT !.pix = w]

\* The index page of "span", through the loop's page, the cursor or a search.
LEMMA LoadIndexFinds ==
  ASSUME NEW r, NEW cur, Settled(r.s, cur), r.s.res = "OK", NEW f \in Fds, r.s.fds[f].open, NEW span \in Nat,
         NEW n, NEW m \in Nat, Extent(r.s.page, r.s.fds[f].id, n, m), span < m,
         span = 0 => r.pix = r.s.fds[f].objix_hdr_pix
  PROVE  \E w \in Pages : Finds(r, f, span, w)
<1> DEFINE s == r.s  d == s.fds[f]  id == d.id
<1>1. Sound(s) /\ Forest(s.page, cur) /\ FdsOK(s.fds, s.page, cur) BY DEF Settled
<1>2. IsIx(id) /\ FdOK(d, s.page, cur) BY <1>1 DEF FdsOK, FdOK, IxIds
<1>3. PICK w \in Pages : Live(s.page, w) /\ s.page[w].lu = id /\ s.page[w].span = span
  <2>1. span \in 0 .. m - 1 OBVIOUS
  <2> QED BY <2>1 DEF Extent
<1>4. CASE span = 0
  <2>1. d.objix_hdr_pix \in Pages /\ Live(s.page, d.objix_hdr_pix) /\ s.page[d.objix_hdr_pix].lu = id
        /\ s.page[d.objix_hdr_pix].span = span /\ r.pix = d.objix_hdr_pix
    BY <1>2, <1>4 DEF FdOK, IsHeader
  <2> QED BY <1>4, <2>1 DEF Finds
<1>5. CASE span # 0 /\ d.cursor_objix_spix = span
  <2>1. d.cursor_objix_pix \in Pages /\ Live(s.page, d.cursor_objix_pix) /\ s.page[d.cursor_objix_pix].lu = id
        /\ s.page[d.cursor_objix_pix].span = span
    BY <1>2, <1>3, <1>5 DEF FdOK, CursorAt
  <2> QED BY <1>5, <2>1 DEF Finds
<1>6. CASE span # 0 /\ d.cursor_objix_spix # span
  <2>1. "IXDELE" \notin s.page[w].flags BY <1>1, <1>3, <1>6 DEF Forest, Shaped, Shape
  <2>2. Matches(s.page, id, span) = {w} BY <1>1, <1>2, <1>3, <2>1, Spot DEF Forest
  <2>3. obj_lu_find_id_and_span(s, id, span) = [s EXCEPT !.pix = w] BY <1>1, <2>2, SpotPage DEF Sound
  <2> QED BY <1>3, <1>6, <2>3 DEF Finds
<1> QED BY <1>4, <1>5, <1>6

\* An index page that was loaded is the one in work.
LEMMA LoadIndexBusy ==
  ASSUME NEW r, DOMAIN r = LoopFields, NEW cur, Settled(r.s, cur), r.s.res = "OK", NEW f \in Fds, r.s.fds[f].open,
         NEW span \in Nat, NEW n, NEW m \in Nat, Extent(r.s.page, r.s.fds[f].id, n, m), span < m,
         span = 0 => r.pix = r.s.fds[f].objix_hdr_pix
  PROVE  LET q == LoadIndex(r, f, span)
         IN q = [r EXCEPT !.s = q.s, !.pix = q.pix] /\ Entered(r.s, q.s, q.pix, f, cur, span) /\ q.s.fds = r.s.fds
<1> DEFINE s == r.s
           found == IF span = 0 THEN [r.s EXCEPT !.pix = r.pix]
                    ELSE IF r.s.fds[f].cursor_objix_spix = span THEN [r.s EXCEPT !.pix = r.s.fds[f].cursor_objix_pix]
                    ELSE obj_lu_find_id_and_span(r.s, r.s.fds[f].id, span)
           read == [found EXCEPT !.work = found.page[found.pix]]
           loaded == Validate(read, read.work, TRUE, span)
           t == IF found.res = "OK" THEN loaded ELSE found
           q == LoadIndex(r, f, span)
<1>1. q = [r EXCEPT !.s = t, !.pix = t.pix] BY DEF LoadIndex, LoadWork, AtPage, Then, With
<1> HIDE DEF q
<1>2. PICK w \in Pages : /\ Live(s.page, w) /\ s.page[w].lu = s.fds[f].id /\ s.page[w].span = span
                         /\ found = [s EXCEPT !.pix = w]
  <2> HIDE DEF read, loaded, t
  <2> HIDE DEF found, s
  <2>1. \E w \in Pages : Finds(r, f, span, w) BY LoadIndexFinds
  <2> QED BY <2>1 DEF Finds, found, s
<1> HIDE DEF found
<1>3. DOMAIN s = StateFields BY DEF Settled, Sound, Flash
<1>4. Still(s, read) /\ read.work = s.page[w] /\ read.pix = w /\ found.res = "OK" /\ read.fds = s.fds
  BY <1>2, <1>3 DEF Still, Alike, StateFields
<1> HIDE DEF read
<1>5. IsIx(s.page[w].lu) BY <1>2 DEF Settled, FdsOK, FdOK, IxIds
<1>6. Loaded(s, read, w, cur) BY <1>2, <1>4, <1>5, LoadBusy
<1>7. t = read BY <1>2, <1>4, <1>6 DEF Loaded
<1> HIDE DEF t
<1>8. q.s = read /\ q.pix = w /\ q = [r EXCEPT !.s = q.s, !.pix = q.pix] BY <1>1, <1>4, <1>7 DEF LoopFields
<1>9. \A ix, k, j : Extent(s.page, ix, k, j) => Extent(View(read, w), ix, k, j)
  BY <1>6, RenameExtent DEF Loaded
<1>10. SameFiles(s, read) /\ read.res = "OK" BY <1>4 DEF Still, Alike, SameFiles
<1>11. Entered(s, read, w, f, cur, span) BY <1>2, <1>4, <1>6, <1>9, <1>10 DEF Entered, Loaded
<1> QED BY <1>4, <1>8, <1>11 DEF q

\* The cursor of the descriptor goes to the index page in work.
LEMMA CursorBusy ==
  ASSUME NEW s, NEW w, NEW cur, Busy(s, w, cur), NEW f \in Fds, s.fds[f].open, s.fds[f].id = s.work.lu,
         NEW k, k = s.work.span
  PROVE  LET t == SetCursor(s, f, w, k)
         IN /\ Busy(t, w, cur) /\ View(t, w) = View(s, w) /\ SameFiles(s, t) /\ OnlyFds(s, t)
<1> DEFINE t == SetCursor(s, f, w, k)  P == View(s, w)
<1>1. /\ Sound(s) /\ DOMAIN s = StateFields /\ w \in Pages /\ FdsOK(s.fds, P, cur) /\ Forest(P, cur)
      /\ Live(s.page, w) /\ s.work.lu = s.page[w].lu
  BY DEF Busy, Sound, Flash
<1>2. P[w] = s.work /\ Live(P, w) BY <1>1, ViewPage
<1> HIDE DEF P
<1>3. k \in Nat BY <1>1, <1>2 DEF Forest, Shaped, Shape
<1>4. OnlyFds(s, t) /\ t.fds = [s.fds EXCEPT ![f].cursor_objix_pix = w, ![f].cursor_objix_spix = k]
  BY <1>1, SetCursorOnly
<1> HIDE DEF t
<1>5. FdsOK(t.fds, P, cur)
  <2> DEFINE F == s.fds  G == t.fds
  <2>1. FdsOK(F, P, cur) /\ F[f].open /\ P[w].lu = F[f].id /\ P[w].span = k BY <1>1, <1>2
  <2>2. G = [F EXCEPT ![f].cursor_objix_pix = w, ![f].cursor_objix_spix = k] BY <1>4
  <2> HIDE DEF F, G
  <2>3. FdsOK(G, P, cur) BY <1>1, <1>2, <1>3, <2>1, <2>2, CursorFds
  <2> QED BY <2>3 DEF G
<1>6. Busy(t, w, cur) /\ View(t, w) = P BY <1>4, <1>5, OnlyFdsBusy DEF P
<1>7. SameFiles(s, t)
  <2>1. DOMAIN s.fds = Fds /\ \A g \in Fds : DOMAIN s.fds[g] = FdFields BY <1>1 DEF FdsOK, FdsTyped
  <2>2. t.page = s.page /\ t.starved = s.starved BY <1>4 DEF OnlyFds, Alike
  <2> QED BY <2>1, <2>2, <1>4 DEF SameFiles, FdFields
<1> QED BY <1>4, <1>6, <1>7 DEF t, P

-----------------------------------------------------------------------------

\* Data page q is written anew at t.pix, the old page is deleted, and the work page knows.
Swapped(s, u, w, q, x) ==
  /\ Busy(u, w, 0) /\ u.res = "OK" /\ u.fds = s.fds /\ u.starved = s.starved
  /\ u.work.lu = s.work.lu /\ u.work.span = s.work.span
  /\ Renamed(View(s, w), View(u, w), q, x, 0)

\* A data page is replaced: its object has the new one in its place.
LEMMA SwapData ==
  ASSUME NEW s, NEW w, Busy(s, w, 0), NEW q \in Pages, Live(s.page, q), ~IsIx(s.page[q].lu),
         s.page[q].lu + IX_FLAG = s.work.lu, IxSpan(s.page[q].span) = s.work.span,
         NEW pg, PageOf(pg, s.page[q].lu, s.page[q].span, {}), NEW t, Occupied(s, t, pg),
         NEW e, e = IxEntry(s.page[q].span)
  PROVE  Swapped(s, [page_delete(t, q) EXCEPT !.work.ix[e] = t.pix], w, q, t.pix)
<1> DEFINE d == page_delete(t, q)
           u == [d EXCEPT !.work.ix[e] = t.pix]
           x == t.pix
           P == View(s, w)
           Q == View(u, w)
<1>1. /\ Sound(s) /\ Layout(s) /\ w \in Pages /\ Live(s.page, w) /\ DOMAIN s.work = PageFields
      /\ Forest(P, 0) /\ s.work.lu = s.page[w].lu /\ IsIx(s.work.lu) /\ Shape(s.page[w], 0)
      /\ s.work.span = s.page[w].span /\ FdsOK(s.fds, P, 0)
  BY DEF Busy
<1>2. /\ P[w] = s.work /\ \A p \in Pages : p # w => P[p] = s.page[p]
      /\ \A p \in Pages : Live(P, p) <=> Live(s.page, p)
  BY <1>1, ViewPage
<1> HIDE DEF P
<1>3. q # w BY <1>1
<1>4. /\ Shape(s.page[q], 0) /\ Shape(s.work, 0) /\ s.page[q].span \in Nat /\ s.page[q].lu \in LiveIds
  BY <1>1, <1>2, <1>3 DEF Forest, Shaped, Shape
<1>5. Shape(pg, 0) /\ pg.lu = s.page[q].lu /\ pg.span = s.page[q].span /\ DOMAIN pg = PageFields
  <2>1. IsIx(pg.lu) = FALSE BY <1>4 DEF PageOf, Shape
  <2>2. pg.flags = {"USED", "FINAL"} BY DEF PageOf
  <2>3. ("INDEX" \in pg.flags) = FALSE /\ ("IXDELE" \in pg.flags) = FALSE /\ "DELET" \notin pg.flags
        /\ {"FINAL", "USED"} \subseteq pg.flags
    BY <2>2
  <2> QED BY <1>4, <2>1, <2>3 DEF PageOf, Shape
<1>6. /\ Sound(t) /\ t.fds = s.fds /\ t.work = s.work /\ t.cleaning = s.cleaning /\ t.res = "OK" /\ x \in Pages
      /\ ~Live(s.page, x) /\ t.page[x] = pg /\ t.starved = s.starved /\ Layout(t)
      /\ \A p \in Pages : p # x /\ (Live(s.page, p) \/ Live(t.page, p)) => t.page[p] = s.page[p]
      /\ \A p \in Pages : Live(s.page, p) => t.page[p] = s.page[p]
  BY <1>1 DEF Occupied, Same, Untouched
<1>7. Live(t.page, q) /\ x # q /\ x # w /\ Live(t.page, x) /\ t.page[q] = s.page[q] /\ t.page[w] = s.page[w]
  BY <1>1, <1>4, <1>5, <1>6, LiveId DEF Live
<1> HIDE DEF x
<1>8. /\ Sound(d) /\ d.page = [t.page EXCEPT ![q] = DeletedPage] /\ Same(t, d) /\ d.res = "OK"
      /\ d.starved = s.starved /\ d.free_cursor = t.free_cursor
  BY <1>6, <1>7, PageDelete
<1> HIDE DEF d
<1>9. Layout(d) BY <1>6, <1>7, <1>8, DeleteLayout DEF Sound, Flash
<1>10. /\ Alike(d, u) /\ u.cleaning = d.cleaning /\ u.fds = d.fds /\ u.starved = d.starved
       /\ u.free_cursor = d.free_cursor /\ u.res = d.res
       /\ u.work = [s.work EXCEPT !.ix[e] = x]
  BY <1>6, <1>8 DEF Alike, Sound, Flash, StateFields, Same, x
<1> HIDE DEF u
<1>11. e \in Entries /\ DOMAIN s.work.ix = Entries BY <1>1, <1>4, SpanType DEF Entries, Shape
<1>12. /\ DOMAIN u.work = PageFields /\ u.work.lu = s.work.lu /\ u.work.span = s.work.span
       /\ u.work.size = s.work.size /\ u.work.id = s.work.id /\ u.work.flags = s.work.flags
       /\ u.work.ix = [s.work.ix EXCEPT ![e] = x]
  BY <1>1, <1>10 DEF PageFields
<1>13. Sound(u) /\ Layout(u) /\ u.page = d.page
  BY <1>8, <1>9, <1>10, AlikeSound DEF Alike, Layout, CursorOK
<1>14. /\ \A p \in Pages : p # q => u.page[p] = t.page[p]
       /\ u.page[q] = DeletedPage /\ ~Live(u.page, q)
  BY <1>6, <1>8, <1>13, Blanks DEF Sound, Flash, Live
<1>15. Live(u.page, w) /\ u.page[w] = s.page[w] /\ Live(u.page, x) /\ u.page[x] = pg
  BY <1>1, <1>3, <1>6, <1>7, <1>14 DEF Live, x
<1>16. /\ Q[w] = u.work /\ \A p \in Pages : p # w => Q[p] = u.page[p]
       /\ \A p \in Pages : Live(Q, p) <=> Live(u.page, p)
  BY <1>1, <1>12, <1>13, <1>15, ViewPage
<1> HIDE DEF Q
<1>17. Shape(u.work, 0) BY <1>4, <1>11, <1>12 DEF Shape
<1>18. \A i \in Entries : Q[w].ix[i] = IF i = e THEN x ELSE P[w].ix[i]
  BY <1>2, <1>11, <1>12, <1>16
<1>19. Besides(P, Q, {w, q, x})
  <2> SUFFICES ASSUME NEW p \in Pages \ {w, q, x}
               PROVE  (Live(Q, p) <=> Live(P, p)) /\ (Live(P, p) => Q[p] = P[p])
    BY DEF Besides
  <2>1. u.page[p] = t.page[p] /\ Q[p] = u.page[p] /\ P[p] = s.page[p] BY <1>2, <1>14, <1>16
  <2>2. Live(s.page, p) \/ Live(t.page, p) => t.page[p] = s.page[p] BY <1>6 DEF x
  <2>3. Live(Q, p) <=> Live(t.page, p) BY <2>1 DEF Live
  <2>4. Live(P, p) <=> Live(s.page, p) BY <1>2
  <2> QED BY <2>1, <2>2, <2>3, <2>4 DEF Live
<1>20. DataGoes(P, Q, w, q, x, 0)
  <2>1. Live(P, w) /\ Live(Q, w) /\ Live(P, q) /\ ~Live(Q, q) /\ ~Live(P, x) /\ Live(Q, x)
    BY <1>1, <1>2, <1>6, <1>14, <1>15, <1>16 DEF x
  <2>2. P[w].lu = P[q].lu + IX_FLAG /\ P[w].span = IxSpan(P[q].span) /\ P[q] = s.page[q] /\ Q[x] = pg
    BY <1>2, <1>3, <1>7, <1>15, <1>16, <1>6 DEF x
  <2>3. Q[w].lu = P[w].lu /\ Q[w].span = P[w].span /\ Q[w].size = P[w].size /\ Shape(Q[w], 0)
    BY <1>2, <1>12, <1>16, <1>17
  <2> QED BY <1>1, <1>5, <1>6, <1>18, <1>19, <2>1, <2>2, <2>3 DEF DataGoes, x
<1>21. Renamed(P, Q, q, x, 0) /\ IxStay(P, Q, 0) BY <1>1, <1>20, RelocateData
<1>22. Forest(Q, 0) /\ FdsOK(u.fds, Q, 0)
  <2>1. u.fds = s.fds BY <1>6, <1>8, <1>10 DEF Same
  <2> QED BY <1>1, <1>21, <2>1, RenameForest, FdsStay
<1>23. Busy(u, w, 0) BY <1>1, <1>12, <1>13, <1>15, <1>22 DEF Busy, Q
<1>24. Swapped(s, u, w, q, x) BY <1>6, <1>8, <1>10, <1>12, <1>21, <1>23 DEF Swapped, P, Q, Same
<1> QED BY <1>24 DEF u, d, x

\* The object that descriptor f is on has n data pages and m index pages, its size says
\* so, and index page w of it is in work.
Held(s, w, f, id, n, m, len) ==
  /\ Busy(s, w, 0) /\ s.work.lu = id /\ Extent(View(s, w), id, n, m)
  /\ s.fds[f].open /\ s.fds[f].id = id /\ Length(s.fds[f].size) = len

\* A step that found no page.
Fails(s) == s.res # "OK" /\ s.starved

\* An index id is that of the object's data pages with the flag.
LEMMA IndexOf ==
  ASSUME NEW lu \in LiveIds, lu + IX_FLAG \in IxIds
  PROVE  (lu + IX_FLAG) % IX_FLAG = lu
<1>1. lu \in Nat /\ lu + IX_FLAG < FREE BY DEF IxIds, LiveIds
<1>2. lu < IX_FLAG BY <1>1 DEF FREE, IX_FLAG
<1> QED BY <1>1, <1>2 DEF IX_FLAG

Changed(r, q, w, f, id, n, m, len, c) ==
  /\ q = [r EXCEPT !.s = q.s, !.written = IF q.s.res = "OK" THEN r.written + Len(c.bytes) ELSE r.written]
  /\ Held(q.s, w, f, id, n, m, len) /\ q.s.work.span = r.s.work.span
  /\ q.s.res = "OK" \/ Fails(q.s)

\* One data page of a modification.
LEMMA ModifyChunkHeld ==
  ASSUME NEW r, DOMAIN r = LoopFields, NEW w, NEW f \in Fds, NEW id, NEW n \in Nat, NEW m, NEW len,
         Held(r.s, w, f, id, n, m, len), r.s.res = "OK", NEW c, c.span \in 0 .. n - 1, r.s.work.span = IxSpan(c.span)
  PROVE  Changed(r, ModifyChunk(r, f, c), w, f, id, n, m, len, c)
<1> DEFINE s == r.s
           k == c.span
           e == IxEntry(k)
           old == s.work.ix[e]
           lid == s.fds[f].id % IX_FLAG
           data == [i \in 1 .. DATA_PAGE_SIZE |->
                      IF i > c.offs /\ i <= c.offs + Len(c.bytes) THEN c.bytes[i - c.offs]
                      ELSE s.page[old].data[i - 1]]
           first == IF Len(c.bytes) = DATA_PAGE_SIZE THEN s ELSE page_data_check(s, old, k)
           t == page_allocate_data(s, lid, k, {}, data)
           u == IF t.res = "OK" THEN [page_delete(t, old) EXCEPT !.work.ix[e] = t.pix] ELSE t
           q == [r EXCEPT !.s = u, !.written = IF u.res = "OK" THEN @ + Len(c.bytes) ELSE @]
<1>1. /\ Busy(s, w, 0) /\ s.work.lu = id /\ Extent(View(s, w), id, n, m) /\ Sound(s)
      /\ s.fds[f].open /\ s.fds[f].id = id /\ Length(s.fds[f].size) = len /\ s.work.span = IxSpan(k)
      /\ k \in Nat /\ k < n
  BY DEF Held, Busy
<1>2. /\ old \in Pages /\ old # w /\ Live(s.page, old) /\ s.page[old].lu + IX_FLAG = id /\ s.page[old].span = k
      /\ ~IsIx(s.page[old].lu) /\ Shape(s.page[old], 0)
  <2> HIDE DEF s, k, e
  <2> QED BY <1>1, NamedPage DEF e
<1> HIDE DEF old
<1>3. first = s
  <2>1. page_data_check(s, old, k) = s BY <1>2, DataPasses
  <2> QED BY <2>1
<1>4. lid = s.page[old].lu /\ lid \in LiveIds /\ id \in IxIds
  <2>1. id \in IxIds BY <1>1 DEF Busy, FdsOK, FdOK
  <2>2. s.page[old].lu \in LiveIds BY <1>2 DEF Shape
  <2>3. (s.page[old].lu + IX_FLAG) % IX_FLAG = s.page[old].lu BY <1>2, <2>1, <2>2, IndexOf
  <2> QED BY <1>1, <1>2, <2>1, <2>2, <2>3
<1>5. ModifyChunk(r, f, c) = IF first.res # "OK" THEN [r EXCEPT !.s = first, !.ret = TRUE] ELSE
         With(LAMBDA v : [r EXCEPT !.s = v, !.written = IF v.res = "OK" THEN @ + Len(c.bytes) ELSE @],
              Then(page_allocate_data(first, lid, k, {}, data),
                   LAMBDA v : [page_delete(v, old) EXCEPT !.work.ix[e] = v.pix]))
  BY DEF ModifyChunk, With, old
<1>6. ModifyChunk(r, f, c) = q
  <2> HIDE DEF first, data, lid, k, e
  <2> QED BY <1>3, <1>5 DEF Then, With
<1> HIDE DEF data, first
<1>7. Allocated(s, t, lid, k, {}) BY <1>1, <1>4, AllocateData
<1> HIDE DEF t
<1>8. CASE NotFound(s, t)
  <2>1. Busy(t, w, 0) /\ t.starved /\ t.res # "OK" /\ t.fds = s.fds /\ t.work = s.work
    BY <1>1, <1>8, NotFoundBusy
  <2>2. Extent(View(t, w), id, n, m)
    <3>1. SameLive(View(s, w), View(t, w))
      <4>1. SameLive(s.page, t.page) BY <1>8 DEF NotFound
      <4>2. /\ Sound(s) /\ w \in Pages /\ Live(s.page, w) /\ s.work.lu = s.page[w].lu BY <1>1 DEF Busy
      <4>3. /\ Sound(t) /\ Live(t.page, w) /\ t.work.lu = t.page[w].lu BY <2>1 DEF Busy
      <4>4. /\ View(s, w)[w] = s.work /\ \A p \in Pages : p # w => View(s, w)[p] = s.page[p]
            /\ \A p \in Pages : Live(View(s, w), p) <=> Live(s.page, p)
        BY <4>2, ViewPage
      <4>5. /\ View(t, w)[w] = t.work /\ \A p \in Pages : p # w => View(t, w)[p] = t.page[p]
            /\ \A p \in Pages : Live(View(t, w), p) <=> Live(t.page, p)
        BY <4>2, <4>3, ViewPage
      <4> DEFINE A == View(s, w)  B == View(t, w)
      <4>6. \A p \in Pages : Live(A, p) \/ Live(B, p) => B[p] = A[p]
        BY <2>1, <4>1, <4>2, <4>4, <4>5 DEF SameLive
      <4> QED BY <4>6 DEF SameLive
    <3>2. Forest(View(s, w), 0) BY <1>1 DEF Busy
    <3> QED BY <1>1, <3>1, <3>2, SameForest
  <2>3. u = t BY <2>1
  <2> HIDE DEF u
  <2>4. q = [r EXCEPT !.s = q.s, !.written = IF q.s.res = "OK" THEN r.written + Len(c.bytes) ELSE r.written] /\ q.s = t
    BY <2>3 DEF LoopFields
  <2> HIDE DEF q
  <2>5. Held(t, w, f, id, n, m, len) /\ t.work.span = s.work.span /\ Fails(t)
    BY <1>1, <2>1, <2>2 DEF Held, Fails
  <2> QED BY <1>6, <2>4, <2>5 DEF Changed
<1>9. ASSUME NEW pg, PageOf(pg, lid, k, {}), Occupied(s, t, pg)
      PROVE  Changed(r, ModifyChunk(r, f, c), w, f, id, n, m, len, c)
  <2>1. t.res = "OK" BY <1>9 DEF Occupied
  <2>2. Swapped(s, [page_delete(t, old) EXCEPT !.work.ix[e] = t.pix], w, old, t.pix)
    BY <1>1, <1>2, <1>4, <1>9, SwapData
  <2>3. Swapped(s, u, w, old, t.pix) BY <2>1, <2>2
  <2> HIDE DEF u
  <2>4. Extent(View(u, w), id, n, m) BY <1>1, <2>3, RenameExtent DEF Swapped
  <2>5. Held(u, w, f, id, n, m, len) /\ u.work.span = s.work.span /\ u.res = "OK"
    BY <1>1, <2>3, <2>4 DEF Held, Swapped
  <2>6. q = [r EXCEPT !.s = q.s, !.written = IF q.s.res = "OK" THEN r.written + Len(c.bytes) ELSE r.written] /\ q.s = u
    BY DEF LoopFields
  <2> HIDE DEF q
  <2> QED BY <1>6, <2>5, <2>6 DEF Changed
<1> QED BY <1>7, <1>8, <1>9 DEF Allocated

\* The index page in work is on the flash, at t.pix.
Back(t, f, id, n, m, len, span) ==
  /\ Settled(t, 0) /\ t.res = "OK" /\ Extent(t.page, id, n, m)
  /\ t.fds[f].open /\ t.fds[f].id = id /\ Length(t.fds[f].size) = len
  /\ t.pix \in Pages /\ Live(t.page, t.pix) /\ t.page[t.pix].lu = id /\ t.page[t.pix].span = span

\* What the event tells a descriptor of the object.
LEMMA ToldFd ==
  ASSUME NEW F, NEW G, NEW id, NEW spix, NEW p, NEW size, Told(F, G, "UPD", id, spix, p, size),
         NEW f \in Fds, F[f].open
  PROVE  /\ G[f].open /\ G[f].id = F[f].id
         /\ G[f].size = IF F[f].id = id /\ spix = 0 /\ size # 0 THEN size ELSE F[f].size
<1>1. Follows(F[f], G[f], "UPD", id, spix, p, size) BY DEF Told
<1>2. CASE F[f].id # id BY <1>1, <1>2 DEF Follows
<1>3. CASE F[f].id = id BY <1>1, <1>3 DEF Follows
<1> QED BY <1>2, <1>3

\* The header of the object in work is the page the descriptor says.
LEMMA WorkHeader ==
  ASSUME NEW s, NEW w, NEW cur, Busy(s, w, cur), NEW f \in Fds, s.fds[f].open, s.fds[f].id = s.work.lu,
         s.work.span = 0
  PROVE  s.fds[f].objix_hdr_pix = w
<1> DEFINE P == View(s, w)  h == s.fds[f].objix_hdr_pix
<1>1. /\ Sound(s) /\ w \in Pages /\ Live(s.page, w) /\ s.work.lu = s.page[w].lu /\ Forest(P, cur) /\ FdsOK(s.fds, P, cur)
  BY DEF Busy
<1>2. P[w] = s.work /\ Live(P, w) BY <1>1, ViewPage
<1> HIDE DEF P
<1>3. h \in Pages /\ Live(P, h) /\ P[h].lu = s.fds[f].id /\ P[h].span = 0 BY <1>1 DEF FdsOK, FdOK, IsHeader
<1> HIDE DEF h
<1> QED BY <1>1, <1>2, <1>3 DEF Forest, OneVersion, h

\* The index page in work is stored when a modification leaves it.
LEMMA StoreModifiedBack ==
  ASSUME NEW s, NEW w, NEW f \in Fds, NEW id, NEW n, NEW m, NEW len, Held(s, w, f, id, n, m, len), s.res = "OK",
         NEW span, span = s.work.span
  PROVE  LET t == StoreModified(s, f, w, span) IN Stopped(t) \/ Back(t, f, id, n, m, len, span)
<1> DEFINE P == View(s, w)
<1>1. /\ Busy(s, w, 0) /\ s.work.lu = id /\ Extent(P, id, n, m)
      /\ s.fds[f].open /\ s.fds[f].id = id /\ Length(s.fds[f].size) = len
  BY DEF Held
<1>2. /\ Sound(s) /\ w \in Pages /\ Live(s.page, w) /\ s.work.lu = s.page[w].lu /\ Forest(P, 0) /\ FdsOK(s.fds, P, 0)
      /\ Shape(s.page[w], 0) /\ IsIx(id) /\ s.work.span = s.page[w].span
  BY <1>1 DEF Busy
<1>3. P[w] = s.work /\ Live(P, w) BY <1>2, ViewPage
<1> HIDE DEF P
<1>4. id \in IxIds /\ id # 0 BY <1>1, <1>2, LiveId DEF FdsOK, FdOK, IxIds
<1>5. CASE span = 0
  <2> DEFINE t == update_index_hdr(s, f, s.work.lu, w, s.work, NoName, 0)
  <2>1. s.fds[f].objix_hdr_pix = w BY <1>1, <1>5, WorkHeader
  <2>2. StoreModified(s, f, w, span) = t BY <1>1, <1>5, <2>1 DEF StoreModified
  <2>3. Stopped(t) \/ HeaderPut(P, s.fds, t, id, 0, s.work.size)
    <3>1. s.work.lu # 0 /\ 0 \in Nat BY <1>1, <1>4
    <3>2. LET v == update_index_hdr(s, f, s.work.lu, w, s.work, NoName, 0)
          IN Stopped(v) \/ HeaderPut(View(s, w), s.fds, v, s.work.lu, 0, IF 0 # 0 THEN 0 ELSE s.work.size)
      BY <1>1, <1>5, <3>1, PutBusy
    <3> QED BY <3>2, <1>1 DEF P
  <2> HIDE DEF t
  <2>4. ASSUME HeaderPut(P, s.fds, t, id, 0, s.work.size) PROVE Back(t, f, id, n, m, len, span)
    <3>1. /\ Settled(t, 0) /\ t.res = "OK" /\ t.pix \in Pages /\ IsHeader(t.page, t.pix) /\ t.page[t.pix].lu = id
          /\ Told(s.fds, t.fds, "UPD", id, 0, t.pix, s.work.size) /\ Extent(t.page, id, n, m)
      BY <1>1, <2>4 DEF HeaderPut
    <3>2. t.fds[f].open /\ t.fds[f].id = id /\ t.fds[f].size = IF s.work.size # 0 THEN s.work.size ELSE s.fds[f].size
      BY <1>1, <3>1, ToldFd
    <3>3. Length(s.fds[f].size) = Length(s.work.size)
      BY <1>1, <1>2, <1>3, <1>4, <2>1 DEF FdsOK, FdOK
    <3>4. Length(t.fds[f].size) = len BY <1>1, <3>2, <3>3
    <3> QED BY <1>5, <3>1, <3>2, <3>4 DEF Back, IsHeader
  <2> QED BY <2>2, <2>3, <2>4
<1>6. CASE span # 0
  <2> DEFINE c == page_move(s, s.work, id, w)
             t == cb_object_event(c, "UPD", id, s.work.span, c.pix, 0)
  <2>1. page_index_check(s, w, span) = s
    <3>1. w # FREE BY <1>2, PageRange
    <3>2. Validate(s, s.page[w], TRUE, span) = s BY <1>1, <1>2, IndexPasses
    <3> QED BY <3>1, <3>2 DEF page_index_check
  <2>2. c.res # "OK" => Stopped(c)
    <3> HIDE DEF c
    <3> QED BY <1>1, PlaceIndex DEF c
  <2>3. c.res = "OK" => Placed(s, t, w, 0, 0)
    <3>1. 0 \in Nat OBVIOUS
    <3>2. LET a == page_move(s, s.work, s.work.lu, w)
              b == cb_object_event(a, "UPD", s.work.lu, s.work.span, a.pix, 0)
          IN a.res = "OK" => Placed(s, b, w, 0, 0)
      BY <1>1, <3>1, PlaceIndex
    <3> QED BY <3>2, <1>1
  <2>4. StoreModified(s, f, w, span) = IF c.res = "OK" THEN cb_object_event(c, "UPD", c.fds[f].id, c.work.span, c.pix, 0) ELSE c
    BY <1>1, <1>6, <2>1 DEF StoreModified, Then, With
  <2>5. c.res = "OK" => c.fds = s.fds /\ c.work = s.work
    <3>1. MoveOK(s, c, [s.work EXCEPT !.lu = id], w)
      BY <1>1, <1>2, <1>4, PageMove DEF Busy, IxIds
    <3> HIDE DEF c
    <3> QED BY <3>1 DEF MoveOK, Moved, NotFound, Same
  <2>6. StoreModified(s, f, w, span) = IF c.res = "OK" THEN t ELSE c BY <1>1, <2>4, <2>5
  <2> HIDE DEF t
  <2>7. ASSUME Placed(s, t, w, 0, 0) PROVE Back(t, f, id, n, m, len, span)
    <3>1. /\ Settled(t, 0) /\ t.res = "OK" /\ t.pix \in Pages /\ Renamed(P, t.page, w, t.pix, 0)
          /\ Told(s.fds, t.fds, "UPD", id, span, t.pix, 0)
      BY <1>1, <2>7 DEF Placed, P
    <3>2. t.fds[f].open /\ t.fds[f].id = id /\ t.fds[f].size = s.fds[f].size BY <1>1, <1>6, <3>1, ToldFd
    <3>3. Extent(t.page, id, n, m) BY <1>1, <3>1, RenameExtent
    <3>4. Live(t.page, t.pix) /\ t.page[t.pix].lu = id /\ t.page[t.pix].span = span
      BY <1>1, <1>3, <3>1 DEF Renamed, Alt
    <3> QED BY <1>1, <3>1, <3>2, <3>3, <3>4 DEF Back
  <2> QED BY <2>2, <2>3, <2>6, <2>7
<1> QED BY <1>5, <1>6

-----------------------------------------------------------------------------

\* A modification goes over the index pages in order. Before it every page is in its
\* place. In it the index page of data page "last" is in work. A step that found no page
\* leaves the loop, or ends the call.
Whole(s, f, id, n, m, len) ==
  /\ Settled(s, 0) /\ s.res = "OK" /\ Extent(s.page, id, n, m)
  /\ s.fds[f].open /\ s.fds[f].id = id /\ Length(s.fds[f].size) = len

NotYet(r, f, id, n, m, len) ==
  /\ ~r.ret /\ r.prev = -1 /\ r.span = 0 /\ r.written = 0
  /\ r.pix = r.s.fds[f].objix_hdr_pix /\ Whole(r.s, f, id, n, m, len)

Holding(r, f, id, n, m, len, span) ==
  /\ ~r.ret /\ r.prev = span /\ r.span = span /\ r.written \in Nat
  /\ Held(r.s, r.pix, f, id, n, m, len) /\ r.s.res = "OK" /\ r.s.work.span = span

Failing(r, f, id, n, m, len) ==
  ~r.ret /\ Held(r.s, r.pix, f, id, n, m, len) /\ Fails(r.s) /\ r.s.work.span = r.span

Modifying(r, f, id, n, m, len, last) ==
  /\ DOMAIN r = LoopFields
  /\ \/ Broken(r)
     \/ Failing(r, f, id, n, m, len)
     \/ Holding(r, f, id, n, m, len, IxSpan(last)) /\ r.written # 0

\* The index page of the next span is in work.
LEMMA SwitchModifyOn ==
  ASSUME NEW r, DOMAIN r = LoopFields, NEW f \in Fds, NEW id, NEW n, NEW m \in Nat, NEW len,
         NEW span \in Nat, span < m, NEW before, span # before,
         \/ NotYet(r, f, id, n, m, len)
         \/ Holding(r, f, id, n, m, len, before) /\ r.written # 0 /\ span # 0
  PROVE  LET q == SwitchModify(r, f, span)
         IN DOMAIN q = LoopFields /\ (Broken(q) \/ Holding(q, f, id, n, m, len, span))
<1> DEFINE q0 == IF r.written > 0 THEN [r EXCEPT !.s = StoreModified(r.s, f, r.pix, r.prev)] ELSE r
           e == LoadIndex(q0, f, span)
           g == IF e.s.res # "OK" THEN e ELSE [e EXCEPT !.s = SetCursor(e.s, f, e.pix, span)]
           q1 == IF q0.s.res # "OK" THEN q0 ELSE [g EXCEPT !.prev = span, !.span = span]
           q == [q1 EXCEPT !.ret = q1.s.res # "OK"]
<1>1. SwitchModify(r, f, span) = q
  <2> DEFINE Enter(x) == IF x.s.res # "OK" THEN x ELSE [x EXCEPT !.s = SetCursor(x.s, f, x.pix, span)]
             Go(x) == IF x.s.res # "OK" THEN x
                      ELSE [With(Enter, LoadIndex(x, f, span)) EXCEPT !.prev = span, !.span = span]
  <2>1. SwitchModify(r, f, span) = With(Returning, With(Go, IF r.written > 0
                                THEN [r EXCEPT !.s = StoreModified(r.s, f, r.pix, r.prev)] ELSE r))
    BY DEF SwitchModify
  <2>2. With(Go, q0) = q1
    <3> HIDE DEF e, q0
    <3>1. With(Enter, e) = g BY DEF With
    <3> HIDE DEF Enter, g
    <3> QED BY <3>1 DEF With, e
  <2> HIDE DEF Go, q1
  <2> QED BY <2>1, <2>2 DEF q0, With, Returning
<1>2. /\ DOMAIN q0 = LoopFields /\ ~q0.ret /\ q0.written \in Nat
      /\ Stopped(q0.s) \/ (Whole(q0.s, f, id, n, m, len) /\ (span = 0 => q0.pix = q0.s.fds[f].objix_hdr_pix))
  <2>1. CASE NotYet(r, f, id, n, m, len)
    <3>1. q0 = r BY <2>1 DEF NotYet
    <3> HIDE DEF q0
    <3> QED BY <2>1, <3>1 DEF NotYet
  <2>2. CASE Holding(r, f, id, n, m, len, before) /\ r.written # 0 /\ span # 0
    <3> DEFINE v == StoreModified(r.s, f, r.pix, r.prev)
    <3>1. q0 = [r EXCEPT !.s = v] BY <2>2 DEF Holding
    <3>2. Stopped(v) \/ Back(v, f, id, n, m, len, r.prev)
      <4>1. Held(r.s, r.pix, f, id, n, m, len) /\ r.s.res = "OK" /\ r.prev = r.s.work.span BY <2>2 DEF Holding
      <4> DEFINE s == r.s  w == r.pix  k == r.prev
      <4>2. Held(s, w, f, id, n, m, len) /\ s.res = "OK" /\ k = s.work.span BY <4>1
      <4> HIDE DEF s, w, k
      <4>3. LET t == StoreModified(s, f, w, k) IN Stopped(t) \/ Back(t, f, id, n, m, len, k)
        BY <4>2, StoreModifiedBack
      <4> QED BY <4>3 DEF s, w, k
    <3> HIDE DEF q0, v
    <3>3. DOMAIN q0 = LoopFields /\ q0.ret = r.ret /\ q0.written = r.written /\ q0.s = v
      BY <3>1 DEF LoopFields
    <3> QED BY <2>2, <3>2, <3>3 DEF Holding, Back, Whole
  <2> QED BY <2>1, <2>2
<1> HIDE DEF q0
<1>3. CASE q0.s.res # "OK"
  <2>1. Stopped(q0.s) BY <1>2, <1>3 DEF Whole
  <2>2. q = [q0 EXCEPT !.ret = TRUE] BY <1>3
  <2> HIDE DEF q
  <2>3. DOMAIN q = LoopFields /\ q.ret /\ q.s = q0.s BY <1>2, <2>2 DEF LoopFields
  <2> QED BY <1>1, <2>1, <2>3 DEF Broken
<1>4. CASE q0.s.res = "OK"
  <2>1. Whole(q0.s, f, id, n, m, len) /\ (span = 0 => q0.pix = q0.s.fds[f].objix_hdr_pix)
    BY <1>2, <1>4 DEF Stopped
  <2> DEFINE s == q0.s  w == e.pix  t == SetCursor(e.s, f, w, span)
  <2>2. /\ Settled(s, 0) /\ s.res = "OK" /\ s.fds[f].open /\ s.fds[f].id = id /\ Extent(s.page, id, n, m)
        /\ Length(s.fds[f].size) = len
    BY <2>1 DEF Whole
  <2>3. e = [q0 EXCEPT !.s = e.s, !.pix = w] /\ Entered(s, e.s, w, f, 0, span)
    <3>1. LET x == LoadIndex(q0, f, span)
          IN x = [q0 EXCEPT !.s = x.s, !.pix = x.pix] /\ Entered(q0.s, x.s, x.pix, f, 0, span) /\ x.s.fds = q0.s.fds
      BY <1>2, <2>1, <2>2, LoadIndexBusy
    <3> QED BY <3>1
  <2> HIDE DEF e
  <2>4. /\ Busy(e.s, w, 0) /\ e.s.res = "OK" /\ e.s.work.lu = id /\ Extent(View(e.s, w), id, n, m)
        /\ e.s.fds[f].open /\ e.s.fds[f].id = id /\ e.s.work.span = span /\ Length(e.s.fds[f].size) = len
    BY <2>2, <2>3 DEF Entered, SameFiles
  <2>5. Busy(t, w, 0) /\ View(t, w) = View(e.s, w) /\ SameFiles(e.s, t) /\ OnlyFds(e.s, t)
    <3> DEFINE x == e.s
    <3>1. Busy(x, w, 0) /\ x.fds[f].open /\ x.fds[f].id = x.work.lu /\ span = x.work.span BY <2>4
    <3> HIDE DEF x, w
    <3>2. LET y == SetCursor(x, f, w, span) IN Busy(y, w, 0) /\ View(y, w) = View(x, w) /\ SameFiles(x, y) /\ OnlyFds(x, y)
      BY <3>1, CursorBusy
    <3> QED BY <3>2 DEF x
  <2>6. q = [e EXCEPT !.s = t, !.prev = span, !.span = span, !.ret = FALSE]
    <3>1. g = [e EXCEPT !.s = t] BY <2>4
    <3> HIDE DEF g, t
    <3>2. DOMAIN e = LoopFields BY <1>2, <2>3 DEF LoopFields
    <3>3. q1 = [e EXCEPT !.s = t, !.prev = span, !.span = span] BY <1>4, <3>1
    <3> HIDE DEF q1
    <3>4. q1.s = t BY <3>2, <3>3 DEF LoopFields
    <3>5. t.res = "OK" BY <2>4, <2>5 DEF OnlyFds
    <3> QED BY <3>2, <3>3, <3>4, <3>5 DEF LoopFields
  <2> HIDE DEF q, t
  <2>7. DOMAIN q = LoopFields /\ q.ret = FALSE /\ q.prev = span /\ q.span = span /\ q.s = t /\ q.pix = w /\ q.written = q0.written
    <3>1. DOMAIN e = LoopFields /\ e.written = q0.written BY <1>2, <2>3 DEF LoopFields
    <3> HIDE DEF w
    <3>2. e.pix = w BY DEF w
    <3> QED BY <2>6, <3>1, <3>2 DEF LoopFields
  <2>8. Held(t, w, f, id, n, m, len) /\ t.res = "OK" /\ t.work.span = span
    BY <2>4, <2>5 DEF Held, OnlyFds, SameFiles
  <2>9. Holding(q, f, id, n, m, len, span) BY <1>2, <2>7, <2>8 DEF Holding
  <2> QED BY <1>1, <2>7, <2>9
<1> QED BY <1>3, <1>4

\* One chunk of a modification.
ModifyStep(r, c, f) ==
  IF ~Running(r) THEN r
  ELSE With(LAMBDA q : IF Running(q) THEN ModifyChunk(q, f, c) ELSE q,
            IF IxSpan(c.span) = r.prev THEN r ELSE SwitchModify(r, f, IxSpan(c.span)))

\* One step of a modification: the bytes of one data page.
LEMMA ModifyStepOn ==
  ASSUME NEW r, DOMAIN r = LoopFields, NEW f \in Fds, NEW id, NEW n \in Nat, NEW len,
         NEW c, c.span \in 0 .. n - 1, Len(c.bytes) \in Nat \ {0},
         \/ NotYet(r, f, id, n, IxCount(n), len)
         \/ c.span # 0 /\ Modifying(r, f, id, n, IxCount(n), len, c.span - 1)
  PROVE  Modifying(ModifyStep(r, c, f), f, id, n, IxCount(n), len, c.span)
<1> DEFINE m == IxCount(n)
           k == c.span
           span == IxSpan(k)
           q0 == IF span = r.prev THEN r ELSE SwitchModify(r, f, span)
<1>1. k \in Nat /\ k < n /\ span \in Nat
  <2>1. k \in Nat /\ k < n OBVIOUS
  <2> HIDE DEF k
  <2> QED BY <2>1, SpanType
<1>2. m \in Nat /\ span < m
  <2>1. n # 0 /\ n - 1 \in Nat /\ k <= n - 1 BY <1>1
  <2>2. m = IxSpan(n - 1) + 1 BY <2>1 DEF IxCount
  <2>3. IxSpan(n - 1) \in Nat BY <2>1, SpanType
  <2>4. span <= IxSpan(n - 1) BY <1>1, <2>1, SpanOrder
  <2> QED BY <1>1, <2>2, <2>3, <2>4
<1>3. ModifyStep(r, c, f) = IF ~Running(r) THEN r ELSE IF Running(q0) THEN ModifyChunk(q0, f, c) ELSE q0
  <2> HIDE DEF span
  <2> QED BY DEF ModifyStep, With, span
<1> HIDE DEF m
<1>4. CASE ~Running(r)
  <2>1. Modifying(r, f, id, n, m, len, k - 1) BY <1>4 DEF NotYet, Whole, Running, m
  <2>2. Broken(r) \/ Failing(r, f, id, n, m, len) BY <1>4, <2>1 DEF Modifying, Running, Holding
  <2> QED BY <1>3, <1>4, <2>2 DEF Modifying, m
<1>5. CASE Running(r)
  <2>1. DOMAIN q0 = LoopFields /\ (Broken(q0) \/ Holding(q0, f, id, n, m, len, span))
    <3>1. CASE NotYet(r, f, id, n, m, len)
      <4>1. span # -1 /\ r.prev = -1 BY <1>1, <3>1 DEF NotYet
      <4>2. q0 = SwitchModify(r, f, span) BY <4>1
      <4> HIDE DEF span, q0
      <4>3. LET q == SwitchModify(r, f, span)
            IN DOMAIN q = LoopFields /\ (Broken(q) \/ Holding(q, f, id, n, m, len, span))
        BY <1>1, <1>2, <3>1, <4>1, SwitchModifyOn
      <4> QED BY <4>2, <4>3
    <3>2. CASE k # 0 /\ Modifying(r, f, id, n, m, len, k - 1)
      <4> DEFINE before == IxSpan(k - 1)
      <4>1. Holding(r, f, id, n, m, len, before) /\ r.written # 0
        BY <1>5, <3>2 DEF Modifying, Running, Broken, Failing, Fails
      <4>2. before \in Nat /\ before <= span
        <5>1. k - 1 \in Nat /\ k - 1 <= k BY <1>1, <3>2
        <5> QED BY <1>1, <5>1, SpanType, SpanOrder
      <4> HIDE DEF before
      <4>3. r.prev = before BY <4>1 DEF Holding
      <4>4. CASE span = before
        <5>1. q0 = r BY <4>3, <4>4
        <5> QED BY <4>1, <4>4, <5>1
      <4>5. CASE span # before
        <5>1. span # 0 BY <1>1, <4>2, <4>5
        <5>2. q0 = SwitchModify(r, f, span) BY <4>3, <4>5
        <5> HIDE DEF span, q0
        <5>3. LET q == SwitchModify(r, f, span)
              IN DOMAIN q = LoopFields /\ (Broken(q) \/ Holding(q, f, id, n, m, len, span))
          BY <1>1, <1>2, <4>1, <4>5, <5>1, SwitchModifyOn
        <5> QED BY <5>2, <5>3
      <4> QED BY <4>4, <4>5
    <3> QED BY <3>1, <3>2 DEF m
  <2> HIDE DEF q0
  <2>2. CASE Broken(q0)
    <3>1. ~Running(q0) BY <2>2 DEF Broken, Running
    <3> QED BY <1>3, <1>5, <2>1, <2>2, <3>1 DEF Modifying, m
  <2>3. CASE Holding(q0, f, id, n, m, len, span)
    <3> DEFINE v == ModifyChunk(q0, f, c)
    <3>1. Running(q0) /\ Held(q0.s, q0.pix, f, id, n, m, len) /\ q0.s.work.span = span /\ q0.s.res = "OK"
      BY <2>3 DEF Holding, Running
    <3>2. Changed(q0, v, q0.pix, f, id, n, m, len, c)
      <4> HIDE DEF v
      <4> QED BY <2>1, <2>3, <3>1, ModifyChunkHeld DEF v, Holding
    <3>3. ModifyStep(r, c, f) = v BY <1>3, <1>5, <3>1
    <3> HIDE DEF v
    <3>4. /\ v = [q0 EXCEPT !.s = v.s, !.written = IF v.s.res = "OK" THEN q0.written + Len(c.bytes) ELSE q0.written]
          /\ Held(v.s, q0.pix, f, id, n, m, len) /\ v.s.work.span = span
          /\ v.s.res = "OK" \/ Fails(v.s)
      BY <2>3, <3>2 DEF Changed, Holding
    <3>5. /\ DOMAIN v = LoopFields /\ v.ret = q0.ret /\ v.prev = q0.prev /\ v.span = q0.span /\ v.pix = q0.pix
          /\ v.written = IF v.s.res = "OK" THEN q0.written + Len(c.bytes) ELSE q0.written
      BY <2>1, <3>4 DEF LoopFields
    <3>6. /\ ~v.ret /\ v.prev = span /\ v.span = span /\ q0.written \in Nat BY <2>3, <3>5 DEF Holding
    <3>7. CASE v.s.res = "OK"
      <4>1. v.written \in Nat /\ v.written # 0 BY <3>5, <3>6, <3>7
      <4>2. Holding(v, f, id, n, m, len, span) BY <3>4, <3>5, <3>6, <3>7, <4>1 DEF Holding
      <4> QED BY <3>3, <3>5, <4>1, <4>2 DEF Modifying, m
    <3>8. CASE Fails(v.s)
      <4>1. Failing(v, f, id, n, m, len) BY <3>4, <3>5, <3>6, <3>8 DEF Failing
      <4> QED BY <3>3, <3>5, <4>1 DEF Modifying, m
    <3> QED BY <3>4, <3>7, <3>8
  <2> QED BY <2>1, <2>2, <2>3
<1> QED BY <1>4, <1>5

-----------------------------------------------------------------------------

\* The data page a byte is in.
LEMMA SpanOf ==
  ASSUME NEW a \in Nat
  PROVE  /\ a \div DATA_PAGE_SIZE \in Nat
         /\ (a \div DATA_PAGE_SIZE) * DATA_PAGE_SIZE \in Nat
         /\ (a \div DATA_PAGE_SIZE) * DATA_PAGE_SIZE <= a
         /\ a < (a \div DATA_PAGE_SIZE + 1) * DATA_PAGE_SIZE
<1>1. DATA_PAGE_SIZE \in Nat \ {0} BY SizesAssumption
<1> DEFINE b == a \div DATA_PAGE_SIZE
<1>2. b \in Nat BY <1>1
<1>3. b * DATA_PAGE_SIZE \in Nat
  <2> HIDE DEF b
  <2> QED BY <1>1, <1>2
<1>4. b * DATA_PAGE_SIZE <= a /\ a < (b + 1) * DATA_PAGE_SIZE
  <2>1. a \div DATA_PAGE_SIZE = b OBVIOUS
  <2> HIDE DEF b
  <2> QED BY <1>1, <1>2, <2>1, Quotient
<1> QED BY <1>2, <1>3, <1>4

\* Pages in order have their bytes in order.
LEMMA PageOrder ==
  ASSUME NEW a \in Nat, NEW b \in Nat, a <= b
  PROVE  a * DATA_PAGE_SIZE \in Nat /\ b * DATA_PAGE_SIZE \in Nat /\ a * DATA_PAGE_SIZE <= b * DATA_PAGE_SIZE
<1>1. DATA_PAGE_SIZE \in Nat \ {0} BY SizesAssumption
<1> QED BY <1>1

\* The chunks of a write follow one another. Chunk k is for data page span and holds the
\* bytes from "at" up to "stop".
ChunkAt(c, span, at, stop) ==
  /\ c.span = span /\ c.at = at /\ c.offs = at % DATA_PAGE_SIZE
  /\ Len(c.bytes) \in Nat \ {0} /\ Len(c.bytes) = stop - at
  /\ at \in Nat /\ stop \in Nat

Cut(c, first, last, start, end) ==
  /\ first \in Nat /\ last \in Nat /\ first <= last /\ Len(c) = last - first + 1
  /\ \A k \in 1 .. last - first + 1 :
        ChunkAt(c[k], first + k - 1,
                IF k = 1 THEN start ELSE (first + k - 1) * DATA_PAGE_SIZE,
                IF first + k - 1 = last THEN end ELSE (first + k) * DATA_PAGE_SIZE)

\* The bytes of a write are cut at the boundaries of data pages.
LEMMA ChunksCut ==
  ASSUME NEW offset \in Nat, NEW bytes \in Seq(Nat), Len(bytes) > 0
  PROVE  Cut(Chunks(offset, bytes), offset \div DATA_PAGE_SIZE, (offset + Len(bytes) - 1) \div DATA_PAGE_SIZE,
             offset, offset + Len(bytes))
<1> DEFINE L == Len(bytes)
           end == offset + L
           first == offset \div DATA_PAGE_SIZE
           last == (offset + L - 1) \div DATA_PAGE_SIZE
           N == last - first + 1
           From(span) == IF span = first THEN offset ELSE span * DATA_PAGE_SIZE
           To(span) == IF span = last THEN end ELSE (span + 1) * DATA_PAGE_SIZE
           c == Chunks(offset, bytes)
<1>1. L \in Nat /\ L >= 1 /\ end \in Nat /\ end - 1 \in Nat /\ DATA_PAGE_SIZE \in Nat \ {0} BY SizesAssumption
<1>2. /\ first \in Nat /\ first * DATA_PAGE_SIZE \in Nat /\ first * DATA_PAGE_SIZE <= offset
      /\ offset < (first + 1) * DATA_PAGE_SIZE
  BY SpanOf
<1>3. /\ last \in Nat /\ last * DATA_PAGE_SIZE \in Nat /\ last * DATA_PAGE_SIZE <= end - 1
      /\ end - 1 < (last + 1) * DATA_PAGE_SIZE
  <2> DEFINE a == end - 1
  <2>1. a \in Nat BY <1>1
  <2> HIDE DEF a
  <2>2. /\ a \div DATA_PAGE_SIZE \in Nat /\ (a \div DATA_PAGE_SIZE) * DATA_PAGE_SIZE \in Nat
        /\ (a \div DATA_PAGE_SIZE) * DATA_PAGE_SIZE <= a
        /\ a < (a \div DATA_PAGE_SIZE + 1) * DATA_PAGE_SIZE
    BY <2>1, SpanOf
  <2> QED BY <2>2 DEF a
<1>4. c = [k \in 1 .. N |->
            [span |-> first + k - 1, offs |-> From(first + k - 1) % DATA_PAGE_SIZE, at |-> From(first + k - 1),
             bytes |-> SubSeq(bytes, From(first + k - 1) - offset + 1, To(first + k - 1) - offset)]]
  BY DEF Chunks
<1> HIDE DEF first, last, c
<1>5. first <= last
  <2> SUFFICES ASSUME last < first PROVE FALSE BY <1>2, <1>3
  <2>1. (last + 1) * DATA_PAGE_SIZE <= first * DATA_PAGE_SIZE
    <3>1. last + 1 \in Nat /\ last + 1 <= first BY <1>2, <1>3
    <3> DEFINE b == last + 1
    <3> HIDE DEF b
    <3>2. b * DATA_PAGE_SIZE <= first * DATA_PAGE_SIZE BY <1>2, <3>1, PageOrder DEF b
    <3> QED BY <3>2 DEF b
  <2>2. (last + 1) * DATA_PAGE_SIZE \in Int BY <1>1, <1>3
  <2>3. end - 1 < first * DATA_PAGE_SIZE BY <1>1, <1>2, <1>3, <2>1, <2>2
  <2> HIDE DEF end
  <2>4. end - 1 >= offset BY <1>1 DEF end
  <2> QED BY <1>1, <1>2, <2>3, <2>4
<1>6. N \in Nat /\ N >= 1 BY <1>2, <1>3, <1>5
<1> HIDE DEF L
<1>7. Len(c) = N
  <2> HIDE DEF N, From, To
  <2> QED BY <1>4, <1>6
<1>8. ASSUME NEW k \in 1 .. N
      PROVE  ChunkAt(c[k], first + k - 1, IF k = 1 THEN offset ELSE (first + k - 1) * DATA_PAGE_SIZE,
                     IF first + k - 1 = last THEN end ELSE (first + k) * DATA_PAGE_SIZE)
  <2> DEFINE span == first + k - 1
             at == From(span)
             stop == To(span)
  <2>1. span \in Nat /\ span <= last /\ first <= span /\ (span = first <=> k = 1) /\ span + 1 = first + k
        /\ span + 1 \in Nat
    BY <1>2, <1>3, <1>6
  <2>2. c[k].span = span /\ c[k].at = at /\ c[k].offs = at % DATA_PAGE_SIZE
        /\ c[k].bytes = SubSeq(bytes, at - offset + 1, stop - offset)
    BY <1>4
  <2> HIDE DEF span
  <2>3. at \in Nat /\ offset <= at
    <3>1. CASE span = first BY <3>1
    <3>2. CASE span # first
      <4>1. first + 1 <= span /\ first + 1 \in Nat BY <1>2, <2>1, <3>2
      <4> DEFINE b == first + 1
      <4>2. b \in Nat /\ b <= span BY <4>1
      <4> HIDE DEF b
      <4>3. b * DATA_PAGE_SIZE <= span * DATA_PAGE_SIZE /\ b * DATA_PAGE_SIZE \in Nat /\ span * DATA_PAGE_SIZE \in Nat
        BY <2>1, <4>2, PageOrder
      <4>4. offset < b * DATA_PAGE_SIZE BY <1>2 DEF b
      <4>5. at = span * DATA_PAGE_SIZE BY <3>2
      <4> QED BY <4>3, <4>4, <4>5
    <3> QED BY <3>1, <3>2
  <2>4. stop \in Nat /\ stop <= end
    <3>1. CASE span = last BY <1>1, <3>1
    <3>2. CASE span # last
      <4>1. span + 1 <= last BY <1>3, <2>1, <3>2
      <4> DEFINE b == span + 1
      <4>2. b \in Nat /\ b <= last BY <2>1, <4>1
      <4> HIDE DEF b
      <4>3. b * DATA_PAGE_SIZE <= last * DATA_PAGE_SIZE /\ b * DATA_PAGE_SIZE \in Nat
        BY <1>3, <4>2, PageOrder
      <4>4. stop = b * DATA_PAGE_SIZE BY <3>2 DEF b
      <4> QED BY <1>1, <1>3, <4>3, <4>4
    <3> QED BY <3>1, <3>2
  <2>5. at < stop
    <3>0. span * DATA_PAGE_SIZE \in Nat /\ (span + 1) * DATA_PAGE_SIZE = span * DATA_PAGE_SIZE + DATA_PAGE_SIZE
      BY <1>1, <2>1
    <3>1. CASE span = first
      <4>1. at = offset BY <3>1
      <4>2. offset < (span + 1) * DATA_PAGE_SIZE BY <1>2, <3>1
      <4> QED BY <1>1, <4>1, <4>2 DEF end
    <3>2. CASE span # first
      <4>1. at = span * DATA_PAGE_SIZE BY <3>2
      <4>2. CASE span = last
        <5>1. stop = end /\ span * DATA_PAGE_SIZE <= end - 1 BY <1>3, <4>2
        <5> QED BY <1>1, <3>0, <4>1, <5>1
      <4>3. CASE span # last
        <5>1. stop = (span + 1) * DATA_PAGE_SIZE BY <4>3
        <5> QED BY <1>1, <3>0, <4>1, <5>1
      <4> QED BY <4>2, <4>3
    <3> QED BY <3>1, <3>2
  <2>6. /\ at = IF k = 1 THEN offset ELSE (first + k - 1) * DATA_PAGE_SIZE
        /\ stop = IF first + k - 1 = last THEN end ELSE (first + k) * DATA_PAGE_SIZE
    BY <2>1 DEF span
  <2> HIDE DEF at, stop
  <2>7. Len(c[k].bytes) = stop - at
    <3> DEFINE m == at - offset + 1  n == stop - offset
    <3>1. m \in Int /\ n \in Int /\ m <= n /\ m >= 1 /\ n <= Len(bytes) /\ n - m + 1 = stop - at
      BY <1>1, <2>3, <2>4, <2>5 DEF end, L
    <3>2. \A i \in m .. n : bytes[i] \in Nat
      <4>1. \A i \in 1 .. Len(bytes) : bytes[i] \in Nat OBVIOUS
      <4>2. \A i \in m .. n : i \in 1 .. Len(bytes)
        <5> HIDE DEF m, n
        <5> QED BY <3>1
      <4> HIDE DEF m, n
      <4> QED BY <4>1, <4>2
    <3>3. c[k].bytes = SubSeq(bytes, m, n) BY <2>2
    <3> HIDE DEF m, n
    <3>4. Len(SubSeq(bytes, m, n)) = n - m + 1 BY <3>1, <3>2, SubSeqProperties
    <3> QED BY <3>1, <3>3, <3>4
  <2>8. Len(c[k].bytes) \in Nat \ {0} BY <2>3, <2>4, <2>5, <2>7
  <2>9. ChunkAt(c[k], span, at, stop) BY <2>2, <2>3, <2>4, <2>7, <2>8 DEF ChunkAt
  <2> QED BY <2>6, <2>9 DEF span
<1> QED BY <1>2, <1>3, <1>5, <1>7, <1>8 DEF Cut, first, last, c, L

\* The loop of a modification, over the chunks of the bytes.
ModifyLoop(r, f, chunks) ==
  LET Step(q, c) ==
          IF ~Running(q) THEN q
          ELSE With(LAMBDA x : IF Running(x) THEN ModifyChunk(x, f, c) ELSE x,
                    IF IxSpan(c.span) = q.prev THEN q ELSE SwitchModify(q, f, IxSpan(c.span)))
  IN Fold(Step, r, chunks)

\* The loop is a sequence of states, one for every chunk.
ModifyStates(g, r, f, chunks) ==
  /\ g[0] = r
  /\ \A k \in 1 .. Len(chunks) : g[k] = ModifyStep(g[k - 1], chunks[k], f)
  /\ ModifyLoop(r, f, chunks) = g[Len(chunks)]

\* The loop of a modification is a sequence of states, one for every chunk.
LEMMA ModifyLoopSteps ==
  ASSUME NEW r, NEW f, NEW chunks, Len(chunks) \in Nat
  PROVE  \E g : ModifyStates(g, r, f, chunks)
<1> DEFINE Op(t, c) == ModifyStep(t, c, f)
           n == Len(chunks)
           Is(g, m) == g = [k \in 0 .. m |-> IF k = 0 THEN r ELSE Op(g[k - 1], chunks[k])]
           after == CHOOSE g : Is(g, n)
<1>1. n \in Nat
  OBVIOUS
<1>2. ModifyLoop(r, f, chunks) = after[n]
  BY DEF ModifyLoop, Fold, ModifyStep
<1>3. \A t, c : Op(t, c) = ModifyStep(t, c, f)
  OBVIOUS
<1> HIDE DEF Op, n
<1>4. \E g : Is(g, n)
  <2> DEFINE G == {m \in 0 .. n : \E g : Is(g, m)}
  <2>1. 0 \in G
    <3>1. Is([k \in 0 .. 0 |-> r], 0)
      OBVIOUS
    <3> HIDE DEF Is
    <3>2. \E g : Is(g, 0)
      BY <3>1
    <3> QED
      BY <1>1, <3>2
  <2>2. ASSUME NEW m \in 1 .. n, m - 1 \in G PROVE m \in G
    <3>1. PICK g : Is(g, m - 1)
      BY <2>2
    <3> DEFINE h == [k \in 0 .. m |-> IF k = m THEN Op(g[m - 1], chunks[m]) ELSE g[k]]
    <3>2. Is(h, m)
      BY <3>1
    <3> HIDE DEF h, Is
    <3>3. \E x : Is(x, m)
      BY <3>2
    <3> QED
      BY <3>3, <1>1
  <2> HIDE DEF G
  <2>3. \A m \in 0 .. n : m \in G
    BY <2>1, <2>2, <1>1, Steps
  <2>4. n \in G
    BY <2>3, <1>1
  <2> HIDE DEF Is
  <2> QED
    BY <2>4 DEF G
<1>5. Is(after, n)
  BY <1>4
<1> HIDE DEF after
<1>6. after[0] = r /\ \A k \in 1 .. n : after[k] = ModifyStep(after[k - 1], chunks[k], f)
  BY <1>1, <1>3, <1>5
<1> QED
  BY <1>2, <1>6 DEF n, ModifyStates

\* All chunks of a modification.
LEMMA ModifyLoopOn ==
  ASSUME NEW r, DOMAIN r = LoopFields, NEW f \in Fds, NEW id, NEW n \in Nat, NEW len,
         NotYet(r, f, id, n, IxCount(n), len),
         NEW chunks, NEW first, NEW last, NEW start, NEW end, Cut(chunks, first, last, start, end), last < n
  PROVE  Modifying(ModifyLoop(r, f, chunks), f, id, n, IxCount(n), len, last)
<1> DEFINE N == Len(chunks)
           m == IxCount(n)
<1>1. first \in Nat /\ last \in Nat /\ first <= last /\ N = last - first + 1 /\ N \in Nat /\ N >= 1
  BY DEF Cut
<1>2. \A k \in 1 .. N : /\ chunks[k].span = first + k - 1 /\ chunks[k].span \in 0 .. n - 1
                        /\ Len(chunks[k].bytes) \in Nat \ {0}
  <2> SUFFICES ASSUME NEW k \in 1 .. N
               PROVE  /\ chunks[k].span = first + k - 1 /\ chunks[k].span \in 0 .. n - 1
                      /\ Len(chunks[k].bytes) \in Nat \ {0}
    OBVIOUS
  <2>1. chunks[k].span = first + k - 1 /\ Len(chunks[k].bytes) \in Nat \ {0}
    BY <1>1 DEF Cut, ChunkAt
  <2>2. first + k - 1 \in 0 .. n - 1 BY <1>1
  <2> QED BY <2>1, <2>2
<1> HIDE DEF N
<1>3. PICK g : /\ g[0] = r /\ \A k \in 1 .. N : g[k] = ModifyStep(g[k - 1], chunks[k], f)
               /\ ModifyLoop(r, f, chunks) = g[N]
  <2>1. Len(chunks) \in Nat BY <1>1 DEF N
  <2>2. \E g : ModifyStates(g, r, f, chunks) BY <2>1, ModifyLoopSteps
  <2> QED BY <2>2 DEF ModifyStates, N
<1> DEFINE On(k) == Modifying(g[k], f, id, n, m, len, first + k - 1)
           G == {k \in 0 .. N : k # 0 => On(k)}
<1> HIDE DEF m
<1>4. 0 \in G BY <1>1
<1>5. ASSUME NEW k \in 1 .. N, k - 1 \in G PROVE k \in G
  <2> DEFINE c == chunks[k]  q == g[k - 1]
  <2>1. g[k] = ModifyStep(q, c, f) BY <1>3
  <2>2. c.span = first + k - 1 /\ c.span \in 0 .. n - 1 /\ Len(c.bytes) \in Nat \ {0} BY <1>2
  <2>3. /\ DOMAIN q = LoopFields
        /\ \/ NotYet(q, f, id, n, m, len)
           \/ c.span # 0 /\ Modifying(q, f, id, n, m, len, c.span - 1)
    <3>1. CASE k = 1
      <4>1. q = r BY <1>3, <3>1
      <4> HIDE DEF q
      <4> QED BY <4>1 DEF m
    <3>2. CASE k # 1
      <4>1. k - 1 # 0 BY <3>2
      <4>2. On(k - 1) BY <1>5, <4>1
      <4>3. first + (k - 1) - 1 = c.span - 1 /\ c.span # 0 BY <1>1, <2>2, <3>2
      <4>4. Modifying(q, f, id, n, m, len, c.span - 1) BY <4>2, <4>3
      <4> HIDE DEF q, c
      <4> QED BY <4>3, <4>4 DEF Modifying
    <3> QED BY <3>1, <3>2
  <2> HIDE DEF q, c
  <2>4. Modifying(ModifyStep(q, c, f), f, id, n, m, len, c.span) BY <2>2, <2>3, ModifyStepOn DEF m
  <2>5. On(k) BY <2>1, <2>2, <2>4
  <2> HIDE DEF On
  <2> QED BY <2>5
<1> HIDE DEF G
<1>6. \A k \in 0 .. N : k \in G BY <1>1, <1>4, <1>5, Steps
<1>7. On(N) BY <1>1, <1>6 DEF G
<1>8. first + N - 1 = last BY <1>1
<1> QED BY <1>3, <1>7, <1>8 DEF m

\* The index page in work stays in work when the error code changes.
LEMMA ResBusy ==
  ASSUME NEW s, NEW w, NEW cur, Busy(s, w, cur), NEW res
  PROVE  LET t == [s EXCEPT !.res = res]
         IN Busy(t, w, cur) /\ View(t, w) = View(s, w) /\ t.fds = s.fds /\ t.work = s.work /\ t.res = res
            /\ t.starved = s.starved /\ t.page = s.page
<1> DEFINE t == [s EXCEPT !.res = res]
<1>1. DOMAIN s = StateFields /\ Sound(s) /\ Layout(s) BY DEF Busy, Sound, Flash
<1>2. /\ Alike(s, t) /\ t.fds = s.fds /\ t.work = s.work /\ t.starved = s.starved
      /\ t.free_cursor = s.free_cursor /\ t.pix = s.pix /\ t.cleaning = s.cleaning /\ t.res = res
  BY <1>1, ResAlike
<1> HIDE DEF t
<1>3. Sound(t) /\ t.page = s.page /\ Layout(t) BY <1>1, <1>2, AlikeSound DEF Alike, Layout, CursorOK
<1>4. View(t, w) = View(s, w) BY <1>2, <1>3 DEF View
<1> QED BY <1>2, <1>3, <1>4 DEF Busy, t

\* The cursor goes to an index page, and the call goes on.
AtIndex(s, f, w, span) == [SetCursor(s, f, w, span) EXCEPT !.res = "OK"]

\* The cursor is set to the index page in work, and the error code is set anew.
LEMMA CursorHeld ==
  ASSUME NEW s, NEW w, NEW f \in Fds, NEW id, NEW n, NEW m, NEW len, Held(s, w, f, id, n, m, len),
         NEW span, span = s.work.span
  PROVE  LET t == AtIndex(s, f, w, span)
         IN Held(t, w, f, id, n, m, len) /\ t.res = "OK" /\ t.work.span = span
<1> DEFINE c == SetCursor(s, f, w, span)  t == [c EXCEPT !.res = "OK"]
<1>1. /\ Busy(s, w, 0) /\ s.work.lu = id /\ Extent(View(s, w), id, n, m)
      /\ s.fds[f].open /\ s.fds[f].id = id /\ Length(s.fds[f].size) = len
  BY DEF Held
<1>2. Busy(c, w, 0) /\ View(c, w) = View(s, w) /\ SameFiles(s, c) /\ OnlyFds(s, c)
  BY <1>1, CursorBusy
<1> HIDE DEF c
<1>3. Busy(t, w, 0) /\ View(t, w) = View(c, w) /\ t.fds = c.fds /\ t.work = c.work /\ t.res = "OK"
  BY <1>2, ResBusy
<1> HIDE DEF t
<1>4. Held(t, w, f, id, n, m, len) /\ t.work.span = span
  BY <1>1, <1>2, <1>3 DEF Held, SameFiles, OnlyFds
<1> QED BY <1>3, <1>4 DEF t, c, AtIndex

\* The last index page of a modification is stored, and the cursor goes to it.
MovedCursor(t, f, span) ==
  CASE span = 0 -> t
    [] span # 0 /\ t.res = "OK" -> SetCursor(t, f, t.pix, span)
    [] span # 0 /\ t.res \in {"FULL", "NOT_FOUND"} -> SetCursor(t, f, Uninitialised, span)
    [] OTHER -> t

\* The cursor follows the index page that was stored.
LEMMA MovedCursorOn ==
  ASSUME NEW a, NEW f \in Fds, NEW id, NEW n, NEW m, NEW len, NEW span, Stopped(a) \/ Back(a, f, id, n, m, len, span)
  PROVE  LET b == MovedCursor(a, f, span) IN Stopped(b) \/ Whole(b, f, id, n, m, len)
<1> DEFINE b == MovedCursor(a, f, span)
<1>1. CASE Stopped(a)
  <2>1. DOMAIN a = StateFields /\ Sound(a) /\ a.starved /\ a.res # "OK" BY <1>1 DEF Stopped, Sound, Flash
  <2>2. b = a \/ OnlyFds(a, b)
    <3>1. b = a \/ b = SetCursor(a, f, Uninitialised, span) BY <2>1 DEF MovedCursor
    <3>2. OnlyFds(a, SetCursor(a, f, Uninitialised, span)) BY <2>1, SetCursorOnly
    <3> HIDE DEF b
    <3> QED BY <3>1, <3>2
  <2> HIDE DEF b
  <2>3. Stopped(b)
    <3>1. CASE b = a BY <3>1, <1>1
    <3>2. CASE OnlyFds(a, b)
      <4>1. Sound(b) BY <2>1, <3>2, AlikeSound DEF OnlyFds
      <4> QED BY <4>1, <2>1, <3>2 DEF OnlyFds, Stopped
    <3> QED BY <2>2, <3>1, <3>2
  <2> QED BY <2>3 DEF b
<1>2. CASE Back(a, f, id, n, m, len, span)
  <2>1. /\ Settled(a, 0) /\ a.res = "OK" /\ Extent(a.page, id, n, m)
        /\ a.fds[f].open /\ a.fds[f].id = id /\ Length(a.fds[f].size) = len
        /\ a.pix \in Pages /\ Live(a.page, a.pix) /\ a.page[a.pix].lu = id /\ a.page[a.pix].span = span
    BY <1>2 DEF Back
  <2>2. span \in Nat BY <2>1 DEF Settled, Forest, Shaped, Shape
  <2>3. CASE span = 0
    <3>1. b = a BY <2>3 DEF MovedCursor
    <3> HIDE DEF b
    <3> QED BY <2>1, <3>1 DEF Whole, b
  <2>4. CASE span # 0
    <3>1. b = SetCursor(a, f, a.pix, span) BY <2>1, <2>4 DEF MovedCursor
    <3>2. Settled(b, 0) /\ SameFiles(a, b) BY <2>1, <2>2, <3>1, CursorSettled
    <3>3. b.res = "OK"
      <4>1. DOMAIN a = StateFields BY <2>1 DEF Settled, Sound, Flash
      <4>2. OnlyFds(a, SetCursor(a, f, a.pix, span)) BY <4>1, SetCursorOnly
      <4>3. OnlyFds(a, b) BY <3>1, <4>2
      <4> QED BY <4>3, <2>1 DEF OnlyFds
    <3> HIDE DEF b
    <3>4. Whole(b, f, id, n, m, len) BY <2>1, <3>2, <3>3 DEF Whole, SameFiles
    <3> QED BY <3>4 DEF b
  <2> QED BY <2>3, <2>4
<1> QED BY <1>1, <1>2

\* The end of a modification.
LEMMA FinishModifyEnds ==
  ASSUME NEW r, NEW f \in Fds, NEW id, NEW n \in Nat, NEW m, NEW len, NEW last, Modifying(r, f, id, n, m, len, last)
  PROVE  LET t == FinishModify(r, f) IN Ends(t) /\ (t.res = "OK" => Whole(t, f, id, n, m, len))
<1> DEFINE t == FinishModify(r, f)
           s == [SetCursor(r.s, f, r.pix, r.span) EXCEPT !.res = "OK"]
           a == StoreModified(s, f, r.pix, r.span)
           b == MovedCursor(a, f, r.span)
<1>1. CASE Broken(r)
  <2>1. t = r.s BY <1>1 DEF FinishModify, Broken
  <2> HIDE DEF t
  <2>2. Ends(t) /\ t.res # "OK" BY <1>1, <2>1, StoppedEnds DEF Broken, Stopped
  <2> QED BY <2>2 DEF t
<1>2. CASE ~Broken(r)
  <2>1. ~r.ret /\ Held(r.s, r.pix, f, id, n, m, len) /\ r.s.work.span = r.span
    BY <1>2 DEF Modifying, Failing, Holding
  <2>2. t = IF b.res # "OK" THEN b ELSE Fail(b, r.s.res)
    <3> DEFINE Moved0(x) ==
          CASE r.span = 0 -> x
            [] r.span # 0 /\ x.res = "OK" -> SetCursor(x, f, x.pix, r.span)
            [] r.span # 0 /\ x.res \in {"FULL", "NOT_FOUND"} -> SetCursor(x, f, Uninitialised, r.span)
            [] OTHER -> x
    <3>1. With(Moved0, a) = b
      <4> HIDE DEF a
      <4> QED BY DEF With, MovedCursor
    <3> DEFINE Result0(x) == IF x.res # "OK" THEN x ELSE Fail(x, r.s.res)
    <3>2. t = With(Result0, With(Moved0, a)) BY <2>1 DEF FinishModify
    <3> HIDE DEF Moved0, b, a, t
    <3> QED BY <3>1, <3>2 DEF With
  <2>3. Held(s, r.pix, f, id, n, m, len) /\ s.res = "OK" /\ s.work.span = r.span
    <3>1. LET u == AtIndex(r.s, f, r.pix, r.span)
          IN Held(u, r.pix, f, id, n, m, len) /\ u.res = "OK" /\ u.work.span = r.span
      BY <2>1, CursorHeld
    <3> QED BY <3>1 DEF AtIndex
  <2> HIDE DEF s
  <2>4. Stopped(a) \/ Back(a, f, id, n, m, len, r.span) BY <2>3, StoreModifiedBack
  <2> HIDE DEF a
  <2>5. Stopped(b) \/ Whole(b, f, id, n, m, len) BY <2>4, MovedCursorOn
  <2> HIDE DEF b, t
  <2>6. CASE b.res # "OK"
    <3>1. t = b /\ Stopped(b) BY <2>2, <2>5, <2>6 DEF Whole
    <3>2. Ends(t) /\ t.res # "OK" BY <2>6, <3>1, StoppedEnds
    <3> QED BY <3>2 DEF t
  <2>7. CASE b.res = "OK"
    <3>1. t = Fail(b, r.s.res) BY <2>2, <2>7
    <3>2. Whole(b, f, id, n, m, len) BY <2>5, <2>7 DEF Stopped
    <3>3. Settled(t, 0) /\ t.res = r.s.res /\ t.page = b.page /\ t.fds = b.fds
      BY <3>1, <3>2, FailSettled DEF Whole
    <3>4. Ends(t) /\ (t.res = "OK" => Whole(t, f, id, n, m, len))
      BY <3>2, <3>3, StoppedEnds DEF Whole
    <3> QED BY <3>4 DEF t
  <2> QED BY <2>6, <2>7
<1> QED BY <1>1, <1>2

\* A byte before the end of a file is in one of its pages.
LEMMA ByteInside ==
  ASSUME NEW a \in Nat, NEW size \in Nat, a < Length(size)
  PROVE  a \div DATA_PAGE_SIZE < PageCount(size)
<1> DEFINE k == a \div DATA_PAGE_SIZE  c == Length(size) + DATA_PAGE_SIZE - 1  q == PageCount(size)
<1>1. Length(size) \in Nat /\ q \in Nat BY PagesOfSize
<1>2. c \in Nat /\ DATA_PAGE_SIZE \in Nat /\ q = c \div DATA_PAGE_SIZE BY <1>1, SizesAssumption DEF PageCount
<1> HIDE DEF c
<1>3. c < (q + 1) * DATA_PAGE_SIZE BY <1>2, SpanOf
<1>4. k \in Nat /\ k * DATA_PAGE_SIZE \in Nat /\ k * DATA_PAGE_SIZE <= a BY SpanOf
<1> HIDE DEF k, q
<1>5. (q + 1) * DATA_PAGE_SIZE = q * DATA_PAGE_SIZE + DATA_PAGE_SIZE /\ q * DATA_PAGE_SIZE \in Nat BY <1>1, <1>2
<1>6. a < q * DATA_PAGE_SIZE BY <1>1, <1>2, <1>3, <1>5 DEF c
<1>7. q <= k => q * DATA_PAGE_SIZE <= k * DATA_PAGE_SIZE BY <1>1, <1>4, PageOrder
<1>8. k < q BY <1>1, <1>4, <1>5, <1>6, <1>7
<1> QED BY <1>8 DEF k, q

\* The loop of spiffs_object_modify is the one above.
LEMMA ModifySame ==
  ASSUME NEW s, NEW f, NEW offset, NEW bytes
  PROVE  object_modify(s, f, offset, bytes) =
           LET g == gc_check(s, Len(bytes) + DATA_PAGE_SIZE)
           IN IF g.res = "OK" THEN FinishModify(ModifyLoop(Loop(g, f), f, Chunks(offset, bytes)), f) ELSE g
BY DEF object_modify, ModifyLoop, Then, With

\* A descriptor that is on the same object as before, of the same size.
Steady(s, t, f) ==
  /\ Settled(t, 0) /\ t.fds[f].open /\ t.fds[f].id = s.fds[f].id /\ Length(t.fds[f].size) = Length(s.fds[f].size)

\* spiffs_object_modify of bytes that the file has.
LEMMA ModifyEnds ==
  ASSUME NEW s, Settled(s, 0), s.res = "OK", 0 \notin Fds, NEW f \in Fds, s.fds[f].open,
         NEW offset \in Nat, NEW bytes \in Seq(Nat), Len(bytes) > 0, offset + Len(bytes) <= Length(s.fds[f].size)
  PROVE  LET t == object_modify(s, f, offset, bytes) IN Ends(t) /\ (t.res = "OK" => Steady(s, t, f))
<1> DEFINE need == Len(bytes) + DATA_PAGE_SIZE
           g == gc_check(s, need)
           r == Loop(g, f)
           q == ModifyLoop(r, f, Chunks(offset, bytes))
           t == object_modify(s, f, offset, bytes)
<1>1. GcDone(s, g) BY GcCheckTidy
<1>2. t = IF g.res = "OK" THEN FinishModify(q, f) ELSE g BY ModifySame
<1> HIDE DEF t, g, need
<1>3. Stopped(g) \/ Steady(s, g, f) BY <1>1, GcFd DEF Steady
<1>4. CASE g.res # "OK"
  <2>1. Ends(t) /\ t.res # "OK" BY <1>2, <1>3, <1>4, StoppedEnds DEF Steady
  <2> QED BY <2>1 DEF t
<1>5. CASE g.res = "OK"
  <2> DEFINE id == g.fds[f].id  size == g.fds[f].size  n == PageCount(size)  len == Length(size)
             chunks == Chunks(offset, bytes)
             first == offset \div DATA_PAGE_SIZE  last == (offset + Len(bytes) - 1) \div DATA_PAGE_SIZE
  <2>1. Settled(g, 0) /\ g.fds[f].open /\ id = s.fds[f].id /\ len = Length(s.fds[f].size)
    BY <1>3, <1>5 DEF Steady, Stopped
  <2>2. size \in Nat /\ n \in Nat /\ Extent(g.page, id, n, IxCount(n)) BY <2>1, FdExtent
  <2>3. /\ DOMAIN r = LoopFields /\ r.s = g /\ r.span = 0 /\ r.prev = -1 /\ r.written = 0 /\ ~r.ret
        /\ r.pix = g.fds[f].objix_hdr_pix
    BY DEF Loop, LoopFields
  <2> HIDE DEF r
  <2>4. NotYet(r, f, id, n, IxCount(n), len)
    BY <1>5, <2>1, <2>2, <2>3 DEF NotYet, Whole
  <2>5. Cut(chunks, first, last, offset, offset + Len(bytes)) BY ChunksCut
  <2>6. last < n
    <3>1. Len(bytes) \in Nat OBVIOUS
    <3>3. Length(size) \in Nat BY <2>2, PagesOfSize
    <3>2. offset + Len(bytes) - 1 \in Nat /\ offset + Len(bytes) - 1 < len BY <2>1, <3>1, <3>3
    <3> QED BY <2>2, <3>2, ByteInside
  <2> HIDE DEF chunks, first, last, n, len
  <2>7. Modifying(ModifyLoop(r, f, chunks), f, id, n, IxCount(n), len, last)
    <3> DEFINE stop == offset + Len(bytes)
    <3>1. Cut(chunks, first, last, offset, stop) BY <2>5
    <3>2. n \in Nat BY <2>2 DEF n
    <3> HIDE DEF stop, id
    <3> QED BY <2>3, <2>4, <2>6, <3>1, <3>2, ModifyLoopOn
  <2>8. q = ModifyLoop(r, f, chunks) BY DEF chunks
  <2> HIDE DEF q
  <2>9. LET v == FinishModify(q, f) IN Ends(v) /\ (v.res = "OK" => Whole(v, f, id, n, IxCount(n), len))
    <3>1. n \in Nat BY <2>2 DEF n
    <3> HIDE DEF id
    <3> QED BY <2>7, <2>8, <3>1, FinishModifyEnds
  <2>10. t = FinishModify(q, f) BY <1>2, <1>5
  <2>11. Ends(t) /\ (t.res = "OK" => Whole(t, f, id, n, IxCount(n), len)) BY <2>9, <2>10
  <2>12. Ends(t) /\ (t.res = "OK" => Steady(s, t, f)) BY <2>1, <2>11 DEF Whole, Steady, len
  <2> QED BY <2>12 DEF t
<1> QED BY <1>4, <1>5

\* --------------------- SPIFFS_write: bytes behind the end ---------------------

\* What programming the index page in work over the one on the flash keeps.
Over(old, new) == old.flags = new.flags /\ \A e \in Entries : old.ix[e] \in {FREE, new.ix[e]}

\* The object in work is that of descriptor f. It has n data pages, the index page in work
\* is its last one, and nothing but entries that were free has changed in it. "at" is the
\* size the object had before the append.
Appends(s, w, f, id, n, span, at) ==
  /\ Busy(s, w, id) /\ s.work.lu = id /\ s.work.span = span
  /\ Extent(View(s, w), id, n, span + 1) /\ Unmarked(View(s, w), id)
  /\ s.fds[f].open /\ s.fds[f].id = id
  /\ Over(s.page[w], s.work)
  /\ at = 0 /\ span = 0 => s.page[w].size = UNDEFINED_LEN

\* The same with every page on the flash, and with m index pages.
Rests(s, f, id, n, m) ==
  /\ Settled(s, id) /\ s.res = "OK" /\ Extent(s.page, id, n, m) /\ Unmarked(s.page, id)
  /\ s.fds[f].open /\ s.fds[f].id = id

\* Descriptors change in what the pages do not depend on.
LEMMA AppendsFds ==
  ASSUME NEW s, NEW w, NEW f \in Fds, NEW id, NEW n, NEW span, NEW at, Appends(s, w, f, id, n, span, at),
         NEW t, Busy(t, w, id), View(t, w) = View(s, w), t.page = s.page, t.work = s.work,
         t.fds[f].open, t.fds[f].id = id
  PROVE  Appends(t, w, f, id, n, span, at)
BY DEF Appends

\* The size of a descriptor of the object in work is set.
LEMMA SizeBusy ==
  ASSUME NEW s, NEW w, NEW cur, Busy(s, w, cur), NEW f \in Fds, s.fds[f].open => s.fds[f].id = cur, NEW n \in Nat
  PROVE  LET t == GivenSize(s, f, n)
         IN /\ Busy(t, w, cur) /\ View(t, w) = View(s, w) /\ OnlyFds(s, t)
            /\ \A g \in Fds : t.fds[g].open = s.fds[g].open /\ t.fds[g].id = s.fds[g].id
<1> DEFINE t == [s EXCEPT !.fds[f].size = n]
<1>1. OnlyFds(s, t) /\ t.fds = [s.fds EXCEPT ![f].size = n]
  BY DEF OnlyFds, Alike, Busy, Sound, Flash, StateFields
<1> HIDE DEF t
<1>2. FdsOK(s.fds, View(s, w), cur) BY DEF Busy
<1>3. FdsOK(t.fds, View(s, w), cur)
  <2> DEFINE F == s.fds
             G == t.fds
             P == View(s, w)
  <2>1. FdsOK(F, P, cur) /\ (F[f].open => F[f].id = cur) /\ G = [F EXCEPT ![f].size = n]
    BY <1>1, <1>2
  <2> HIDE DEF F, G, P
  <2>2. FdsOK(G, P, cur)
    BY <2>1, SizeFds
  <2> QED
    BY <2>2 DEF G, P
<1>4. Busy(t, w, cur) /\ View(t, w) = View(s, w)
  BY <1>1, <1>3, OnlyFdsBusy
<1>5. DOMAIN s.fds = Fds /\ \A g \in Fds : DOMAIN s.fds[g] = FdFields
  BY <1>2 DEF FdsOK, FdsTyped
<1>6. \A g \in Fds : t.fds[g].open = s.fds[g].open /\ t.fds[g].id = s.fds[g].id
  BY <1>1, <1>5 DEF FdFields
<1> QED
  BY <1>1, <1>4, <1>6 DEF t, GivenSize

\* The cursor goes to the index page in work, and the descriptor gets a new size.
LEMMA CursorAppends ==
  ASSUME NEW s, NEW w, NEW f \in Fds, NEW id, NEW n, NEW span, NEW at, Appends(s, w, f, id, n, span, at),
         NEW size \in Nat
  PROVE  LET t == [SetCursor(s, f, w, span) EXCEPT !.fds[f].size = size]
         IN Appends(t, w, f, id, n, span, at) /\ t.res = s.res /\ t.starved = s.starved /\ t.work = s.work
            /\ Sound(t)
<1> DEFINE c == SetCursor(s, f, w, span)
           t == [c EXCEPT !.fds[f].size = size]
<1>1. Busy(s, w, id) /\ s.fds[f].open /\ s.fds[f].id = id /\ s.work.lu = id /\ s.work.span = span
  BY DEF Appends
<1>2. Busy(c, w, id) /\ View(c, w) = View(s, w) /\ SameFiles(s, c) /\ OnlyFds(s, c)
  BY <1>1, CursorBusy
<1>3. c.fds[f].open /\ c.fds[f].id = id BY <1>1, <1>2 DEF SameFiles
<1> HIDE DEF c
<1>4. /\ Busy(t, w, id) /\ View(t, w) = View(c, w) /\ OnlyFds(c, t)
      /\ \A g \in Fds : t.fds[g].open = c.fds[g].open /\ t.fds[g].id = c.fds[g].id
  <2>1. LET u == GivenSize(c, f, size)
        IN /\ Busy(u, w, id) /\ View(u, w) = View(c, w) /\ OnlyFds(c, u)
           /\ \A g \in Fds : u.fds[g].open = c.fds[g].open /\ u.fds[g].id = c.fds[g].id
    BY <1>2, <1>3, SizeBusy
  <2> QED BY <2>1 DEF GivenSize
<1> HIDE DEF t
<1>5. t.page = s.page /\ t.work = s.work /\ t.res = s.res /\ t.starved = s.starved
  BY <1>2, <1>4 DEF OnlyFds, Alike
<1>6. t.fds[f].open /\ t.fds[f].id = id /\ View(t, w) = View(s, w) BY <1>2, <1>3, <1>4
<1>7. Appends(t, w, f, id, n, span, at) BY <1>4, <1>5, <1>6, AppendsFds
<1>8. Sound(t) BY <1>4 DEF Busy
<1> QED BY <1>5, <1>7, <1>8 DEF t, c

\* The index page in work gets another size.
SizeWork(s, size) == [s EXCEPT !.work.size = size]

\* The size of a header in work may change while its object is in work.
LEMMA WorkSize ==
  ASSUME NEW s, NEW w, NEW f, NEW id, NEW n, NEW span, NEW at, Appends(s, w, f, id, n, span, at), NEW size
  PROVE  LET t == SizeWork(s, size)
         IN Appends(t, w, f, id, n, span, at) /\ t.res = s.res /\ t.starved = s.starved /\ t.work.size = size
            /\ t.page = s.page /\ t.fds = s.fds
<1> DEFINE new == [s.work EXCEPT !.size = size]
           t == [s EXCEPT !.work.size = size]
           P == View(s, w)
<1>1. /\ Busy(s, w, id) /\ s.work.lu = id /\ s.work.span = span /\ Extent(P, id, n, span + 1) /\ Unmarked(P, id)
      /\ s.fds[f].open /\ s.fds[f].id = id /\ Over(s.page[w], s.work)
      /\ at = 0 /\ span = 0 => s.page[w].size = UNDEFINED_LEN
  BY DEF Appends
<1>2. /\ Sound(s) /\ w \in Pages /\ Live(s.page, w) /\ DOMAIN s.work = PageFields /\ Forest(P, id) /\ s.work.lu = s.page[w].lu
      /\ DOMAIN s = StateFields
  BY <1>1 DEF Busy, Sound, Flash
<1>3. P[w] = s.work /\ Live(P, w) /\ \A q \in Pages : q # w => P[q] = s.page[q] BY <1>2, ViewPage
<1> HIDE DEF P
<1>4. Shape(s.work, id) BY <1>2, <1>3 DEF Forest, Shaped
<1>5. /\ DOMAIN new = PageFields /\ new.lu = s.work.lu /\ new.id = s.work.id /\ new.span = s.work.span
      /\ new.flags = s.work.flags /\ new.ix = s.work.ix /\ new.size = size
  BY <1>2 DEF PageFields
<1>6. t = [s EXCEPT !.work = new] BY <1>2 DEF StateFields
<1>7. /\ t.work = new /\ t.page = s.page /\ t.fds = s.fds /\ t.res = s.res /\ t.starved = s.starved
  BY <1>2, <1>6 DEF StateFields
<1> HIDE DEF new, t
<1>8. Shape(new, id) BY <1>4, <1>5 DEF Shape
<1>9. Edited(s, t, w, id)
  <2>1. s.work.lu # id => new.size = s.work.size BY <1>1
  <2> QED BY <1>1, <1>5, <1>6, <1>8, <2>1, WorkEdit
<1>10. Busy(t, w, id) /\ Renamed(P, View(t, w), w, w, id) BY <1>9 DEF Edited, P
<1>11. Extent(View(t, w), id, n, span + 1) BY <1>1, <1>10, RenameExtent
<1>12. Unmarked(View(t, w), id)
  <2>1. Sound(t) BY <1>10 DEF Busy
  <2>2. View(t, w)[w] = t.work /\ \A q \in Pages : q # w => View(t, w)[q] = t.page[q] BY <2>1, <1>2, ViewPage
  <2> DEFINE Q == View(t, w)
  <2>3. \A q \in Pages : Q[q].lu = P[q].lu /\ Q[q].span = P[q].span /\ Q[q].flags = P[q].flags
    BY <1>3, <1>5, <1>7, <2>2
  <2>4. Unmarked(Q, id) BY <1>1, <2>3 DEF Unmarked, IsHeader, Live
  <2> QED BY <2>4
<1>13. Over(t.page[w], t.work) BY <1>1, <1>5, <1>7 DEF Over
<1>14. Appends(t, w, f, id, n, span, at)
  BY <1>1, <1>5, <1>7, <1>10, <1>11, <1>12, <1>13 DEF Appends
<1> QED BY <1>5, <1>7, <1>14 DEF t, SizeWork

\* Programming the page in work over the one on the flash.
ProgramsTo(pg, old, new) ==
  /\ DOMAIN pg = PageFields /\ pg.lu = new.lu /\ pg.id = new.id /\ pg.span = new.span /\ pg.flags = new.flags
  /\ DOMAIN pg.ix = Entries /\ (\A e \in Entries : pg.ix[e] = new.ix[e])
  /\ pg.size = AndNum(old.size, new.size, UNDEFINED_LEN)

\* A page programmed over one that it only adds to reads as the new one.
LEMMA ProgramOver ==
  ASSUME NEW old, NEW new, DOMAIN new = PageFields, DOMAIN new.ix = Entries, Over(old, new), old.lu = new.lu
  PROVE  ProgramsTo([Program(old, new) EXCEPT !.lu = old.lu], old, new)
<1> DEFINE ix == [i \in DOMAIN new.ix |-> AndNum(old.ix[i], new.ix[i], FREE)]
           size == AndNum(old.size, new.size, UNDEFINED_LEN)
           p == Program(old, new)  pg == [p EXCEPT !.lu = old.lu]
<1>1. \A e \in Entries : ix[e] = new.ix[e]
  <2> SUFFICES ASSUME NEW e \in Entries PROVE AndNum(old.ix[e], new.ix[e], FREE) = new.ix[e]
    OBVIOUS
  <2>1. old.ix[e] = FREE \/ (old.ix[e] # FREE /\ old.ix[e] = new.ix[e]) BY DEF Over
  <2> QED BY <2>1 DEF AndNum
<1>2. DOMAIN ix = Entries OBVIOUS
<1>3. p = [new EXCEPT !.flags = old.flags \union new.flags, !.size = size, !.ix = ix] BY DEF Program
<1> HIDE DEF p, ix, size
<1>4. old.flags \union new.flags = new.flags BY DEF Over
<1>5. /\ DOMAIN p = PageFields /\ p.lu = new.lu /\ p.id = new.id /\ p.span = new.span /\ p.flags = new.flags
      /\ p.ix = ix /\ p.size = size
  BY <1>3, <1>4 DEF PageFields
<1>6. /\ DOMAIN pg = PageFields /\ pg.lu = new.lu /\ pg.id = new.id /\ pg.span = new.span /\ pg.flags = new.flags
      /\ pg.ix = ix /\ pg.size = size
  BY <1>5 DEF PageFields
<1> HIDE DEF pg
<1>7. ProgramsTo(pg, old, new) BY <1>1, <1>2, <1>6 DEF ProgramsTo, size
<1> QED BY <1>7 DEF pg, p

\* The index page in work is programmed over the page it was loaded from.
IndexStored(s, t, w, f, id, n, span) ==
  /\ Rests(t, f, id, n, span + 1) /\ t.fds = s.fds /\ t.starved = s.starved /\ t.work = s.work
  /\ w \in Pages /\ Live(t.page, w) /\ t.page[w].lu = id /\ t.page[w].span = span
  /\ t.page[w].size = AndNum(s.page[w].size, s.work.size, UNDEFINED_LEN)

\* An append stores an index page in place.
LEMMA RewriteIndexOn ==
  ASSUME NEW s, NEW w, NEW f \in Fds, NEW id, NEW n, NEW span, NEW at, Appends(s, w, f, id, n, span, at), s.res = "OK"
  PROVE  IndexStored(s, RewriteIndex(s, w, span), w, f, id, n, span)
<1> DEFINE pg == [Program(s.page[w], s.work) EXCEPT !.lu = s.page[w].lu]
           t == write(s, w, {}, pg)
           P == View(s, w)
           Q == t.page
<1>1. /\ Busy(s, w, id) /\ s.work.lu = id /\ s.work.span = span /\ Extent(P, id, n, span + 1) /\ Unmarked(P, id)
      /\ s.fds[f].open /\ s.fds[f].id = id /\ Over(s.page[w], s.work)
  BY DEF Appends
<1>2. /\ Sound(s) /\ Layout(s) /\ w \in Pages /\ Live(s.page, w) /\ DOMAIN s.work = PageFields /\ Forest(P, id)
      /\ s.work.lu = s.page[w].lu /\ s.work.span = s.page[w].span /\ IsIx(s.work.lu) /\ Shape(s.page[w], id)
      /\ FdsOK(s.fds, P, id)
  BY <1>1 DEF Busy
<1>3. P[w] = s.work /\ Live(P, w) /\ \A q \in Pages : q # w => P[q] = s.page[q] BY <1>2, ViewPage
<1> HIDE DEF P
<1>4. Shape(s.work, id) /\ DOMAIN s.work.ix = Entries BY <1>2, <1>3 DEF Forest, Shaped, Shape
<1>5. ProgramsTo(pg, s.page[w], s.work) BY <1>1, <1>2, <1>4, ProgramOver
<1> HIDE DEF pg
<1>6. RewriteIndex(s, w, span) = t
  <2>1. Validate(s, s.page[w], TRUE, span) = s BY <1>1, <1>2, IndexPasses
  <2>2. w # FREE BY <1>2, PageRange
  <2>3. page_index_check(s, w, span) = s BY <2>1, <2>2 DEF page_index_check
  <2> HIDE DEF t
  <2> QED BY <1>1, <2>3 DEF RewriteIndex, Then, With, t, pg
<1>7. Rewritten(s, t, w, pg)
  <2>1. DOMAIN pg = PageFields /\ pg.lu = s.page[w].lu BY <1>2, <1>5 DEF ProgramsTo
  <2> QED BY <1>2, <2>1, Rewrite
<1> HIDE DEF t
<1>8. /\ Sound(t) /\ Layout(t) /\ Q[w] = pg /\ (\A q \in Pages : q # w => Q[q] = P[q])
      /\ t.fds = s.fds /\ t.work = s.work /\ t.res = "OK" /\ t.starved = s.starved
  BY <1>1, <1>2, <1>3, <1>7 DEF Rewritten, Sound, Flash
<1>9. Shape(pg, id) BY <1>4, <1>5 DEF ProgramsTo, Shape
<1>10. Alt(P[w], Q[w], w, w, id)
  BY <1>1, <1>3, <1>5, <1>8, <1>9 DEF ProgramsTo, Alt
<1>11. \A q \in Pages : q # w => (Live(Q, q) <=> Live(P, q)) BY <1>8 DEF Live
<1>12. Live(Q, w) BY <1>2, <1>5, <1>8 DEF Live, ProgramsTo
<1>13. Renamed(P, Q, w, w, id)
  <2>1. \A q \in Pages : q # w /\ Live(P, q) => Alt(P[q], Q[q], w, w, id)
    BY <1>2, <1>8 DEF Alt, Forest, Shaped
  <2> QED BY <1>2, <1>3, <1>10, <1>11, <1>12, <2>1 DEF Renamed
<1>14. Forest(Q, id) /\ Extent(Q, id, n, span + 1) BY <1>1, <1>2, <1>13, RenameForest, RenameExtent
<1>15. IxStay(P, Q, id)
  <2> SUFFICES ASSUME NEW p \in Pages, (Live(P, p) /\ IsIx(P[p].lu)) \/ (Live(Q, p) /\ IsIx(Q[p].lu))
               PROVE  /\ Live(P, p) /\ Live(Q, p) /\ Q[p].lu = P[p].lu /\ Q[p].span = P[p].span
                      /\ P[p].lu # id => Q[p].size = P[p].size
    BY DEF IxStay
  <2>1. CASE p = w BY <2>1, <1>1, <1>3, <1>5, <1>8, <1>12 DEF ProgramsTo
  <2>2. CASE p # w BY <2>2, <1>8, <1>11
  <2> QED BY <2>1, <2>2
<1>16. FdsOK(t.fds, Q, id) BY <1>2, <1>8, <1>15, FdsStay
<1>17. Settled(t, id) BY <1>8, <1>14, <1>16 DEF Settled
<1>18. Unmarked(Q, id)
  <2>1. \A q \in Pages : Q[q].lu = P[q].lu /\ Q[q].span = P[q].span /\ Q[q].flags = P[q].flags
    BY <1>3, <1>5, <1>8 DEF ProgramsTo
  <2> QED BY <1>1, <2>1 DEF Unmarked, IsHeader, Live
<1>19. Rests(t, f, id, n, span + 1) BY <1>1, <1>8, <1>14, <1>17, <1>18 DEF Rests
<1>20. Q[w].lu = id /\ Q[w].span = span /\ Q[w].size = AndNum(s.page[w].size, s.work.size, UNDEFINED_LEN)
  BY <1>1, <1>5, <1>8 DEF ProgramsTo
<1>21. IndexStored(s, t, w, f, id, n, span) BY <1>2, <1>8, <1>12, <1>19, <1>20 DEF IndexStored
<1> QED BY <1>6, <1>21

\* A call that ran out of pages has, whatever comes after.
LEMMA HdrStarved ==
  ASSUME NEW s, Sound(s), s.res = "OK", s.starved, NEW f, NEW id \in LiveIds, NEW old \in Pages,
         Live(s.page, old), NEW hdr, DOMAIN hdr = PageFields, NEW name, NEW size
  PROVE  update_index_hdr(s, f, id, old, hdr, name, size).starved
<1> DEFINE new == [hdr EXCEPT !.name = IF name # NoName THEN name ELSE @,
                              !.size = IF size # 0 THEN size ELSE @]
           loaded == [s EXCEPT !.work = hdr]
           valid == Validate(loaded, hdr, TRUE, 0)
           set == [valid EXCEPT !.work = new]
           moved == page_move(set, new, id, old)
           told == cb_object_event(moved, "UPD", id, new.span, moved.pix, new.size)
           owned == IF f \in Fds THEN [told EXCEPT !.fds[f].objix_hdr_pix = told.pix] ELSE told
           t == update_index_hdr(s, f, id, old, hdr, name, size)
<1> DEFINE Move(x) == page_move([x EXCEPT !.work = new], new, id, old)
           Tell(x) == cb_object_event(x, "UPD", id, new.span, x.pix, new.size)
           Own(x) == IF f \in Fds THEN [x EXCEPT !.fds[f].objix_hdr_pix = x.pix] ELSE x
           a == Then(valid, Move)
           b == Then(a, Tell)
<1>0. t = Then(b, Own)
  BY DEF update_index_hdr
<1> HIDE DEF t
<1>1. t = IF valid.res # "OK" THEN valid
          ELSE IF moved.res # "OK" THEN moved
          ELSE IF told.res # "OK" THEN told ELSE owned
  <2>1. a = IF valid.res # "OK" THEN valid ELSE moved
    <3> HIDE DEF valid
    <3> QED
      BY DEF Then, With
  <2>2. b = IF a.res # "OK" THEN a ELSE Tell(a)
    <3> HIDE DEF a
    <3> QED
      BY DEF Then, With
  <2>3. Then(b, Own) = IF b.res # "OK" THEN b ELSE Own(b)
    <3> HIDE DEF b
    <3> QED
      BY DEF Then, With
  <2>4. told = Tell(moved) /\ owned = Own(told)
    OBVIOUS
  <2> HIDE DEF a, b, valid, moved, told, owned, Tell, Own
  <2> QED
    BY <1>0, <2>1, <2>2, <2>3, <2>4
<1> HIDE DEF a, b, Move, Tell, Own
<1>2. DOMAIN new = PageFields
  OBVIOUS
<1> HIDE DEF new
<1>3. Alike(s, loaded) /\ loaded.starved /\ loaded.res = "OK" /\ DOMAIN loaded = StateFields
  BY DEF Alike, Sound, Flash, StateFields
<1> HIDE DEF loaded
<1>4. Checked(loaded, valid)
  BY <1>3, ValidateChecked
<1> HIDE DEF valid
<1>5. valid.starved /\ Alike(loaded, valid) BY <1>3, <1>4 DEF Checked
<1>6. CASE valid.res # "OK"
  <2> QED BY <1>1, <1>5, <1>6 DEF t
<1>7. CASE valid.res = "OK"
  <2>1. Alike(s, set) /\ set.res = "OK" /\ set.starved /\ DOMAIN set = StateFields
    BY <1>3, <1>5, <1>7 DEF Alike, StateFields
  <2> HIDE DEF set
  <2>2. Sound(set) /\ Live(set.page, old) BY <2>1, AlikeSound DEF Alike
  <2>3. MoveOK(set, moved, [new EXCEPT !.lu = id], old) BY <1>2, <2>1, <2>2, PageMove
  <2> HIDE DEF moved
  <2>4. moved.starved /\ Flash(moved) BY <2>1, <2>3 DEF MoveOK, Moved, NotFound, Sound
  <2>5. told.starved /\ DOMAIN told = StateFields BY <2>4 DEF cb_object_event, Flash, StateFields
  <2> HIDE DEF told
  <2>6. owned.starved BY <2>5 DEF StateFields
  <2> QED BY <1>1, <1>5, <2>4, <2>5, <2>6 DEF t
<1> QED BY <1>6, <1>7

\* The header of the object, and every descriptor of it, say that it has "size" bytes.
Stowed(t, f, id, n, m, size) ==
  /\ Rests(t, f, id, n, m)
  /\ \A h \in Pages : IsHeader(t.page, h) /\ t.page[h].lu = id => t.page[h].size = size
  /\ \A g \in Fds : t.fds[g].open /\ t.fds[g].id = id => t.fds[g].size = size

\* An object has one header.
LEMMA OneHeader ==
  ASSUME NEW P, OneVersion(P), NEW a \in Pages, NEW b \in Pages, IsHeader(P, a), IsHeader(P, b), P[a].lu = P[b].lu
  PROVE  a = b
BY DEF OneVersion, IsHeader

\* A header with a size has been stored.
LEMMA StowedPut ==
  ASSUME NEW P, NEW F, NEW t, NEW f \in Fds, NEW id, NEW n, NEW m, NEW size \in Nat \ {0},
         HeaderPut(P, F, t, id, id, size), Extent(P, id, n, m), Unmarked(P, id), F[f].open, F[f].id = id
  PROVE  Stowed(t, f, id, n, m, size)
<1>1. /\ Settled(t, id) /\ t.res = "OK" /\ t.pix \in Pages /\ IsHeader(t.page, t.pix) /\ t.page[t.pix].lu = id
      /\ t.page[t.pix].size = size /\ Told(F, t.fds, "UPD", id, 0, t.pix, size)
      /\ Extent(t.page, id, n, m) /\ Unmarked(t.page, id)
  BY DEF HeaderPut
<1>2. t.fds[f].open /\ t.fds[f].id = id
  BY <1>1 DEF Told, Follows
<1>3. ASSUME NEW g \in Fds, t.fds[g].open, t.fds[g].id = id PROVE t.fds[g].size = size
  <2>1. Follows(F[g], t.fds[g], "UPD", id, 0, t.pix, size) BY <1>1 DEF Told
  <2>2. F[g].open /\ F[g].id = id BY <1>3, <2>1 DEF Follows
  <2> QED BY <2>1, <2>2 DEF Follows
<1>4. OneVersion(t.page) BY <1>1 DEF Settled, Forest
<1>5. ASSUME NEW h \in Pages, IsHeader(t.page, h), t.page[h].lu = id PROVE t.page[h].size = size
  <2>1. h = t.pix BY <1>1, <1>4, <1>5, OneHeader
  <2> QED BY <1>1, <2>1
<1> QED BY <1>1, <1>2, <1>3, <1>5 DEF Stowed, Rests

\* The header that is in work is stored with the new size.
LEMMA ResizeWork ==
  ASSUME NEW s, NEW w, NEW f \in Fds, NEW id, NEW n, NEW at, Appends(s, w, f, id, n, 0, at), s.res = "OK",
         NEW size \in Nat \ {0}
  PROVE  LET t == update_index_hdr(s, f, id, s.fds[f].objix_hdr_pix, s.work, NoName, size)
         IN (Stopped(t) \/ Stowed(t, f, id, n, 1, size)) /\ (s.starved => t.starved)
<1> DEFINE t == update_index_hdr(s, f, id, w, s.work, NoName, size)
<1>1. /\ Busy(s, w, id) /\ s.work.lu = id /\ s.work.span = 0 /\ Extent(View(s, w), id, n, 0 + 1) /\ Unmarked(View(s, w), id)
      /\ s.fds[f].open /\ s.fds[f].id = id
  BY DEF Appends
<1>2. s.fds[f].objix_hdr_pix = w BY <1>1, WorkHeader
<1>3. size # 0 /\ size \in Nat /\ 0 + 1 = 1 OBVIOUS
<1>4. LET v == update_index_hdr(s, f, s.work.lu, w, s.work, NoName, size)
      IN Stopped(v) \/ HeaderPut(View(s, w), s.fds, v, s.work.lu, id, IF size # 0 THEN size ELSE s.work.size)
  BY <1>1, <1>3, PutBusy
<1>5. Stopped(t) \/ HeaderPut(View(s, w), s.fds, t, id, id, size) BY <1>1, <1>3, <1>4
<1>6. s.starved => t.starved
  <2>1. id \in LiveIds /\ w \in Pages /\ Live(s.page, w) /\ DOMAIN s.work = PageFields /\ Sound(s)
    BY <1>1 DEF Busy, Shape
  <2> QED BY <2>1, HdrStarved
<1> HIDE DEF t
<1>7. Stopped(t) \/ Stowed(t, f, id, n, 1, size)
  BY <1>1, <1>3, <1>5, StowedPut
<1> QED BY <1>2, <1>6, <1>7 DEF t

\* The same for the header on the flash.
LEMMA ResizeFlash ==
  ASSUME NEW s, NEW f \in Fds, NEW id, NEW n, NEW m, Rests(s, f, id, n, m), NEW size \in Nat \ {0}
  PROVE  LET w == s.fds[f].objix_hdr_pix
             t == update_index_hdr(s, f, id, w, s.page[w], NoName, size)
         IN (Stopped(t) \/ Stowed(t, f, id, n, m, size)) /\ (s.starved => t.starved)
<1> DEFINE w == s.fds[f].objix_hdr_pix
           t == update_index_hdr(s, f, id, w, s.page[w], NoName, size)
<1>1. /\ Settled(s, id) /\ s.res = "OK" /\ Extent(s.page, id, n, m) /\ Unmarked(s.page, id)
      /\ s.fds[f].open /\ s.fds[f].id = id
  BY DEF Rests
<1>2. w \in Pages /\ IsHeader(s.page, w) /\ s.page[w].lu = id /\ Sound(s)
  BY <1>1 DEF Settled, FdsOK, FdOK
<1>3. size # 0 /\ size \in Nat OBVIOUS
<1> HIDE DEF w
<1>4. LET v == update_index_hdr(s, f, s.page[w].lu, w, s.page[w], NoName, size)
      IN Stopped(v) \/ HeaderPut(s.page, s.fds, v, s.page[w].lu, id, IF size # 0 THEN size ELSE s.page[w].size)
  BY <1>1, <1>2, <1>3, PutLoaded
<1>5. Stopped(t) \/ HeaderPut(s.page, s.fds, t, id, id, size) BY <1>2, <1>3, <1>4
<1>6. s.starved => t.starved
  <2>1. id \in LiveIds /\ Live(s.page, w) /\ DOMAIN s.page[w] = PageFields
    BY <1>2 DEF Sound, Flash, PageOK, IsHeader, Live
  <2> QED BY <1>1, <1>2, <2>1, HdrStarved
<1> HIDE DEF t
<1>7. Stopped(t) \/ Stowed(t, f, id, n, m, size)
  BY <1>1, <1>5, StowedPut
<1> QED BY <1>6, <1>7 DEF t, w

\* The descriptors are told of an index page that stays where it is.
Hears(s, t, f, id, n, m, span, w, size) ==
  /\ Rests(t, f, id, n, m) /\ t.page = s.page /\ t.starved = s.starved /\ t.work = s.work
  /\ Told(s.fds, t.fds, "UPD", id, span, w, size)

\* The descriptors hear of an index page that was stored in place.
LEMMA EventRests ==
  ASSUME NEW s, NEW f \in Fds, NEW id, NEW n, NEW m, Rests(s, f, id, n, m),
         NEW w \in Pages, Live(s.page, w), s.page[w].lu = id, NEW span, s.page[w].span = span, NEW size \in Nat
  PROVE  Hears(s, cb_object_event(s, "UPD", id, span, w, size), f, id, n, m, span, w, size)
<1> DEFINE t == cb_object_event(s, "UPD", id, span, w, size)  P == s.page
<1>1. /\ Settled(s, id) /\ s.res = "OK" /\ Extent(P, id, n, m) /\ Unmarked(P, id)
      /\ s.fds[f].open /\ s.fds[f].id = id
  BY DEF Rests
<1>2. /\ Sound(s) /\ Layout(s) /\ Forest(P, id) /\ FdsOK(s.fds, P, id) /\ DOMAIN s = StateFields
      /\ FdsTyped(s.fds) /\ (\A g \in Fds : s.fds[g].open => s.fds[g].id \in IxIds) /\ id \in IxIds
  BY <1>1 DEF Settled, Sound, Flash, FdsOK, FdOK
<1>3. /\ Alike(s, t) /\ t.res = "OK" /\ t.starved = s.starved /\ t.work = s.work /\ t.free_cursor = s.free_cursor
      /\ t.pix = s.pix /\ t.cleaning = s.cleaning
  BY <1>1, <1>2 DEF cb_object_event, Alike, StateFields
<1>4. Told(s.fds, t.fds, "UPD", id, span, w, size)
  <2>1. FdsTyped(t.fds) /\ \A g \in Fds : Follows(s.fds[g], t.fds[g], "UPD", id, span, w, size)
    BY <1>2, EventFollows DEF Sound
  <2> QED BY <2>1 DEF Told
<1> HIDE DEF t, P
<1>5. Renamed(P, P, w, w, id)
  <2>1. \A q \in Pages : Live(P, q) => Shape(P[q], id) BY <1>2 DEF Forest, Shaped
  <2>2. \A q \in Pages : Live(P, q) => Alt(P[q], P[q], w, w, id) BY <2>1 DEF Alt
  <2>3. Live(P, w) BY DEF P
  <2> QED BY <2>2, <2>3 DEF Renamed
<1>6. FdsOK(t.fds, P, id)
  <2> DEFINE F == s.fds  G == t.fds
  <2>1. P[w].lu = id /\ P[w].span = span /\ IsIx(id) BY <1>2 DEF P, IxIds
  <2>2. FdsOK(F, P, id) /\ Told(F, G, "UPD", P[w].lu, P[w].span, w, size) BY <1>2, <1>4, <2>1
  <2> HIDE DEF F, G
  <2>3. FdsOK(G, P, id) BY <1>2, <1>5, <2>1, <2>2, FdsMoved
  <2> QED BY <2>3 DEF G
<1>7. OnlyFds(s, t) BY <1>1, <1>3 DEF OnlyFds
<1>8. Settled(t, id) BY <1>1, <1>6, <1>7, OnlyFdsSettled DEF P
<1>9. t.fds[f].open /\ t.fds[f].id = id BY <1>1, <1>4 DEF Told, Follows
<1>10. t.page = P BY <1>3 DEF Alike, P
<1>11. Hears(s, t, f, id, n, m, span, w, size)
  BY <1>1, <1>3, <1>4, <1>8, <1>9, <1>10 DEF Hears, Rests, P
<1> QED BY <1>11 DEF t

\* The index page behind the loop of an append is stored, and the size in the header.
Stores(r, q, f, id, n, span, at, size) ==
  /\ q = [r EXCEPT !.s = q.s] /\ (r.s.starved => q.s.starved)
  /\ Stopped(q.s) \/ Rests(q.s, f, id, n, span + 1)
  /\ at # 0 \/ span # 0 => Stopped(q.s) \/ Stowed(q.s, f, id, n, span + 1, size)

\* An append stores the index page in work before it takes the next one.
LEMMA StoreAppendedOn ==
  ASSUME NEW r, DOMAIN r = LoopFields, NEW f \in Fds, NEW id, NEW n, NEW span, NEW at \in Nat,
         Appends(r.s, r.pix, f, id, n, span, at), r.s.res = "OK", r.prev = span, r.written \in Nat,
         at + r.written # 0
  PROVE  Stores(r, StoreAppended(r, f, at), f, id, n, span, at, at + r.written)
<1> DEFINE size == at + r.written
           s == r.s
           w == r.pix
           q == StoreAppended(r, f, at)
           first == RewriteIndex([r.s EXCEPT !.work.size = size], w, 0)
           resized == update_index_hdr(s, f, id, s.fds[f].objix_hdr_pix, s.work, NoName, size)
           a == RewriteIndex(s, w, span)
           b == cb_object_event(a, "UPD", id, a.work.span, w, 0)
           c == update_index_hdr(b, f, id, b.fds[f].objix_hdr_pix, b.page[b.fds[f].objix_hdr_pix], NoName, size)
<1>1. s.fds[f].id = id /\ s.work.span = span /\ size \in Nat \ {0} BY DEF Appends
<1>2. q = [r EXCEPT !.s = IF span = 0 THEN IF at = 0 THEN first ELSE resized
                          ELSE Then(Then(a, LAMBDA t : cb_object_event(t, "UPD", id, t.work.span, w, 0)),
                                    LAMBDA t : update_index_hdr(t, f, id, t.fds[f].objix_hdr_pix,
                                                                t.page[t.fds[f].objix_hdr_pix], NoName, size))]
  <2> HIDE DEF a, b, c
  <2> QED BY <1>1 DEF StoreAppended, a
<1> HIDE DEF q
<1>3. CASE span = 0 /\ at = 0
  <2> DEFINE v == [r.s EXCEPT !.work.size = size]
  <2>1. Appends(v, w, f, id, n, span, at) /\ v.res = "OK" /\ v.starved = s.starved
    <3>1. Appends(s, w, f, id, n, span, at) /\ s.res = "OK" /\ v = SizeWork(s, size)
      BY DEF SizeWork
    <3> HIDE DEF s, w, size, v
    <3> QED
      BY <3>1, WorkSize
  <2> HIDE DEF v
  <2>2. IndexStored(v, first, w, f, id, n, span) BY <1>3, <2>1, RewriteIndexOn DEF v
  <2> HIDE DEF first
  <2>3. Rests(first, f, id, n, span + 1) /\ first.starved = s.starved BY <2>1, <2>2 DEF IndexStored
  <2>4. q = [r EXCEPT !.s = first] BY <1>2, <1>3
  <2>5. q.s = first /\ q = [r EXCEPT !.s = q.s] BY <2>4 DEF LoopFields
  <2>6. Stores(r, q, f, id, n, span, at, size) BY <1>3, <2>3, <2>5 DEF Stores
  <2> QED BY <2>6 DEF q
<1>4. CASE span = 0 /\ at # 0
  <2>1. (Stopped(resized) \/ Stowed(resized, f, id, n, 1, size)) /\ (s.starved => resized.starved)
    <3>1. Appends(s, w, f, id, n, 0, at) BY <1>4
    <3> HIDE DEF size
    <3> QED BY <1>1, <3>1, ResizeWork
  <2> HIDE DEF resized
  <2>2. q = [r EXCEPT !.s = resized] BY <1>2, <1>4
  <2>3. q.s = resized /\ q = [r EXCEPT !.s = q.s] BY <2>2 DEF LoopFields
  <2>4. span + 1 = 1 BY <1>4
  <2>5. Stores(r, q, f, id, n, span, at, size) BY <1>4, <2>1, <2>3, <2>4 DEF Stores, Stowed
  <2> QED BY <2>5 DEF q
<1>5. CASE span # 0
  <2>1. IndexStored(s, a, w, f, id, n, span) BY RewriteIndexOn
  <2> HIDE DEF a
  <2>2. /\ Rests(a, f, id, n, span + 1) /\ a.starved = s.starved /\ a.work.span = span /\ a.res = "OK"
        /\ w \in Pages /\ Live(a.page, w) /\ a.page[w].lu = id /\ a.page[w].span = span
    BY <1>1, <2>1 DEF IndexStored, Rests
  <2>3. Hears(a, b, f, id, n, span + 1, span, w, 0)
    <3> DEFINE m == span + 1
    <3>1. Rests(a, f, id, n, m) BY <2>2
    <3> HIDE DEF m
    <3>2. 0 \in Nat OBVIOUS
    <3>3. Hears(a, cb_object_event(a, "UPD", id, span, w, 0), f, id, n, m, span, w, 0)
      BY <2>2, <3>1, <3>2, EventRests
    <3> QED BY <3>3, <2>2 DEF m
  <2> HIDE DEF b
  <2>4. Rests(b, f, id, n, span + 1) /\ b.starved = s.starved /\ b.res = "OK" BY <2>2, <2>3 DEF Hears, Rests
  <2>5. (Stopped(c) \/ Stowed(c, f, id, n, span + 1, size)) /\ (b.starved => c.starved)
    <3> DEFINE m == span + 1
    <3>1. Rests(b, f, id, n, m) BY <2>4
    <3> HIDE DEF m, size
    <3>2. (Stopped(c) \/ Stowed(c, f, id, n, m, size)) /\ (b.starved => c.starved) BY <1>1, <3>1, ResizeFlash
    <3> QED BY <3>2 DEF m
  <2> HIDE DEF c
  <2>6. q = [r EXCEPT !.s = c]
    <3> DEFINE Tell(t) == cb_object_event(t, "UPD", id, t.work.span, w, 0)
               Resize(t) == update_index_hdr(t, f, id, t.fds[f].objix_hdr_pix, t.page[t.fds[f].objix_hdr_pix], NoName, size)
    <3>1. Tell(a) = b /\ Resize(b) = c BY DEF b, c
    <3>2. q = [r EXCEPT !.s = Then(Then(a, Tell), Resize)] BY <1>2, <1>5
    <3> HIDE DEF Tell, Resize
    <3>3. Then(a, Tell) = b BY <2>2, <3>1 DEF Then, With
    <3>4. Then(b, Resize) = c BY <2>4, <3>1 DEF Then, With
    <3> QED BY <3>2, <3>3, <3>4
  <2>7. q.s = c /\ q = [r EXCEPT !.s = q.s] BY <2>6 DEF LoopFields
  <2>8. Stores(r, q, f, id, n, span, at, size) BY <1>5, <2>4, <2>5, <2>7 DEF Stores, Stowed
  <2> QED BY <2>8 DEF q
<1> QED BY <1>3, <1>4, <1>5

\* A new index page, all entries free, is in work.
Took(r, q, f, id, n, m, at) ==
  /\ q = [r EXCEPT !.s = q.s, !.pix = q.pix]
  /\ \/ Stopped(q.s)
     \/ Appends(q.s, q.pix, f, id, n, m, at) /\ q.s.res = "OK" /\ q.s.starved = r.s.starved

\* Index page x of the object comes to the flash: what the page holds and what the
\* descriptors know after it.
LEMMA IndexComes ==
  ASSUME NEW s, NEW f \in Fds, NEW id, NEW n, NEW m \in Nat \ {0}, Rests(s, f, id, n, m),
         NEW pg, PageOf(pg, id, m, {"FINAL", "INDEX"}), NEW t, Occupied(s, t, pg)
  PROVE  LET e == cb_object_event(t, "NEW", id, m, t.pix, 0)
         IN /\ Rests(e, f, id, n, m + 1) /\ e.starved = s.starved
            /\ e.pix \in Pages /\ Live(e.page, e.pix) /\ e.page[e.pix] = pg
<1> DEFINE P == s.page
           Q == t.page
           x == t.pix
           e == cb_object_event(t, "NEW", id, m, x, 0)
<1>0. /\ Sound(s) /\ Layout(s) /\ Forest(P, id) /\ FdsOK(s.fds, P, id) /\ s.fds[f].open /\ s.fds[f].id = id
      /\ id \in IxIds /\ Extent(P, id, n, m) /\ Unmarked(P, id)
  BY DEF Settled, FdsOK, FdOK, Rests
<1>00. id \in LiveIds /\ IsIx(id) BY <1>0 DEF IxIds
<1>1. /\ Sound(t) /\ Layout(t) /\ t.fds = s.fds /\ t.starved = s.starved /\ t.res = "OK"
      /\ x \in Pages /\ ~Live(P, x) /\ Q[x] = pg
      /\ \A p \in Pages : p # x /\ (Live(P, p) \/ Live(Q, p)) => Q[p] = P[p]
  BY <1>0 DEF Occupied, Same
<1>2. Live(Q, x)
  BY <1>00, <1>1, LiveLu DEF Live, PageOf
<1>3. Besides(P, Q, {x})
  BY <1>1 DEF Besides, Live
<1>4. Shape(pg, id)
  <2>1. "FINAL" \in pg.flags /\ "USED" \in pg.flags /\ "INDEX" \in pg.flags
        /\ ("IXDELE" \in pg.flags) = FALSE /\ ("DELET" \in pg.flags) = FALSE
    BY DEF PageOf
  <2>2. IsIx(pg.lu) /\ pg.lu = id /\ pg.id = id /\ pg.span = m /\ DOMAIN pg.ix = Entries
    BY <1>00 DEF PageOf, Entries
  <2> QED BY <1>00, <2>1, <2>2 DEF Shape
<1>6. \A k \in Entries : pg.ix[k] = FREE
  BY DEF PageOf, Entries
<1>7. pg.lu = id /\ pg.span = m /\ m # 0 BY DEF PageOf
<1> HIDE DEF P, Q, x
<1>8. Forest(Q, id) /\ Extent(Q, id, n, m + 1)
  <2>2. Q[x].lu = id /\ Q[x].span = m /\ Shape(Q[x], id) /\ (\A k \in Entries : Q[x].ix[k] = FREE)
    BY <1>1, <1>4, <1>6, <1>7
  <2> QED
    BY <1>0, <1>00, <1>1, <1>2, <1>3, <2>2, AddIndex
<1>9. Unmarked(Q, id)
  <2> SUFFICES ASSUME NEW h \in Pages, IsHeader(Q, h), Q[h].lu = id PROVE "IXDELE" \notin Q[h].flags
    BY DEF Unmarked
  <2>1. h # x BY <1>1, <1>7 DEF IsHeader
  <2>2. IsHeader(P, h) /\ Q[h] = P[h] BY <1>1, <2>1 DEF IsHeader, Live
  <2> QED BY <1>0, <2>2 DEF Unmarked
<1>11. /\ Alike(t, e) /\ e.pix = t.pix /\ e.res = "OK"
  BY <1>1, ObjectEvent DEF Sound, x
<1>12. e.starved = t.starved /\ e.free_cursor = t.free_cursor
  BY <1>1 DEF cb_object_event, Sound, Flash, StateFields
<1>13. Told(s.fds, e.fds, "NEW", id, m, x, 0)
  <2>1. FdsTyped(t.fds) /\ \A g \in Fds : t.fds[g].open => t.fds[g].id \in IxIds
    BY <1>0, <1>1 DEF FdsOK, FdOK
  <2>2. FdsTyped(e.fds) /\ \A g \in Fds : Follows(t.fds[g], e.fds[g], "NEW", id, m, x, 0)
    BY <1>0, <1>1, <2>1, EventFollows DEF Sound
  <2> QED
    BY <1>1, <2>2 DEF Told
<1> HIDE DEF e
<1>14. FdsOK(e.fds, Q, id)
  <2>2. Told(s.fds, e.fds, "NEW", Q[x].lu, Q[x].span, x, 0) /\ IsIx(Q[x].lu) /\ Q[x].span # 0
    BY <1>00, <1>1, <1>7, <1>13
  <2> QED
    BY <1>0, <1>1, <1>2, <1>3, <2>2, FdsCame DEF Forest
<1>15. Sound(e)
  BY <1>1, <1>11, AlikeSound
<1>16. Settled(e, id)
  BY <1>1, <1>8, <1>11, <1>12, <1>14, <1>15 DEF Settled, Alike, Layout, CursorOK, Q
<1>17. e.fds[f].open /\ e.fds[f].id = id
  <2>1. Follows(s.fds[f], e.fds[f], "NEW", id, m, x, 0) BY <1>13 DEF Told
  <2> QED BY <1>0, <2>1 DEF Follows
<1>18. e.page = Q BY <1>11 DEF Alike, Q
<1> QED
  BY <1>1, <1>2, <1>8, <1>9, <1>11, <1>12, <1>16, <1>17, <1>18 DEF e, x, Rests

\* An index page on the flash is read into work.
LEMMA LoadAppends ==
  ASSUME NEW s, NEW f \in Fds, NEW id, NEW n, NEW span, Rests(s, f, id, n, span + 1),
         NEW w \in Pages, Live(s.page, w), s.page[w].lu = id, s.page[w].span = span,
         NEW at, at = 0 /\ span = 0 => s.page[w].size = UNDEFINED_LEN,
         NEW t, Still(s, t), t.work = s.page[w]
  PROVE  Appends(t, w, f, id, n, span, at) /\ t.res = "OK" /\ t.starved = s.starved
<1>1. /\ Settled(s, id) /\ s.res = "OK" /\ Extent(s.page, id, n, span + 1) /\ Unmarked(s.page, id)
      /\ s.fds[f].open /\ s.fds[f].id = id /\ IsIx(id)
  BY DEF Rests, Settled, FdsOK, FdOK, IxIds
<1>2. Loaded(s, t, w, id) BY <1>1, LoadBusy
<1>3. Busy(t, w, id) /\ (\A q \in Pages : View(t, w)[q] = s.page[q]) /\ Renamed(s.page, View(t, w), w, w, id)
  BY <1>2 DEF Loaded
<1>4. Extent(View(t, w), id, n, span + 1) BY <1>1, <1>3, RenameExtent
<1>5. Unmarked(View(t, w), id) BY <1>1, <1>3 DEF Unmarked, IsHeader, Live
<1>6. t.page = s.page /\ t.fds = s.fds /\ t.res = "OK" /\ t.starved = s.starved
  BY <1>1 DEF Still, Alike
<1>7. Shape(s.page[w], id) BY <1>1 DEF Settled, Forest, Shaped
<1>8. Over(t.page[w], t.work) BY <1>6 DEF Over
<1> QED BY <1>1, <1>3, <1>4, <1>5, <1>6, <1>8 DEF Appends

\* A new index page comes behind the last one of the object.
LEMMA NewIndexOn ==
  ASSUME NEW r, DOMAIN r = LoopFields, NEW f \in Fds, NEW id, NEW n, NEW m \in Nat \ {0}, Rests(r.s, f, id, n, m),
         NEW at
  PROVE  Took(r, NewIndexPage(r, f, m), f, id, n, m, at)
<1> DEFINE s == r.s
           a == page_allocate_data(s, id, m, {"FINAL", "INDEX"}, <<>>)
           e == cb_object_event(a, "NEW", id, m, a.pix, 0)
           l == [e EXCEPT !.work = a.page[a.pix]]
           t == IF a.res = "OK" THEN l ELSE a
           q == NewIndexPage(r, f, m)
<1>1. /\ Settled(s, id) /\ s.res = "OK" /\ s.fds[f].id = id /\ id \in LiveIds /\ Sound(s) /\ Layout(s)
  BY DEF Rests, Settled, FdsOK, FdOK, IxIds
<1>2. q = [r EXCEPT !.s = t, !.pix = t.pix]
  <2> DEFINE Note(x) == [cb_object_event(x, "NEW", id, m, x.pix, 0) EXCEPT !.work = x.page[x.pix]]
             Here(x) == AtPage(r, x)
  <2>1. q = With(Here, Then(a, Note))
    BY <1>1 DEF NewIndexPage
  <2>2. Note(a) = l OBVIOUS
  <2> HIDE DEF a, e, l, Note, q
  <2>3. Then(a, Note) = t BY <2>2 DEF Then, With
  <2> HIDE DEF t
  <2> QED BY <2>1, <2>3 DEF With, AtPage
<1> HIDE DEF q
<1>3. Allocated(s, a, id, m, {"FINAL", "INDEX"}) BY <1>1, AllocateData
<1> HIDE DEF a
<1>4. Stopped(t) \/ (Appends(t, t.pix, f, id, n, m, at) /\ t.res = "OK" /\ t.starved = s.starved)
  <2>1. CASE NotFound(s, a)
    <3>1. t = a /\ Stopped(a) BY <2>1 DEF NotFound, Stopped
    <3> QED BY <3>1
  <2>2. CASE \E pg : PageOf(pg, id, m, {"FINAL", "INDEX"}) /\ Occupied(s, a, pg)
    <3>1. PICK pg : PageOf(pg, id, m, {"FINAL", "INDEX"}) /\ Occupied(s, a, pg) BY <2>2
    <3>2. /\ Rests(e, f, id, n, m + 1) /\ e.starved = s.starved
          /\ e.pix \in Pages /\ Live(e.page, e.pix) /\ e.page[e.pix] = pg
      <4> HIDE DEF s
      <4> QED BY <3>1, IndexComes DEF s
    <3>3. a.res = "OK" /\ Flash(a) BY <3>1 DEF Occupied, Sound
    <3>4. Alike(a, e) /\ e.pix = a.pix BY <3>3, ObjectEvent
    <3> HIDE DEF e
    <3>5. l = [e EXCEPT !.work = e.page[e.pix]] BY <3>4 DEF Alike
    <3>6. DOMAIN e = StateFields BY <3>4 DEF Alike
    <3>7. Still(e, l) /\ l.work = e.page[e.pix] /\ l.pix = e.pix BY <3>5, <3>6 DEF Still, Alike, StateFields
    <3> HIDE DEF l
    <3>8. e.page[e.pix].lu = id /\ e.page[e.pix].span = m BY <3>1, <3>2 DEF PageOf
    <3> DEFINE w == e.pix
    <3>9. Appends(l, w, f, id, n, m, at) /\ l.res = "OK" /\ l.starved = e.starved
      <4>1. w \in Pages /\ Live(e.page, w) /\ e.page[w].lu = id /\ e.page[w].span = m /\ l.work = e.page[w]
        BY <3>2, <3>7, <3>8
      <4> HIDE DEF w
      <4> QED BY <3>2, <3>7, <4>1, LoadAppends
    <3> QED BY <3>2, <3>3, <3>7, <3>9
  <2> QED BY <1>3, <2>1, <2>2 DEF Allocated
<1> HIDE DEF t
<1>5. q.s = t /\ q.pix = t.pix /\ q = [r EXCEPT !.s = q.s, !.pix = q.pix] BY <1>2 DEF LoopFields
<1>6. Took(r, q, f, id, n, m, at) BY <1>4, <1>5 DEF Took
<1> QED BY <1>6 DEF q

\* The header of an object of no size says so.
Sizeless(P, id) == \A h \in Pages : IsHeader(P, h) /\ P[h].lu = id => P[h].size = UNDEFINED_LEN

\* An index page of the object is loaded.
LEMMA LoadIndexOn ==
  ASSUME NEW r, DOMAIN r = LoopFields, NEW f \in Fds, NEW id, NEW n, NEW span \in Nat, Rests(r.s, f, id, n, span + 1),
         span = 0 => r.pix = r.s.fds[f].objix_hdr_pix,
         NEW at, at = 0 /\ span = 0 => Sizeless(r.s.page, id)
  PROVE  Took(r, LoadIndex(r, f, span), f, id, n, span, at)
<1> DEFINE q == LoadIndex(r, f, span)
           m == span + 1
           s == r.s  t == q.s  w == q.pix
<1>1. /\ Settled(s, id) /\ s.res = "OK" /\ Extent(s.page, id, n, m) /\ Unmarked(s.page, id)
      /\ s.fds[f].open /\ s.fds[f].id = id /\ IsIx(id)
  BY DEF Rests, Settled, FdsOK, FdOK, IxIds
<1>2. q = [r EXCEPT !.s = t, !.pix = w] /\ Entered(s, t, w, f, id, span)
  <2>1. m \in Nat /\ span < m OBVIOUS
  <2>2. Extent(s.page, s.fds[f].id, n, m) BY <1>1
  <2>3. Settled(r.s, id) /\ r.s.res = "OK" /\ r.s.fds[f].open /\ Extent(r.s.page, r.s.fds[f].id, n, m)
    BY <1>1, <2>2
  <2> HIDE DEF m
  <2>4. LET x == LoadIndex(r, f, span)
        IN x = [r EXCEPT !.s = x.s, !.pix = x.pix] /\ Entered(r.s, x.s, x.pix, f, id, span) /\ x.s.fds = r.s.fds
    BY <2>1, <2>3, LoadIndexBusy
  <2> QED BY <2>4
<1> HIDE DEF q
<1>3. /\ Busy(t, w, id) /\ t.res = "OK" /\ SameFiles(s, t) /\ t.work.lu = id /\ t.work.span = span
      /\ (\A p \in Pages : View(t, w)[p] = s.page[p])
      /\ \A ix, k, j : Extent(s.page, ix, k, j) => Extent(View(t, w), ix, k, j)
  BY <1>1, <1>2 DEF Entered
<1>4. t.page = s.page /\ t.starved = s.starved /\ t.fds[f].open /\ t.fds[f].id = id BY <1>1, <1>3 DEF SameFiles
<1>5. Extent(View(t, w), id, n, span + 1) BY <1>1, <1>3
<1>6. Unmarked(View(t, w), id) BY <1>1, <1>3 DEF Unmarked, IsHeader, Live
<1>7. w \in Pages /\ t.work = s.page[w] /\ Live(s.page, w) /\ Shape(s.page[w], id)
  <2>1. w \in Pages /\ Sound(t) /\ Live(t.page, w) /\ Shape(t.page[w], id) BY <1>3 DEF Busy
  <2>2. View(t, w)[w] = t.work BY <2>1, ViewPage
  <2> QED BY <1>3, <1>4, <2>1, <2>2
<1>8. Over(t.page[w], t.work) BY <1>4, <1>7 DEF Over
<1>9. at = 0 /\ span = 0 => t.page[w].size = UNDEFINED_LEN BY <1>1, <1>3, <1>4, <1>7 DEF Sizeless, IsHeader
<1>10. Appends(t, w, f, id, n, span, at) BY <1>3, <1>4, <1>5, <1>6, <1>8, <1>9 DEF Appends
<1>11. Took(r, q, f, id, n, span, at) BY <1>2, <1>3, <1>4, <1>10 DEF Took
<1> QED BY <1>11 DEF q

\* Before the first chunk of an append every page is in its place. Behind a chunk the
\* index page of the last data page is in work.
Starting(r, f, id, n, at) ==
  /\ ~r.ret /\ r.prev = -1 /\ r.span = 0 /\ r.written = 0 /\ r.pix = r.s.fds[f].objix_hdr_pix
  /\ Rests(r.s, f, id, n, IxCount(n)) /\ r.s.fds[f].size \in Nat
  /\ at = 0 => Sizeless(r.s.page, id)

Entering(r, f, id, n, span, at, written) ==
  /\ ~r.ret /\ r.prev = span /\ r.span = span /\ r.written = written /\ written \in Nat
  /\ Appends(r.s, r.pix, f, id, n, span, at) /\ r.s.res = "OK"

\* The index page of the next data page is there, as the last one, or it is to come.
Lone(r, f, id, n, m, span, at, written) ==
  /\ DOMAIN r = LoopFields /\ ~r.ret /\ r.written = written /\ written \in Nat
  /\ Rests(r.s, f, id, n, m) /\ span \in {m - 1, m}
  /\ span > 0 /\ (r.written > 0 \/ span > IxSpan((r.s.fds[f].size - 1) \div DATA_PAGE_SIZE)) <=> span = m
  /\ span = 0 => r.pix = r.s.fds[f].objix_hdr_pix
  /\ at = 0 /\ span = 0 => Sizeless(r.s.page, id)

Comes(s, f, span, m) ==
  /\ span \in {m - 1, m}
  /\ span > 0 => (span > IxSpan((s.fds[f].size - 1) \div DATA_PAGE_SIZE) <=> span = m)

\* The index page left behind is stored, and the descriptor gets its size.
GrownSize(r, offset, written, f) == [r EXCEPT !.s.fds[f].size = IF written > 0 THEN offset + written ELSE @]

\* The header says how much was appended before an append takes the next index page.
LEMMA GrownLone ==
  ASSUME NEW r, DOMAIN r = LoopFields, NEW f \in Fds, NEW id, NEW n, NEW m \in Nat \ {0}, NEW at \in Nat,
         NEW span \in Nat, NEW written \in Nat, r.written = written, ~r.ret, Rests(r.s, f, id, n, m),
         \/ written > 0 /\ span = m
         \/ /\ written = 0 /\ Comes(r.s, f, span, m) /\ r.pix = r.s.fds[f].objix_hdr_pix
            /\ r.s.fds[f].size \in Nat /\ (at = 0 => Sizeless(r.s.page, id))
  PROVE  Lone(GrownSize(r, at, written, f), f, id, n, m, span, at, written)
<1> DEFINE s == r.s
           k == IF written > 0 THEN at + written ELSE s.fds[f].size
           t == [s EXCEPT !.fds[f].size = k]
           q == GrownSize(r, at, written, f)
<1>1. q = [r EXCEPT !.s = t] BY DEF GrownSize
<1>2. Settled(s, id) /\ s.res = "OK" /\ s.fds[f].id = id /\ s.fds[f].open /\ Extent(s.page, id, n, m) /\ Unmarked(s.page, id)
  BY DEF Rests
<1> HIDE DEF q
<1>3. q.s = t /\ DOMAIN q = LoopFields /\ q.ret = r.ret /\ q.written = r.written /\ q.pix = r.pix
  BY <1>1 DEF LoopFields
<1>4. k \in Nat BY DEF Comes
<1>5. OtherSize(s, t, f, k, id)
  <2> HIDE DEF k, s
  <2> QED BY <1>2, <1>4, SizeSettled
<1> HIDE DEF t
<1>6. Rests(t, f, id, n, m) /\ t.page = s.page /\ t.fds[f].size = k /\ t.fds[f].objix_hdr_pix = s.fds[f].objix_hdr_pix
  BY <1>2, <1>5 DEF OtherSize, Rests
<1>7. CASE written > 0 /\ span = m
  <2>1. q.written > 0 /\ q.written = written /\ ~q.ret /\ Rests(q.s, f, id, n, m) BY <1>3, <1>6, <1>7
  <2>2. span \in {m - 1, m} /\ span > 0 BY <1>7
  <2> HIDE DEF k
  <2>3. Lone(q, f, id, n, m, span, at, written) BY <1>3, <1>7, <2>1, <2>2 DEF Lone
  <2> QED BY <2>3 DEF q
<1>8. CASE written = 0 /\ Comes(s, f, span, m) /\ r.pix = s.fds[f].objix_hdr_pix
           /\ s.fds[f].size \in Nat /\ (at = 0 => Sizeless(s.page, id))
  <2>1. k = s.fds[f].size BY <1>8
  <2>2. t.fds[f].size = s.fds[f].size BY <1>6, <2>1
  <2> DEFINE z == IxSpan((s.fds[f].size - 1) \div DATA_PAGE_SIZE)
  <2>3. IxSpan((t.fds[f].size - 1) \div DATA_PAGE_SIZE) = z BY <2>2
  <2>4. span \in {m - 1, m} /\ (span > 0 => (span > z <=> span = m)) BY <1>8 DEF Comes
  <2> HIDE DEF z, k
  <2>5. span > 0 /\ (q.written > 0 \/ span > z) <=> span = m BY <1>3, <1>8, <2>4
  <2>6. span > 0 /\ (q.written > 0 \/ span > IxSpan((q.s.fds[f].size - 1) \div DATA_PAGE_SIZE)) <=> span = m
    BY <1>3, <2>3, <2>5
  <2>7. q.s.fds[f].objix_hdr_pix = q.pix /\ (at = 0 => Sizeless(q.s.page, id)) BY <1>3, <1>6, <1>8
  <2>8. ~q.ret /\ q.written = written /\ Rests(q.s, f, id, n, m) BY <1>3, <1>6
  <2>9. Lone(q, f, id, n, m, span, at, written) BY <1>3, <2>4, <2>6, <2>7, <2>8 DEF Lone
  <2> QED BY <2>9 DEF q
<1> QED BY <1>7, <1>8

\* The index page of the next data page comes into work.
NextIndex(r, f, span) ==
  IF span > 0 /\ (r.written > 0 \/ span > IxSpan((r.s.fds[f].size - 1) \div DATA_PAGE_SIZE))
  THEN NewIndexPage(r, f, span) ELSE LoadIndex(r, f, span)

\* An append takes the next index page: a new one, or the one that is there.
LEMMA NextIndexOn ==
  ASSUME NEW r, NEW f \in Fds, NEW id, NEW n, NEW m \in Nat \ {0}, NEW span \in Nat, NEW at, NEW written,
         Lone(r, f, id, n, m, span, at, written)
  PROVE  Took(r, NextIndex(r, f, span), f, id, n, span, at)
<1>1. /\ DOMAIN r = LoopFields /\ Rests(r.s, f, id, n, m) /\ span \in {m - 1, m}
      /\ span = 0 => r.pix = r.s.fds[f].objix_hdr_pix
      /\ at = 0 /\ span = 0 => Sizeless(r.s.page, id)
  BY DEF Lone
<1>2. NextIndex(r, f, span) = IF span = m THEN NewIndexPage(r, f, span) ELSE LoadIndex(r, f, span)
  BY DEF Lone, NextIndex
<1>3. CASE span = m
  <2>1. Took(r, NewIndexPage(r, f, m), f, id, n, m, at) BY <1>1, NewIndexOn
  <2> QED BY <1>2, <1>3, <2>1
<1>4. CASE span # m
  <2>1. span + 1 = m BY <1>1, <1>4
  <2>2. Rests(r.s, f, id, n, span + 1) BY <1>1, <2>1
  <2>3. Took(r, LoadIndex(r, f, span), f, id, n, span, at) BY <1>1, <2>2, LoadIndexOn
  <2> QED BY <1>2, <1>4, <2>3
<1> QED BY <1>3, <1>4

\* The cursor goes to the index page that came into work, unless it is the header.
EnterIndexPage(r, f, span, offset) ==
  IF r.s.res # "OK" \/ span = 0 THEN r
  ELSE [r EXCEPT !.s = SetCursor(r.s, f, r.pix, span), !.s.fds[f].size = offset + r.written]

CursorThere(r, q, f, id, n, span, at) ==
  /\ DOMAIN q = LoopFields /\ q.pix = r.pix /\ q.written = r.written
  /\ Stopped(q.s) \/ (Appends(q.s, r.pix, f, id, n, span, at) /\ q.s.res = "OK")

\* The cursor goes to the index page that was taken.
LEMMA EnterIndexPageOn ==
  ASSUME NEW r, DOMAIN r = LoopFields, NEW f \in Fds, NEW id, NEW n, NEW span \in Nat, NEW at \in Nat, r.written \in Nat,
         Stopped(r.s) \/ (Appends(r.s, r.pix, f, id, n, span, at) /\ r.s.res = "OK")
  PROVE  CursorThere(r, EnterIndexPage(r, f, span, at), f, id, n, span, at)
<1> DEFINE s == r.s
           w == r.pix
           size == at + r.written
           t == [SetCursor(s, f, w, span) EXCEPT !.fds[f].size = size]
           q == EnterIndexPage(r, f, span, at)
<1>1. CASE r.s.res # "OK" \/ span = 0
  <2>1. q = r BY <1>1 DEF EnterIndexPage
  <2> HIDE DEF q
  <2>2. CursorThere(r, q, f, id, n, span, at) BY <2>1 DEF CursorThere
  <2> QED BY <2>2 DEF q
<1>2. CASE ~(r.s.res # "OK" \/ span = 0)
  <2>1. q = [r EXCEPT !.s = t] BY <1>2 DEF EnterIndexPage, LoopFields
  <2>2. Appends(s, w, f, id, n, span, at) /\ s.res = "OK" BY <1>2 DEF Stopped
  <2>3. Appends(t, w, f, id, n, span, at) /\ t.res = s.res
    <3>1. size \in Nat OBVIOUS
    <3> HIDE DEF s, w, size
    <3> QED BY <2>2, <3>1, CursorAppends
  <2> HIDE DEF t, q
  <2>4. q.s = t /\ DOMAIN q = LoopFields /\ q.pix = r.pix /\ q.written = r.written BY <2>1 DEF LoopFields
  <2>5. CursorThere(r, q, f, id, n, span, at) BY <2>2, <2>3, <2>4 DEF CursorThere
  <2> QED BY <2>5 DEF q
<1> QED BY <1>1, <1>2

\* The index page of the next data page of an append.
LEMMA SwitchAppendOn ==
  ASSUME NEW r, DOMAIN r = LoopFields, NEW f \in Fds, NEW id, NEW n, NEW m \in Nat \ {0}, NEW at \in Nat,
         NEW span \in Nat,
         \/ Starting(r, f, id, n, at) /\ m = IxCount(n) /\ Comes(r.s, f, span, m)
         \/ Entering(r, f, id, n, m - 1, at, r.written) /\ r.written # 0 /\ span = m
  PROVE  LET q == SwitchAppend(r, f, at, span)
         IN DOMAIN q = LoopFields /\ (Broken(q) \/ Entering(q, f, id, n, span, at, r.written))
<1> DEFINE q0 == IF r.written > 0 THEN StoreAppended(r, f, at) ELSE r
           q1 == GrownSize(q0, at, r.written, f)
           q2 == NextIndex(q1, f, span)
           q3 == EnterIndexPage(q2, f, span, at)
           q4 == IF q0.s.res # "OK" THEN q0 ELSE [q3 EXCEPT !.prev = span, !.span = span]
           q == [q4 EXCEPT !.ret = q4.s.res # "OK"]
           written == r.written
<1>1. SwitchAppend(r, f, at, span) = q
  <2> DEFINE Grown(x) == [x EXCEPT !.s.fds[f].size = IF r.written > 0 THEN at + r.written ELSE @]
             Next0(x) ==
               IF span > 0 /\ (x.written > 0 \/ span > IxSpan((x.s.fds[f].size - 1) \div DATA_PAGE_SIZE))
               THEN NewIndexPage(x, f, span) ELSE LoadIndex(x, f, span)
             Enter(x) ==
               IF x.s.res # "OK" \/ span = 0 THEN x
               ELSE [x EXCEPT !.s = SetCursor(x.s, f, x.pix, span),
                              !.s.fds[f].size = at + x.written]
             Go(x) == IF x.s.res # "OK" THEN x
                      ELSE [With(Enter, With(Next0, Grown(x))) EXCEPT !.prev = span, !.span = span]
  <2>1. SwitchAppend(r, f, at, span)
          = With(Returning, With(Go, IF r.written > 0 THEN StoreAppended(r, f, at) ELSE r))
    BY DEF SwitchAppend
  <2>2. With(Go, q0) = q4
    <3> HIDE DEF q0
    <3>1. Grown(q0) = q1 BY DEF GrownSize
    <3> HIDE DEF Grown, q1
    <3>2. With(Next0, q1) = q2 BY DEF With, NextIndex
    <3> HIDE DEF Next0, q2
    <3>3. With(Enter, q2) = q3 BY DEF With, EnterIndexPage
    <3> HIDE DEF Enter, q3
    <3> QED BY <3>1, <3>2, <3>3 DEF With
  <2> HIDE DEF Go, q4
  <2> QED BY <2>1, <2>2 DEF q0, With, Returning
<1>2. written \in Nat /\ ~r.ret BY DEF Starting, Entering
<1>3. /\ DOMAIN q0 = LoopFields /\ ~q0.ret /\ q0.written = written
      /\ Stopped(q0.s) \/ Rests(q0.s, f, id, n, m)
      /\ \/ written > 0 /\ span = m
         \/ /\ written = 0 /\ Comes(q0.s, f, span, m) /\ q0.pix = q0.s.fds[f].objix_hdr_pix
            /\ q0.s.fds[f].size \in Nat /\ (at = 0 => Sizeless(q0.s.page, id))
  <2>1. CASE Starting(r, f, id, n, at) /\ m = IxCount(n) /\ Comes(r.s, f, span, m)
    <3>1. q0 = r BY <2>1 DEF Starting
    <3> HIDE DEF q0
    <3> QED BY <2>1, <3>1 DEF Starting
  <2>2. CASE Entering(r, f, id, n, m - 1, at, r.written) /\ r.written # 0 /\ span = m
    <3> DEFINE v == StoreAppended(r, f, at)  k == m - 1
    <3>1. q0 = v BY <2>2, <1>2
    <3>2. Stores(r, v, f, id, n, k, at, at + r.written)
      <4>1. Appends(r.s, r.pix, f, id, n, k, at) /\ r.s.res = "OK" /\ r.prev = k /\ r.written \in Nat /\ at + r.written # 0
        BY <2>2 DEF Entering
      <4> HIDE DEF k, v
      <4> QED BY <4>1, StoreAppendedOn DEF v
    <3> HIDE DEF v, q0
    <3>3. v = [r EXCEPT !.s = v.s] /\ (Stopped(v.s) \/ Rests(v.s, f, id, n, k + 1)) BY <3>2 DEF Stores
    <3>4. k + 1 = m OBVIOUS
    <3>5. DOMAIN v = LoopFields /\ v.ret = r.ret /\ v.written = r.written BY <3>3 DEF LoopFields
    <3> HIDE DEF k
    <3> QED BY <2>2, <3>1, <3>3, <3>4, <3>5, <1>2
  <2> QED BY <2>1, <2>2
<1> HIDE DEF q0
<1>4. CASE q0.s.res # "OK"
  <2>1. Stopped(q0.s) BY <1>3, <1>4 DEF Rests
  <2>2. q = [q0 EXCEPT !.ret = TRUE] BY <1>4
  <2> HIDE DEF q
  <2>3. DOMAIN q = LoopFields /\ q.ret /\ q.s = q0.s BY <1>3, <2>2 DEF LoopFields
  <2> QED BY <1>1, <2>1, <2>3 DEF Broken
<1>5. CASE q0.s.res = "OK"
  <2>1. Rests(q0.s, f, id, n, m) BY <1>3, <1>5 DEF Stopped
  <2>2. Lone(q1, f, id, n, m, span, at, written)
    <3> HIDE DEF written
    <3> QED BY <1>2, <1>3, <2>1, GrownLone DEF written
  <2> HIDE DEF q1
  <2>3. Took(q1, q2, f, id, n, span, at) BY <2>2, NextIndexOn
  <2> HIDE DEF q2
  <2>4. DOMAIN q1 = LoopFields /\ ~q1.ret /\ q1.written = written BY <2>2 DEF Lone
  <2>5. /\ q2 = [q1 EXCEPT !.s = q2.s, !.pix = q2.pix]
        /\ Stopped(q2.s) \/ (Appends(q2.s, q2.pix, f, id, n, span, at) /\ q2.s.res = "OK")
    BY <2>3 DEF Took
  <2>6. DOMAIN q2 = LoopFields /\ ~q2.ret /\ q2.written = written BY <2>4, <2>5 DEF LoopFields
  <2>7. /\ DOMAIN q3 = LoopFields /\ q3.pix = q2.pix /\ q3.written = written
        /\ Stopped(q3.s) \/ (Appends(q3.s, q2.pix, f, id, n, span, at) /\ q3.s.res = "OK")
    <3>1. q2.written \in Nat BY <1>2, <2>6
    <3>2. CursorThere(q2, q3, f, id, n, span, at) BY <2>5, <2>6, <3>1, EnterIndexPageOn
    <3> HIDE DEF q3
    <3> QED BY <2>6, <3>2 DEF CursorThere
  <2> HIDE DEF q3
  <2>8. DOMAIN q3 = LoopFields /\ q3.pix = q2.pix /\ q3.written = written BY <2>7
  <2>9. q4 = [q3 EXCEPT !.prev = span, !.span = span] BY <1>5
  <2> HIDE DEF q4, written
  <2>10. /\ DOMAIN q4 = LoopFields /\ q4.prev = span /\ q4.span = span /\ q4.s = q3.s /\ q4.pix = q2.pix
         /\ q4.written = written
    BY <2>8, <2>9 DEF LoopFields
  <2>11. /\ DOMAIN q = LoopFields /\ q.prev = span /\ q.span = span /\ q.s = q3.s /\ q.pix = q2.pix
         /\ q.written = written /\ q.ret = (q3.s.res # "OK")
    BY <2>10 DEF LoopFields
  <2> HIDE DEF q
  <2>12. CASE q3.s.res = "OK"
    <3>1. Appends(q.s, q.pix, f, id, n, span, at) /\ q.s.res = "OK" /\ ~q.ret BY <2>7, <2>11, <2>12 DEF Stopped
    <3>2. Entering(q, f, id, n, span, at, written) BY <1>2, <2>11, <3>1 DEF Entering
    <3> QED BY <1>1, <2>11, <3>2 DEF written
  <2>13. CASE q3.s.res # "OK"
    <3>1. Broken(q) BY <2>7, <2>11, <2>13 DEF Broken
    <3> QED BY <1>1, <2>11, <3>1
  <2> QED BY <2>12, <2>13
<1> QED BY <1>4, <1>5

\* A step of an append leaves the index pages alone, but for what the one in work names.
Carried(s, u, w) ==
  /\ Sound(u) /\ Layout(u) /\ u.fds = s.fds /\ u.page[w] = s.page[w]
  /\ DOMAIN u.work = PageFields /\ DOMAIN u.work.ix = Entries
  /\ u.work.lu = s.work.lu /\ u.work.id = s.work.id /\ u.work.span = s.work.span /\ u.work.flags = s.work.flags
  /\ \A p \in Pages : /\ Live(s.page, p) /\ IsIx(s.page[p].lu) => u.page[p] = s.page[p]
                      /\ Live(u.page, p) /\ IsIx(u.page[p].lu) => u.page[p] = s.page[p]

\* An object that has one more page is in work as it was.
LEMMA CarriedAppends ==
  ASSUME NEW s, NEW u, NEW w, NEW f \in Fds, NEW id, NEW n, NEW j, NEW span, NEW at, Appends(s, w, f, id, n, span, at),
         Carried(s, u, w), Forest(View(u, w), id), Extent(View(u, w), id, j, span + 1), Over(s.page[w], u.work)
  PROVE  Appends(u, w, f, id, j, span, at)
<1> DEFINE P == View(s, w)  Q == View(u, w)
<1>1. /\ Busy(s, w, id) /\ s.work.lu = id /\ s.work.span = span /\ Unmarked(P, id)
      /\ s.fds[f].open /\ s.fds[f].id = id
      /\ at = 0 /\ span = 0 => s.page[w].size = UNDEFINED_LEN
  BY DEF Appends
<1>2. /\ Sound(s) /\ w \in Pages /\ Live(s.page, w) /\ s.work.lu = s.page[w].lu /\ IsIx(s.work.lu) /\ Shape(s.page[w], id)
      /\ FdsOK(s.fds, P, id) /\ s.work.span = s.page[w].span
  BY <1>1 DEF Busy
<1>3. /\ Sound(u) /\ Layout(u) /\ u.fds = s.fds /\ u.page[w] = s.page[w]
      /\ DOMAIN u.work = PageFields /\ DOMAIN u.work.ix = Entries
      /\ u.work.lu = s.work.lu /\ u.work.id = s.work.id /\ u.work.span = s.work.span /\ u.work.flags = s.work.flags
      /\ \A p \in Pages : /\ Live(s.page, p) /\ IsIx(s.page[p].lu) => u.page[p] = s.page[p]
                          /\ Live(u.page, p) /\ IsIx(u.page[p].lu) => u.page[p] = s.page[p]
  BY DEF Carried
<1>4. Live(u.page, w) BY <1>2, <1>3 DEF Live
<1>5. P[w] = s.work /\ (\A p \in Pages : p # w => P[p] = s.page[p]) /\ \A p \in Pages : Live(P, p) <=> Live(s.page, p)
  BY <1>2, ViewPage
<1>6. Q[w] = u.work /\ (\A p \in Pages : p # w => Q[p] = u.page[p]) /\ \A p \in Pages : Live(Q, p) <=> Live(u.page, p)
  BY <1>2, <1>3, <1>4, ViewPage
<1> HIDE DEF P, Q
<1>7. IxStay(P, Q, id)
  <2> SUFFICES ASSUME NEW p \in Pages, (Live(P, p) /\ IsIx(P[p].lu)) \/ (Live(Q, p) /\ IsIx(Q[p].lu))
               PROVE  /\ Live(P, p) /\ Live(Q, p) /\ Q[p].lu = P[p].lu /\ Q[p].span = P[p].span
                      /\ P[p].lu # id => Q[p].size = P[p].size
    BY DEF IxStay
  <2>1. CASE p = w BY <2>1, <1>1, <1>2, <1>3, <1>4, <1>5, <1>6
  <2>2. CASE p # w
    <3>1. u.page[p] = s.page[p] BY <2>2, <1>3, <1>5, <1>6
    <3>2. Live(u.page, p) <=> Live(s.page, p) BY <3>1 DEF Live
    <3> QED BY <2>2, <3>1, <3>2, <1>5, <1>6
  <2> QED BY <2>1, <2>2
<1>8. FdsOK(u.fds, Q, id) BY <1>2, <1>3, <1>7, FdsStay
<1>9. Busy(u, w, id) BY <1>2, <1>3, <1>4, <1>8 DEF Busy, Q
<1>10. Unmarked(Q, id)
  <2> SUFFICES ASSUME NEW h \in Pages, IsHeader(Q, h), Q[h].lu = id PROVE "IXDELE" \notin Q[h].flags
    BY DEF Unmarked
  <2>1. IsHeader(P, h) /\ P[h].lu = id /\ Q[h].flags = P[h].flags
    <3>1. CASE h = w BY <3>1, <1>1, <1>2, <1>3, <1>5, <1>6 DEF IsHeader
    <3>2. CASE h # w
      <4>1. Live(u.page, h) /\ IsIx(u.page[h].lu) BY <1>6, <3>2 DEF IsHeader
      <4>2. u.page[h] = s.page[h] BY <1>3, <4>1
      <4>3. Live(s.page, h) BY <4>1, <4>2 DEF Live
      <4> QED BY <1>5, <1>6, <3>2, <4>2, <4>3 DEF IsHeader
    <3> QED BY <3>1, <3>2
  <2> QED BY <1>1, <2>1 DEF Unmarked
<1>11. Over(u.page[w], u.work) BY <1>3
<1>12. Appends(u, w, f, id, j, span, at) BY <1>1, <1>3, <1>9, <1>10, <1>11 DEF Appends, Q
<1> QED BY <1>12

\* A step that finds no page leaves the append where it was.
LEMMA StarvedAppends ==
  ASSUME NEW s, NEW w, NEW f \in Fds, NEW id, NEW n, NEW span, NEW at, Appends(s, w, f, id, n, span, at),
         NEW t, NotFound(s, t)
  PROVE  Appends(t, w, f, id, n, span, at) /\ Fails(t)
<1> DEFINE P == View(s, w)  Q == View(t, w)
<1>1. Busy(s, w, id) /\ Extent(P, id, n, span + 1) /\ Over(s.page[w], s.work) BY DEF Appends
<1>2. Busy(t, w, id) /\ t.starved /\ t.res # "OK" /\ t.fds = s.fds /\ t.work = s.work BY <1>1, NotFoundBusy
<1>3. /\ Sound(s) /\ w \in Pages /\ Live(s.page, w) /\ s.work.lu = s.page[w].lu /\ Forest(P, id) /\ DOMAIN s.work = PageFields
  BY <1>1 DEF Busy
<1>4. Sound(t) /\ Layout(t) /\ Live(t.page, w) /\ Forest(Q, id) /\ t.work.lu = t.page[w].lu BY <1>2 DEF Busy
<1>5. SameLive(s.page, t.page) BY DEF NotFound
<1>6. P[w] = s.work /\ (\A p \in Pages : p # w => P[p] = s.page[p]) /\ \A p \in Pages : Live(P, p) <=> Live(s.page, p)
  BY <1>3, ViewPage
<1>7. Q[w] = t.work /\ (\A p \in Pages : p # w => Q[p] = t.page[p]) /\ \A p \in Pages : Live(Q, p) <=> Live(t.page, p)
  BY <1>3, <1>4, ViewPage
<1>8. Shape(s.work, id) BY <1>3, <1>6 DEF Forest, Shaped
<1> HIDE DEF P, Q
<1>9. SameLive(P, Q)
  <2> SUFFICES ASSUME NEW p \in Pages, Live(P, p) \/ Live(Q, p) PROVE Q[p] = P[p]
    BY DEF SameLive
  <2>1. CASE p = w BY <2>1, <1>2, <1>6, <1>7
  <2>2. CASE p # w BY <2>2, <1>5, <1>6, <1>7 DEF SameLive
  <2> QED BY <2>1, <2>2
<1>10. Extent(Q, id, n, span + 1) BY <1>1, <1>3, <1>9, SameForest
<1>11. t.page[w] = s.page[w] BY <1>3, <1>5 DEF SameLive
<1>12. DOMAIN t.work.ix = Entries BY <1>1, <1>2, <1>8 DEF Busy, Shape
<1>13. Carried(s, t, w) BY <1>2, <1>3, <1>4, <1>5, <1>11, <1>12 DEF Carried, SameLive
<1>14. Over(s.page[w], t.work) BY <1>1, <1>2
<1>15. Appends(t, w, f, id, n, span, at) BY <1>4, <1>10, <1>13, <1>14, CarriedAppends DEF Q
<1> QED BY <1>2, <1>15 DEF Fails

\* The page in work names page x for entry e, and has size "size".
NoteWork(t, e, x, size) == [t EXCEPT !.work.ix[e] = x, !.work.size = size]

IndexNoted(t, u, e, x, size) ==
  /\ Still(t, u) /\ u.pix = t.pix
  /\ DOMAIN u.work = PageFields /\ u.work.lu = t.work.lu /\ u.work.id = t.work.id /\ u.work.span = t.work.span
  /\ u.work.flags = t.work.flags /\ u.work.size = size /\ u.work.ix = [t.work.ix EXCEPT ![e] = x]

\* Noting a data page in the index page in work changes an entry and the size.
LEMMA NoteWorkState ==
  ASSUME NEW t, DOMAIN t = StateFields, DOMAIN t.work = PageFields, DOMAIN t.work.ix = Entries,
         NEW e \in Entries, NEW x, NEW size
  PROVE  IndexNoted(t, NoteWork(t, e, x, size), e, x, size)
<1> DEFINE u == NoteWork(t, e, x, size)
           new == [t.work EXCEPT !.ix[e] = x, !.size = size]
<1>1. u = [t EXCEPT !.work = new] BY DEF NoteWork, StateFields, PageFields
<1>2. /\ DOMAIN new = PageFields /\ new.lu = t.work.lu /\ new.id = t.work.id /\ new.span = t.work.span
      /\ new.flags = t.work.flags /\ new.size = size /\ new.ix = [t.work.ix EXCEPT ![e] = x]
  BY DEF PageFields
<1> HIDE DEF u, new
<1>3. Still(t, u) /\ u.pix = t.pix /\ u.work = new BY <1>1 DEF Still, Alike, StateFields
<1>4. IndexNoted(t, u, e, x, size) BY <1>2, <1>3 DEF IndexNoted
<1> QED BY <1>4 DEF u

\* The id of an object's data pages.
LEMMA DataOf ==
  ASSUME NEW id \in IxIds
  PROVE  id % IX_FLAG \in LiveIds /\ ~IsIx(id % IX_FLAG) /\ (id % IX_FLAG) + IX_FLAG = id
<1>1. id \in Nat /\ id > 32768 /\ id < 65535 BY DEF IxIds, LiveIds, IsIx, IX_FLAG, FREE
<1> DEFINE k == id - 32768
<1>2. k \in Nat /\ k < 32767 /\ k > 0 /\ id = k + 32768 BY <1>1
<1>3. id % IX_FLAG = k BY <1>1, <1>2 DEF IX_FLAG
<1> HIDE DEF k
<1> QED BY <1>2, <1>3 DEF LiveIds, IsIx, IX_FLAG, FREE

\* A new data page joins the object of an append.
LEMMA AppendNew ==
  ASSUME NEW s, NEW w, NEW f \in Fds, NEW id, NEW n \in Nat, NEW span, NEW at, Appends(s, w, f, id, n, span, at),
         span = IxSpan(n), NEW e, e = IxEntry(n), NEW lu, lu + IX_FLAG = id, lu \in LiveIds, ~IsIx(lu),
         NEW pg, PageOf(pg, lu, n, {"FINAL"}), NEW t, Occupied(s, t, pg), NEW size
  PROVE  Appends(NoteWork(t, e, t.pix, size), w, f, id, n + 1, span, at)
<1> DEFINE x == t.pix
           u == NoteWork(t, e, x, size)
           P == View(s, w)
           Q == View(u, w)
<1>1. Busy(s, w, id) /\ s.work.lu = id /\ s.work.span = span /\ Extent(P, id, n, span + 1) /\ Over(s.page[w], s.work)
  BY DEF Appends
<1>2. /\ Sound(s) /\ Layout(s) /\ w \in Pages /\ Live(s.page, w) /\ DOMAIN s.work = PageFields
      /\ Forest(P, id) /\ s.work.lu = s.page[w].lu /\ IsIx(s.work.lu) /\ Shape(s.page[w], id)
      /\ s.work.span = s.page[w].span
  BY <1>1 DEF Busy
<1>3. /\ P[w] = s.work /\ \A p \in Pages : p # w => P[p] = s.page[p]
      /\ \A p \in Pages : Live(P, p) <=> Live(s.page, p)
  BY <1>2, ViewPage
<1> HIDE DEF P
<1>4. Shape(s.work, id) /\ DOMAIN s.work.ix = Entries BY <1>2, <1>3 DEF Forest, Shaped, Shape
<1>5. e \in Entries BY SpanType DEF Entries
<1>6. s.work.ix[e] = FREE
  <2> SUFFICES ASSUME s.work.ix[e] # FREE PROVE FALSE
    OBVIOUS
  <2> DEFINE q == s.work.ix[e]
  <2>1. Live(P, w) /\ IsIx(P[w].lu) BY <1>2, <1>3
  <2>2. q \in Pages /\ EntryFor(P, w, e, q) BY <1>2, <1>3, <1>5, <2>1 DEF Forest, Refs
  <2>3. Live(P, q) /\ P[q].lu + IX_FLAG = id /\ IxSpan(P[q].span) = IxSpan(n) /\ IxEntry(P[q].span) = IxEntry(n)
    BY <1>1, <1>3, <2>2 DEF EntryFor
  <2>4. P[q].span \in Nat BY <1>2, <2>2, <2>3 DEF Forest, Shaped, Shape
  <2>5. P[q].span = n BY <2>3, <2>4, SpanEntry
  <2>6. P[q].span < n BY <1>1, <2>2, <2>3 DEF Extent
  <2> QED BY <2>5, <2>6
<1>7. Shape(pg, id) /\ pg.lu = lu /\ pg.span = n /\ DOMAIN pg = PageFields
  <2>1. (IsIx(pg.lu) = FALSE) /\ pg.id = pg.lu /\ pg.lu = lu BY DEF PageOf
  <2>2. pg.flags = {"USED", "FINAL"} BY DEF PageOf
  <2>3. ("INDEX" \in pg.flags) = FALSE /\ ("IXDELE" \in pg.flags) = FALSE /\ "DELET" \notin pg.flags
        /\ {"FINAL", "USED"} \subseteq pg.flags
    BY <2>2
  <2> QED BY <2>1, <2>3 DEF PageOf, Shape
<1>8. /\ Sound(t) /\ t.fds = s.fds /\ t.work = s.work /\ t.res = "OK" /\ x \in Pages
      /\ ~Live(s.page, x) /\ t.page[x] = pg /\ Layout(t)
      /\ \A p \in Pages : p # x /\ (Live(s.page, p) \/ Live(t.page, p)) => t.page[p] = s.page[p]
  BY <1>2 DEF Occupied, Same
<1>9. x # w /\ t.page[w] = s.page[w] /\ Live(t.page, w) /\ Live(t.page, x)
  <2>1. lu # FREE /\ lu # DELETED BY LiveId
  <2> QED BY <1>2, <1>7, <1>8, <2>1 DEF Live
<1> HIDE DEF x
<1>10. /\ Still(t, u) /\ DOMAIN u.work = PageFields /\ u.work.lu = s.work.lu /\ u.work.id = s.work.id
       /\ u.work.span = s.work.span /\ u.work.flags = s.work.flags
       /\ u.work.ix = [s.work.ix EXCEPT ![e] = x]
  <2>1. DOMAIN t = StateFields /\ t.work = s.work /\ DOMAIN t.work = PageFields /\ DOMAIN t.work.ix = Entries
    BY <1>2, <1>4, <1>8 DEF Sound, Flash
  <2>2. IndexNoted(t, u, e, x, size) BY <1>5, <2>1, NoteWorkState
  <2> HIDE DEF u
  <2> QED BY <2>1, <2>2 DEF IndexNoted
<1> HIDE DEF u
<1>11. Sound(u) /\ Layout(u) /\ u.page = t.page /\ u.fds = s.fds
  BY <1>8, <1>10, AlikeSound DEF Still, Alike, Layout, CursorOK
<1>12. DOMAIN u.work.ix = Entries /\ \A i \in Entries : u.work.ix[i] = IF i = e THEN x ELSE s.work.ix[i]
  BY <1>4, <1>5, <1>10
<1>13. Carried(s, u, w)
  <2> SUFFICES ASSUME NEW p \in Pages
               PROVE  /\ Live(s.page, p) /\ IsIx(s.page[p].lu) => u.page[p] = s.page[p]
                      /\ Live(u.page, p) /\ IsIx(u.page[p].lu) => u.page[p] = s.page[p]
    BY <1>9, <1>10, <1>11, <1>12 DEF Carried
  <2>1. CASE p = x BY <2>1, <1>7, <1>8, <1>11 DEF x
  <2>2. CASE p # x BY <2>2, <1>8, <1>11 DEF x
  <2> QED BY <2>1, <2>2
<1>14. /\ Q[w] = u.work /\ \A p \in Pages : p # w => Q[p] = u.page[p]
       /\ \A p \in Pages : Live(Q, p) <=> Live(u.page, p)
  BY <1>2, <1>9, <1>10, <1>11, ViewPage
<1> HIDE DEF Q
<1>15. Noted(P, Q, w, x, n, id)
  <2>1. Besides(P, Q, {w, x})
    <3> SUFFICES ASSUME NEW p \in Pages \ {w, x}
                 PROVE  (Live(Q, p) <=> Live(P, p)) /\ (Live(P, p) => Q[p] = P[p])
      BY DEF Besides
    <3>1. Q[p] = t.page[p] /\ P[p] = s.page[p] BY <1>3, <1>11, <1>14
    <3>2. Live(s.page, p) \/ Live(t.page, p) => t.page[p] = s.page[p] BY <1>8 DEF x
    <3>3. (Live(Q, p) <=> Live(t.page, p)) /\ (Live(P, p) <=> Live(s.page, p)) BY <3>1 DEF Live
    <3> QED BY <3>1, <3>2, <3>3 DEF Live
  <2>2. Live(P, w) /\ Live(Q, w) /\ ~Live(P, x) /\ Live(Q, x) /\ x \in Pages
    BY <1>2, <1>3, <1>8, <1>9, <1>11, <1>14 DEF x
  <2>3. P[w].lu = id /\ P[w].span = IxSpan(n) BY <1>1, <1>3
  <2>4. Q[x] = pg BY <1>8, <1>9, <1>11, <1>14 DEF x
  <2>5. Q[x].lu + IX_FLAG = id /\ Q[x].span = n /\ Shape(Q[x], id) BY <1>7, <2>4
  <2>6. Q[w].lu = P[w].lu /\ Q[w].span = P[w].span BY <1>3, <1>10, <1>14
  <2>7. Shape(Q[w], id) BY <1>4, <1>10, <1>12, <1>14 DEF Shape
  <2>8. \A i \in Entries : Q[w].ix[i] = IF i = IxEntry(n) THEN x ELSE P[w].ix[i] BY <1>3, <1>12, <1>14
  <2> QED BY <1>2, <2>1, <2>2, <2>3, <2>5, <2>6, <2>7, <2>8 DEF Noted
<1>16. Forest(Q, id) /\ Extent(Q, id, n + 1, span + 1)
  <2> DEFINE m == span + 1
  <2>1. Extent(P, id, n, m) BY <1>1
  <2> HIDE DEF m
  <2>2. Forest(Q, id) /\ Extent(Q, id, n + 1, m) BY <1>2, <1>15, <2>1, AddData
  <2> QED BY <2>2 DEF m
<1>17. Over(s.page[w], u.work)
  <2>1. \A i \in Entries : s.page[w].ix[i] \in {FREE, s.work.ix[i]} BY <1>1 DEF Over
  <2>2. s.page[w].ix[e] = FREE BY <1>5, <1>6, <2>1
  <2> QED BY <1>1, <1>10, <1>12, <2>1, <2>2 DEF Over
<1>18. Appends(u, w, f, id, n + 1, span, at)
  <2> DEFINE j == n + 1
  <2>1. Extent(Q, id, j, span + 1) BY <1>16
  <2> HIDE DEF j
  <2>2. Appends(u, w, f, id, j, span, at) BY <1>13, <1>16, <1>17, <2>1, CarriedAppends DEF Q
  <2> QED BY <2>2 DEF j
<1> QED BY <1>18 DEF u, x

\* The data page of a span, which the index page in work names.
Named(s, w, cur, k, q) ==
  /\ q \in Pages /\ q # w /\ Live(s.page, q) /\ s.page[q].lu + IX_FLAG = s.work.lu /\ s.page[q].span = k
  /\ ~IsIx(s.page[q].lu) /\ Shape(s.page[q], cur)

\* The data page of a span is named by the index page in work.
LEMMA NamedData ==
  ASSUME NEW s, NEW w, NEW cur, Busy(s, w, cur), NEW n \in Nat, NEW k \in Nat, NEW m, k < n,
         Extent(View(s, w), s.work.lu, n, m), s.work.span = IxSpan(k), NEW q, q = s.work.ix[IxEntry(k)]
  PROVE  Named(s, w, cur, k, q)
<1>1. /\ q \in Pages /\ q # w /\ Live(s.page, q) /\ s.page[q].lu + IX_FLAG = s.work.lu /\ s.page[q].span = k
      /\ ~IsIx(s.page[q].lu) /\ Shape(s.page[q], cur)
  BY NamedPage
<1> QED BY <1>1 DEF Named

\* The rest of the last data page is written, in place.
LEMMA AppendFill ==
  ASSUME NEW s, NEW w, NEW f \in Fds, NEW id, NEW n \in Nat \ {0}, NEW span, NEW at, Appends(s, w, f, id, n, span, at),
         span = IxSpan(n - 1), NEW e, e = IxEntry(n - 1), NEW q, q = s.work.ix[e],
         NEW pg, DOMAIN pg = PageFields, pg.lu = s.page[q].lu, pg.id = s.page[q].id, pg.span = s.page[q].span,
         pg.flags = s.page[q].flags, NEW v, Still(s, v), v.work = s.work, NEW t, Rewritten(v, t, q, pg), NEW size
  PROVE  Appends(NoteWork(t, e, q, size), w, f, id, n, span, at)
<1> DEFINE u == NoteWork(t, e, q, size)
           P == View(s, w)
           Q == View(u, w)
           k == n - 1
<1>1. Busy(s, w, id) /\ s.work.lu = id /\ s.work.span = span /\ Extent(P, id, n, span + 1) /\ Over(s.page[w], s.work)
  BY DEF Appends
<1>2. /\ Sound(s) /\ Layout(s) /\ w \in Pages /\ Live(s.page, w) /\ DOMAIN s.work = PageFields
      /\ Forest(P, id) /\ s.work.lu = s.page[w].lu /\ IsIx(s.work.lu) /\ Shape(s.page[w], id)
      /\ s.work.span = s.page[w].span
  BY <1>1 DEF Busy
<1>3. /\ P[w] = s.work /\ \A p \in Pages : p # w => P[p] = s.page[p]
      /\ \A p \in Pages : Live(P, p) <=> Live(s.page, p)
  BY <1>2, ViewPage
<1>4. /\ q \in Pages /\ q # w /\ Live(s.page, q) /\ ~IsIx(s.page[q].lu) /\ Shape(s.page[q], id)
      /\ s.page[q].lu + IX_FLAG = id
  <2> DEFINE m == span + 1
  <2>1. Busy(s, w, id) /\ k \in Nat /\ k < n /\ s.work.span = IxSpan(k) /\ e = IxEntry(k) BY <1>1
  <2>2. Extent(View(s, w), s.work.lu, n, m) BY <1>1
  <2> HIDE DEF k, m, P
  <2>3. Named(s, w, id, k, q) BY <2>1, <2>2, NamedData
  <2> QED BY <1>1, <2>3 DEF Named
<1> HIDE DEF P
<1>5. Shape(s.work, id) /\ DOMAIN s.work.ix = Entries BY <1>2, <1>3 DEF Forest, Shaped, Shape
<1>6. e \in Entries BY SpanType DEF Entries
<1>7. v.page = s.page /\ v.fds = s.fds BY DEF Still, Alike
<1>8. /\ Sound(t) /\ Layout(t) /\ t.fds = s.fds /\ t.work = s.work /\ t.page[q] = pg
      /\ \A p \in Pages : p # q => t.page[p] = s.page[p]
  BY <1>2, <1>4, <1>7 DEF Rewritten, Sound, Flash
<1>9. Live(t.page, q) /\ Live(t.page, w) /\ t.page[w] = s.page[w] BY <1>2, <1>4, <1>8 DEF Live
<1>10. /\ Still(t, u) /\ DOMAIN u.work = PageFields /\ u.work.lu = s.work.lu /\ u.work.id = s.work.id
       /\ u.work.span = s.work.span /\ u.work.flags = s.work.flags
       /\ u.work.ix = [s.work.ix EXCEPT ![e] = q]
  <2>1. DOMAIN t = StateFields /\ t.work = s.work /\ DOMAIN t.work = PageFields /\ DOMAIN t.work.ix = Entries
    BY <1>2, <1>5, <1>8 DEF Sound, Flash
  <2>2. IndexNoted(t, u, e, q, size) BY <1>6, <2>1, NoteWorkState
  <2> HIDE DEF u
  <2> QED BY <2>1, <2>2 DEF IndexNoted
<1> HIDE DEF u
<1>11. Sound(u) /\ Layout(u) /\ u.page = t.page /\ u.fds = s.fds
  BY <1>8, <1>10, AlikeSound DEF Still, Alike, Layout, CursorOK
<1>12. DOMAIN u.work.ix = Entries /\ \A i \in Entries : u.work.ix[i] = s.work.ix[i]
  BY <1>5, <1>6, <1>10
<1>13. Carried(s, u, w)
  <2> SUFFICES ASSUME NEW p \in Pages
               PROVE  /\ Live(s.page, p) /\ IsIx(s.page[p].lu) => u.page[p] = s.page[p]
                      /\ Live(u.page, p) /\ IsIx(u.page[p].lu) => u.page[p] = s.page[p]
    BY <1>9, <1>10, <1>11, <1>12 DEF Carried
  <2>1. CASE p = q BY <2>1, <1>4, <1>8, <1>11
  <2>2. CASE p # q BY <2>2, <1>8, <1>11
  <2> QED BY <2>1, <2>2
<1>14. /\ Q[w] = u.work /\ \A p \in Pages : p # w => Q[p] = u.page[p]
       /\ \A p \in Pages : Live(Q, p) <=> Live(u.page, p)
  BY <1>2, <1>9, <1>10, <1>11, ViewPage
<1> HIDE DEF Q
<1>15. Shape(pg, id) BY <1>4 DEF Shape
<1>16. Shape(u.work, id) BY <1>5, <1>10, <1>12 DEF Shape
<1>17. \A p \in Pages : p # q => (Live(Q, p) <=> Live(P, p))
  BY <1>3, <1>8, <1>11, <1>14 DEF Live
<1>18. Renamed(P, Q, q, q, id)
  <2>1. Live(P, q) /\ Live(Q, q) BY <1>3, <1>4, <1>9, <1>11, <1>14
  <2>2. P[q] = s.page[q] /\ Q[q] = pg BY <1>3, <1>4, <1>8, <1>11, <1>14
  <2>3. Alt(P[q], Q[q], q, q, id) BY <1>4, <1>15, <2>2 DEF Alt
  <2>4. ASSUME NEW p \in Pages, p # q, Live(P, p) PROVE Alt(P[p], Q[p], q, q, id)
    <3>1. CASE p = w BY <3>1, <1>1, <1>3, <1>10, <1>12, <1>14, <1>16 DEF Alt
    <3>2. CASE p # w
      <4>1. Q[p] = P[p] BY <2>4, <3>2, <1>3, <1>8, <1>11, <1>14
      <4>2. Shape(P[p], id) BY <1>2, <2>4 DEF Forest, Shaped
      <4> QED BY <4>1, <4>2 DEF Alt
    <3> QED BY <3>1, <3>2
  <2> QED BY <1>4, <1>17, <2>1, <2>3, <2>4 DEF Renamed
<1>19. Forest(Q, id) /\ Extent(Q, id, n, span + 1)
  <2> DEFINE m == span + 1
  <2>1. Extent(P, id, n, m) BY <1>1
  <2> HIDE DEF m
  <2>2. Forest(Q, id) /\ Extent(Q, id, n, m) BY <1>2, <1>18, <2>1, RenameForest, RenameExtent
  <2> QED BY <2>2 DEF m
<1>20. Over(s.page[w], u.work) BY <1>1, <1>10, <1>12 DEF Over
<1>21. Appends(u, w, f, id, n, span, at) BY <1>13, <1>19, <1>20, CarriedAppends DEF Q
<1> QED BY <1>21 DEF u

\* A step that found no page leaves the loop of an append.
Starving(r, f, id, at) ==
  /\ ~r.ret /\ r.written \in Nat /\ (at + r.written # 0 \/ r.span = 0)
  /\ \E n : Appends(r.s, r.pix, f, id, n, r.span, at) /\ Fails(r.s)

Chunked(q, f, id, n, span, at, written) ==
  DOMAIN q = LoopFields /\ (Starving(q, f, id, at) \/ Entering(q, f, id, n, span, at, written))

\* How a chunk of an append ends.
AppendDone(r, t, e, c) ==
  IF t.res = "OK"
  THEN [r EXCEPT !.s = NoteWork(t, e, t.pix, IF r.span = 0 THEN c.at ELSE t.work.size), !.written = r.written + Len(c.bytes)]
  ELSE [r EXCEPT !.s = t, !.ret = c.offs # 0]

NotePage(t, e, x, span, size) == [t EXCEPT !.work.ix[e] = x, !.work.size = IF span = 0 THEN size ELSE @]

\* The header, and only the header, notes a size too.
LEMMA NoteSame ==
  ASSUME NEW t, DOMAIN t = StateFields, DOMAIN t.work = PageFields, NEW e, NEW x, NEW span, NEW size
  PROVE  NotePage(t, e, x, span, size) = NoteWork(t, e, x, IF span = 0 THEN size ELSE t.work.size)
BY DEF NotePage, NoteWork, StateFields, PageFields

\* A chunk was appended, or no page was free.
LEMMA AppendDoneOn ==
  ASSUME NEW r, DOMAIN r = LoopFields, NEW f \in Fds, NEW id, NEW n, NEW j, NEW span \in Nat, NEW at \in Nat, NEW written,
         Entering(r, f, id, n, span, at, written), at + written # 0 \/ span = 0,
         NEW c, Len(c.bytes) \in Nat, NEW t, NEW e,
         \/ /\ t.res = "OK"
            /\ \A size : /\ Appends(NoteWork(t, e, t.pix, size), r.pix, f, id, j, span, at)
                         /\ NoteWork(t, e, t.pix, size).res = "OK"
         \/ c.offs = 0 /\ Appends(t, r.pix, f, id, n, span, at) /\ Fails(t)
  PROVE  Chunked(AppendDone(r, t, e, c), f, id, j, span, at, written + Len(c.bytes))
<1> DEFINE q == AppendDone(r, t, e, c)
           size == IF r.span = 0 THEN c.at ELSE t.work.size
           u == NoteWork(t, e, t.pix, size)
<1>1. ~r.ret /\ r.prev = span /\ r.span = span /\ r.written = written /\ written \in Nat BY DEF Entering
<1>2. CASE /\ t.res = "OK"
           /\ \A z : /\ Appends(NoteWork(t, e, t.pix, z), r.pix, f, id, j, span, at)
                     /\ NoteWork(t, e, t.pix, z).res = "OK"
  <2>1. Appends(u, r.pix, f, id, j, span, at) /\ u.res = "OK" BY <1>2
  <2>2. q = [r EXCEPT !.s = u, !.written = r.written + Len(c.bytes)] BY <1>2 DEF AppendDone
  <2> HIDE DEF u, q
  <2>3. /\ DOMAIN q = LoopFields /\ q.s = u /\ q.pix = r.pix /\ q.ret = r.ret /\ q.prev = r.prev /\ q.span = r.span
        /\ q.written = written + Len(c.bytes)
    BY <1>1, <2>2 DEF LoopFields
  <2>4. Entering(q, f, id, j, span, at, written + Len(c.bytes)) BY <1>1, <2>1, <2>3 DEF Entering
  <2> QED BY <2>3, <2>4 DEF Chunked, q
<1>3. CASE c.offs = 0 /\ Appends(t, r.pix, f, id, n, span, at) /\ Fails(t)
  <2>1. q = [r EXCEPT !.s = t, !.ret = FALSE] BY <1>3 DEF AppendDone, Fails
  <2> HIDE DEF q
  <2>2. /\ DOMAIN q = LoopFields /\ q.s = t /\ q.pix = r.pix /\ q.ret = FALSE /\ q.span = span /\ q.written = written
    BY <1>1, <2>1 DEF LoopFields
  <2>3. \E k : Appends(q.s, q.pix, f, id, k, q.span, at) /\ Fails(q.s) BY <1>3, <2>2
  <2>4. Starving(q, f, id, at) BY <1>1, <2>2, <2>3 DEF Starving
  <2> QED BY <2>2, <2>4 DEF Chunked, q
<1> QED BY <1>2, <1>3

\* One chunk of an append: a new data page, or the rest of the last one.
LEMMA AppendChunkOn ==
  ASSUME NEW r, DOMAIN r = LoopFields, NEW f \in Fds, NEW id, NEW n \in Nat, NEW span \in Nat, NEW at \in Nat, NEW written,
         Entering(r, f, id, n, span, at, written), at + written # 0 \/ span = 0,
         NEW c, Len(c.bytes) \in Nat, span = IxSpan(c.span),
         NEW j \in Nat, (c.offs = 0 /\ c.span = n /\ j = n + 1) \/ (c.offs # 0 /\ n # 0 /\ c.span = n - 1 /\ j = n)
  PROVE  Chunked(AppendChunk(r, f, c), f, id, j, span, at, written + Len(c.bytes))
<1> DEFINE s == r.s
           w == r.pix
           e == IxEntry(c.span)
           lu == s.fds[f].id % IX_FLAG
           last == s.work.ix[e]
           Into(pg) == [pg EXCEPT !.data =
                          [i \in DOMAIN @ |-> IF i >= c.offs /\ i < c.offs + Len(c.bytes)
                                              THEN AndByte(@[i], c.bytes[i - c.offs + 1]) ELSE @[i]]]
           Fill(x) == write([x EXCEPT !.pix = last], last, {}, Into(x.page[last]))
           t == IF c.offs = 0 THEN page_allocate_data(s, lu, c.span, {"FINAL"}, c.bytes)
                ELSE Then(page_data_check(s, last, c.span), Fill)
           q == AppendChunk(r, f, c)
<1>1. Appends(s, w, f, id, n, span, at) /\ s.res = "OK" /\ r.span = span /\ r.written = written /\ written \in Nat BY DEF Entering
<1>2. /\ Busy(s, w, id) /\ s.work.lu = id /\ s.work.span = span /\ s.fds[f].id = id
      /\ Extent(View(s, w), id, n, span + 1)
  BY <1>1 DEF Appends
<1>3. /\ Sound(s) /\ Layout(s) /\ w \in Pages /\ Live(s.page, w) /\ DOMAIN s.work = PageFields
      /\ Forest(View(s, w), id) /\ s.work.lu = s.page[w].lu /\ IsIx(s.work.lu) /\ DOMAIN s = StateFields
  BY <1>2 DEF Busy, Sound, Flash
<1>4. id \in IxIds
  <2>1. Shape(s.page[w], id) /\ id = s.page[w].lu BY <1>2 DEF Busy
  <2> QED BY <1>2, <1>3, <2>1 DEF Shape, IxIds
<1>5. lu \in LiveIds /\ ~IsIx(lu) /\ lu + IX_FLAG = id BY <1>2, <1>4, DataOf
<1>6. CASE c.offs = 0
  <2>1. t = page_allocate_data(s, lu, c.span, {"FINAL"}, c.bytes) /\ c.span = n /\ j = n + 1 BY <1>6
  <2> HIDE DEF t, lu
  <2>2. Allocated(s, t, lu, n, {"FINAL"}) BY <1>1, <1>3, <1>5, <2>1, AllocateData
  <2>3. CASE NotFound(s, t)
    <3>1. Appends(t, w, f, id, n, span, at) /\ Fails(t) BY <1>1, <2>3, StarvedAppends
    <3> DEFINE v == AppendDone(r, t, e, c)
    <3>2. Chunked(v, f, id, j, span, at, written + Len(c.bytes))
      <4> HIDE DEF e
      <4> QED BY <1>6, <3>1, AppendDoneOn
    <3>3. q = v
      <4>1. t.res # "OK" BY <3>1 DEF Fails
      <4> DEFINE Done(x) == IF x.res = "OK"
                            THEN [r EXCEPT !.s = NotePage(x, e, x.pix, r.span, c.at), !.written = @ + Len(c.bytes)]
                            ELSE [r EXCEPT !.s = x, !.ret = c.offs # 0]
      <4>2. q = With(Done, t) BY <1>6, <2>1 DEF AppendChunk, NotePage, lu
      <4> HIDE DEF q, e
      <4> QED BY <4>1, <4>2 DEF With, AppendDone
    <3> QED BY <3>2, <3>3
  <2>4. CASE \E pg : PageOf(pg, lu, n, {"FINAL"}) /\ Occupied(s, t, pg)
    <3>1. PICK pg : PageOf(pg, lu, n, {"FINAL"}) /\ Occupied(s, t, pg) BY <2>4
    <3>2. t.res = "OK" /\ DOMAIN t = StateFields /\ t.work = s.work BY <3>1 DEF Occupied, Sound, Flash, Same
    <3>3. ASSUME NEW size
          PROVE /\ Appends(NoteWork(t, e, t.pix, size), w, f, id, j, span, at)
                /\ NoteWork(t, e, t.pix, size).res = "OK"
      <4>1. Appends(NoteWork(t, e, t.pix, size), w, f, id, n + 1, span, at)
        BY <1>1, <1>5, <2>1, <3>1, AppendNew
      <4>2. NoteWork(t, e, t.pix, size).res = "OK" BY <3>2 DEF NoteWork, StateFields
      <4> QED BY <2>1, <4>1, <4>2
    <3> DEFINE v == AppendDone(r, t, e, c)
    <3>4. Chunked(v, f, id, j, span, at, written + Len(c.bytes))
      <4> HIDE DEF e
      <4> QED BY <3>2, <3>3, AppendDoneOn
    <3>5. q = v
      <4> DEFINE Done(x) == IF x.res = "OK"
                            THEN [r EXCEPT !.s = NotePage(x, e, x.pix, r.span, c.at), !.written = @ + Len(c.bytes)]
                            ELSE [r EXCEPT !.s = x, !.ret = c.offs # 0]
      <4>1. q = With(Done, t) BY <1>6, <2>1 DEF AppendChunk, NotePage, lu
      <4> HIDE DEF q, e
      <4>2. NotePage(t, e, t.pix, r.span, c.at) = NoteWork(t, e, t.pix, IF r.span = 0 THEN c.at ELSE t.work.size)
        BY <1>3, <3>2, NoteSame
      <4> QED BY <3>2, <4>1, <4>2 DEF With, AppendDone
    <3> QED BY <3>4, <3>5
  <2> QED BY <2>2, <2>3, <2>4 DEF Allocated
<1>7. CASE c.offs # 0
  <2>1. t = Then(page_data_check(s, last, c.span), Fill) /\ c.span = n - 1 /\ n # 0 /\ j = n BY <1>7
  <2>2. Named(s, w, id, n - 1, last)
    <3> DEFINE k == n - 1  m == span + 1
    <3>n. n # 0 BY <1>7
    <3>0. k \in Nat /\ k < n BY <3>n
    <3>a. c.span = k BY <2>1
    <3>b. s.work.span = IxSpan(k) BY <1>2, <3>a
    <3>c. last = s.work.ix[IxEntry(k)] BY <3>a
    <3>1. k \in Nat /\ k < n /\ s.work.span = IxSpan(k) /\ last = s.work.ix[IxEntry(k)] BY <3>0, <3>b, <3>c
    <3>2. Extent(View(s, w), s.work.lu, n, m) BY <1>2
    <3> HIDE DEF k, m, last
    <3>3. Named(s, w, id, k, last) BY <1>2, <3>1, <3>2, NamedData
    <3> QED BY <3>3 DEF k
  <2>3. last \in Pages /\ Live(s.page, last) /\ ~IsIx(s.page[last].lu) /\ Shape(s.page[last], id) /\ s.page[last].span = c.span
    BY <2>1, <2>2 DEF Named
  <2>4. page_data_check(s, last, c.span) = s BY <2>3, DataPasses
  <2> DEFINE v == [s EXCEPT !.pix = last]
             pg == Into(s.page[last])
             a == write(v, last, {}, pg)
  <2>5. t = a
    <3>1. t = Fill(s)
      <4> HIDE DEF Fill, t
      <4> QED BY <1>1, <2>1, <2>4 DEF Then, With
    <3> QED BY <3>1
  <2>6. Still(s, v) /\ v.work = s.work /\ v.pix = last BY <1>3 DEF Still, Alike, StateFields
  <2> HIDE DEF v
  <2>7. DOMAIN s.page[last] = PageFields BY <1>3, <2>3 DEF Sound, Flash, PageOK
  <2>8. /\ DOMAIN pg = PageFields /\ pg.lu = s.page[last].lu /\ pg.id = s.page[last].id
        /\ pg.span = s.page[last].span /\ pg.flags = s.page[last].flags
    BY <2>7 DEF PageFields
  <2> HIDE DEF pg, Into, Fill
  <2>9. Rewritten(v, a, last, pg)
    <3>1. Sound(v) /\ v.page = s.page BY <1>3, <2>6, AlikeSound DEF Still, Alike
    <3>2. Layout(v) BY <1>3, <2>6 DEF Still, Alike, Layout, CursorOK
    <3> HIDE DEF last
    <3> QED BY <2>3, <2>8, <3>1, <3>2, Rewrite
  <2> HIDE DEF a, t
  <2>10. t.pix = last /\ t.res = "OK" /\ DOMAIN t = StateFields /\ t.work = s.work
    BY <1>1, <2>5, <2>6, <2>9 DEF Rewritten, Still, Sound, Flash
  <2>11. ASSUME NEW size
         PROVE /\ Appends(NoteWork(t, e, t.pix, size), w, f, id, j, span, at)
               /\ NoteWork(t, e, t.pix, size).res = "OK"
    <3>1. Appends(NoteWork(t, e, last, size), w, f, id, n, span, at)
      <4>1. e = IxEntry(n - 1) /\ span = IxSpan(n - 1) /\ last = s.work.ix[e] /\ n \in Nat \ {0} /\ Rewritten(v, t, last, pg)
        BY <2>1, <2>5, <2>9
      <4> HIDE DEF e, last, s, w
      <4> QED BY <1>1, <2>6, <2>8, <4>1, AppendFill
    <3>2. NoteWork(t, e, t.pix, size).res = "OK" BY <2>10 DEF NoteWork, StateFields
    <3> QED BY <2>1, <2>10, <3>1, <3>2
  <2> DEFINE y == AppendDone(r, t, e, c)
  <2>12. Chunked(y, f, id, j, span, at, written + Len(c.bytes))
    <3> HIDE DEF e
    <3> QED BY <2>10, <2>11, AppendDoneOn
  <2>13. q = y
    <3> DEFINE Done(x) == IF x.res = "OK"
                          THEN [r EXCEPT !.s = NotePage(x, e, x.pix, r.span, c.at), !.written = @ + Len(c.bytes)]
                          ELSE [r EXCEPT !.s = x, !.ret = c.offs # 0]
    <3>1. q = With(Done, t) BY <1>7 DEF AppendChunk, NotePage, t, Fill, Into
    <3> HIDE DEF q, e
    <3>2. NotePage(t, e, t.pix, r.span, c.at) = NoteWork(t, e, t.pix, IF r.span = 0 THEN c.at ELSE t.work.size)
      BY <1>3, <2>10, NoteSame
    <3> QED BY <2>10, <3>1, <3>2 DEF With, AppendDone
  <2> QED BY <2>12, <2>13
<1> QED BY <1>6, <1>7

\* One step of the loop of an append.
AppendStep(r, c, f, at) ==
  IF ~Running(r) THEN r
  ELSE With(LAMBDA q : IF Running(q) THEN AppendChunk(q, f, c) ELSE q,
            IF IxSpan(c.span) = r.prev THEN r ELSE SwitchAppend(r, f, at, IxSpan(c.span)))

\* An append before its first chunk, which goes to a new data page or to the rest of the
\* last one.
Begins(r, f, id, n, at, c) ==
  /\ Starting(r, f, id, n, at) /\ Comes(r.s, f, IxSpan(c.span), IxCount(n))
  /\ (c.offs = 0 /\ c.span = n) \/ (c.offs # 0 /\ n # 0 /\ c.span = n - 1)
  /\ at = 0 => c.span = 0

\* An append behind the chunk for data page "last".
Appended(r, f, id, last, at, written) ==
  /\ DOMAIN r = LoopFields
  /\ \/ Broken(r)
     \/ Starving(r, f, id, at)
     \/ Entering(r, f, id, last + 1, IxSpan(last), at, written) /\ written # 0

\* The chunk of an append after its index page came into work.
LEMMA ChunkAppended ==
  ASSUME NEW q, DOMAIN q = LoopFields, NEW f \in Fds, NEW id, NEW n \in Nat, NEW at \in Nat, NEW written \in Nat, NEW c,
         c.span \in Nat, Len(c.bytes) \in Nat \ {0},
         (c.offs = 0 /\ c.span = n) \/ (c.offs # 0 /\ n # 0 /\ c.span = n - 1),
         Entering(q, f, id, n, IxSpan(c.span), at, written), at + written # 0 \/ c.span = 0
  PROVE  Appended(AppendChunk(q, f, c), f, id, c.span, at, written + Len(c.bytes))
<1> DEFINE k == c.span  span == IxSpan(k)  j == k + 1  b == Len(c.bytes)  v == AppendChunk(q, f, c)
<1>1. k \in Nat /\ j \in Nat /\ b \in Nat /\ b # 0 OBVIOUS
<1>2. span \in Nat /\ (k = 0 => span = 0)
  <2>1. k = 0 => span = 0 BY SizesAssumption DEF IxSpan
  <2> HIDE DEF k
  <2> QED BY <1>1, <2>1, SpanType
<1>3. (c.offs = 0 /\ k = n /\ j = n + 1) \/ (c.offs # 0 /\ n # 0 /\ k = n - 1 /\ j = n) OBVIOUS
<1>4. Entering(q, f, id, n, span, at, written) /\ (at + written # 0 \/ span = 0) BY <1>2
<1>5. span = IxSpan(c.span) OBVIOUS
<1> HIDE DEF span, j, v
<1>6. Chunked(v, f, id, j, span, at, written + b) BY <1>1, <1>2, <1>3, <1>4, <1>5, AppendChunkOn DEF v
<1>7. Appended(v, f, id, k, at, written + b)
  <2>1. written + b # 0 BY <1>1
  <2> QED BY <1>6, <2>1 DEF Chunked, Appended, j, span
<1> QED BY <1>7 DEF v

\* One step of an append: the bytes of one data page.
LEMMA AppendStepOn ==
  ASSUME NEW r, DOMAIN r = LoopFields, NEW f \in Fds, NEW id, NEW n \in Nat, NEW at \in Nat, NEW written \in Nat, NEW c,
         c.span \in Nat, Len(c.bytes) \in Nat \ {0},
         \/ Begins(r, f, id, n, at, c) /\ written = 0
         \/ c.offs = 0 /\ c.span # 0 /\ c.span = n /\ Appended(r, f, id, c.span - 1, at, written)
  PROVE  Appended(AppendStep(r, c, f, at), f, id, c.span, at, written + Len(c.bytes))
<1> DEFINE k == c.span
           span == IxSpan(k)
           b == Len(c.bytes)
           q0 == IF span = r.prev THEN r ELSE SwitchAppend(r, f, at, span)
           t == AppendStep(r, c, f, at)
<1>1. k \in Nat /\ span \in Nat
  <2>1. k \in Nat OBVIOUS
  <2> HIDE DEF k
  <2> QED BY <2>1, SpanType
<1>2. t = IF ~Running(r) THEN r ELSE IF Running(q0) THEN AppendChunk(q0, f, c) ELSE q0
  <2> HIDE DEF span
  <2> QED BY DEF AppendStep, With, span
<1> HIDE DEF t
<1>3. CASE ~Running(r)
  <2>1. k # 0 /\ Appended(r, f, id, k - 1, at, written)
    BY <1>3 DEF Begins, Starting, Rests, Running
  <2>2. Broken(r) \/ Starving(r, f, id, at) BY <1>3, <2>1 DEF Appended, Entering, Running
  <2>3. t = r BY <1>2, <1>3
  <2> QED BY <2>2, <2>3 DEF Appended, t
<1>4. CASE Running(r)
  <2>1. /\ DOMAIN q0 = LoopFields /\ (Broken(q0) \/ Entering(q0, f, id, n, span, at, written))
        /\ (c.offs = 0 /\ k = n) \/ (c.offs # 0 /\ n # 0 /\ k = n - 1)
        /\ at + written # 0 \/ k = 0
    <3>1. CASE Begins(r, f, id, n, at, c) /\ written = 0
      <4> DEFINE m == IxCount(n)
      <4>1. /\ Starting(r, f, id, n, at) /\ Comes(r.s, f, span, m) /\ (at = 0 => k = 0)
            /\ (c.offs = 0 /\ k = n) \/ (c.offs # 0 /\ n # 0 /\ k = n - 1)
        BY <3>1 DEF Begins
      <4>2. m \in Nat \ {0}
        <5>1. CASE n = 0 BY <5>1 DEF IxCount
        <5>2. CASE n # 0
          <6>1. n - 1 \in Nat BY <5>2
          <6>2. IxSpan(n - 1) \in Nat BY <6>1, SpanType
          <6> QED BY <5>2, <6>2 DEF IxCount
        <5> QED BY <5>1, <5>2
      <4>3. r.prev = -1 /\ r.written = 0 BY <4>1 DEF Starting
      <4>4. q0 = SwitchAppend(r, f, at, span) BY <1>1, <4>3
      <4> HIDE DEF span, q0
      <4>5. m = IxCount(n) OBVIOUS
      <4> HIDE DEF m
      <4>6. LET q == SwitchAppend(r, f, at, span)
            IN DOMAIN q = LoopFields /\ (Broken(q) \/ Entering(q, f, id, n, span, at, r.written))
        BY <1>1, <4>1, <4>2, <4>5, SwitchAppendOn
      <4>7. at + written # 0 \/ k = 0 BY <3>1, <4>1
      <4> QED BY <3>1, <4>1, <4>3, <4>4, <4>6, <4>7
    <3>2. CASE c.offs = 0 /\ k # 0 /\ k = n /\ Appended(r, f, id, k - 1, at, written)
      <4> DEFINE before == IxSpan(k - 1)
      <4>1. Entering(r, f, id, k - 1 + 1, before, at, written) /\ written # 0
        BY <1>4, <3>2 DEF Appended, Running, Broken, Starving, Fails
      <4>2. k - 1 + 1 = n /\ k - 1 \in Nat BY <1>1, <3>2
      <4>3. Entering(r, f, id, n, before, at, written) BY <4>1, <4>2
      <4>4. before \in Nat /\ (span = before \/ span = before + 1)
        <5> DEFINE i == k - 1
        <5>1. i \in Nat /\ k = i + 1 BY <1>1, <4>2
        <5> HIDE DEF i
        <5>2. IxSpan(i) \in Nat /\ IxSpan(i + 1) <= IxSpan(i) + 1 /\ IxSpan(i) <= IxSpan(i + 1) BY <5>1, SpanType
        <5>3. span = IxSpan(i + 1) BY <5>1
        <5>4. before = IxSpan(i) BY DEF i
        <5> HIDE DEF span, before, k
        <5> QED BY <1>1, <5>2, <5>3, <5>4
      <4>5. r.prev = before /\ r.written = written BY <4>3 DEF Entering
      <4>6. at + written # 0 BY <4>1
      <4> HIDE DEF before
      <4>7. CASE span = before
        <5>1. q0 = r BY <4>5, <4>7
        <5> QED BY <3>2, <4>3, <4>6, <4>7, <5>1
      <4>8. CASE span # before
        <5>1. span - 1 = before /\ span \in Nat \ {0} BY <4>4, <4>8
        <5>2. q0 = SwitchAppend(r, f, at, span) BY <4>5, <4>8
        <5>3. Entering(r, f, id, n, span - 1, at, r.written) /\ r.written # 0 BY <4>1, <4>3, <4>5, <5>1
        <5> HIDE DEF span, q0
        <5>4. LET q == SwitchAppend(r, f, at, span)
              IN DOMAIN q = LoopFields /\ (Broken(q) \/ Entering(q, f, id, n, span, at, r.written))
          BY <5>1, <5>3, SwitchAppendOn
        <5> QED BY <3>2, <4>5, <4>6, <5>2, <5>4
      <4> QED BY <4>4, <4>7, <4>8
    <3> QED BY <3>1, <3>2
  <2> HIDE DEF q0
  <2>2. CASE Broken(q0)
    <3>1. ~Running(q0) BY <2>2 DEF Broken, Running
    <3>2. t = q0 BY <1>2, <1>4, <3>1
    <3> QED BY <2>1, <2>2, <3>2 DEF Appended, t
  <2>3. CASE Entering(q0, f, id, n, span, at, written)
    <3>1. Running(q0) BY <2>3 DEF Entering, Running
    <3>2. t = AppendChunk(q0, f, c) BY <1>2, <1>4, <3>1
    <3>3. Appended(AppendChunk(q0, f, c), f, id, c.span, at, written + Len(c.bytes))
      BY <2>1, <2>3, ChunkAppended
    <3> QED BY <3>2, <3>3 DEF t
  <2> QED BY <2>1, <2>2, <2>3
<1> QED BY <1>3, <1>4

\* The loop of an append, over the chunks of the bytes.
AppendLoop(r, f, at, chunks) ==
  LET Step(q, c) ==
          IF ~Running(q) THEN q
          ELSE With(LAMBDA x : IF Running(x) THEN AppendChunk(x, f, c) ELSE x,
                    IF IxSpan(c.span) = q.prev THEN q ELSE SwitchAppend(q, f, at, IxSpan(c.span)))
  IN Fold(Step, r, chunks)

\* The loop is a sequence of states, one for every chunk.
AppendStates(g, r, f, at, chunks) ==
  /\ g[0] = r
  /\ \A k \in 1 .. Len(chunks) : g[k] = AppendStep(g[k - 1], chunks[k], f, at)
  /\ AppendLoop(r, f, at, chunks) = g[Len(chunks)]

\* The loop of an append is a sequence of states, one for every chunk.
LEMMA AppendLoopSteps ==
  ASSUME NEW r, NEW f, NEW at, NEW chunks, Len(chunks) \in Nat
  PROVE  \E g : AppendStates(g, r, f, at, chunks)
<1> DEFINE Op(t, c) == AppendStep(t, c, f, at)
           n == Len(chunks)
           Is(g, m) == g = [k \in 0 .. m |-> IF k = 0 THEN r ELSE Op(g[k - 1], chunks[k])]
           after == CHOOSE g : Is(g, n)
<1>1. n \in Nat
  OBVIOUS
<1>2. AppendLoop(r, f, at, chunks) = after[n]
  BY DEF AppendLoop, Fold, AppendStep
<1>3. \A t, c : Op(t, c) = AppendStep(t, c, f, at)
  OBVIOUS
<1> HIDE DEF Op, n
<1>4. \E g : Is(g, n)
  <2> DEFINE G == {m \in 0 .. n : \E g : Is(g, m)}
  <2>1. 0 \in G
    <3>1. Is([k \in 0 .. 0 |-> r], 0)
      OBVIOUS
    <3> HIDE DEF Is
    <3>2. \E g : Is(g, 0)
      BY <3>1
    <3> QED
      BY <1>1, <3>2
  <2>2. ASSUME NEW m \in 1 .. n, m - 1 \in G PROVE m \in G
    <3>1. PICK g : Is(g, m - 1)
      BY <2>2
    <3> DEFINE h == [k \in 0 .. m |-> IF k = m THEN Op(g[m - 1], chunks[m]) ELSE g[k]]
    <3>2. Is(h, m)
      BY <3>1
    <3> HIDE DEF h, Is
    <3>3. \E x : Is(x, m)
      BY <3>2
    <3> QED
      BY <3>3, <1>1
  <2> HIDE DEF G
  <2>3. \A m \in 0 .. n : m \in G
    BY <2>1, <2>2, <1>1, Steps
  <2>4. n \in G
    BY <2>3, <1>1
  <2> HIDE DEF Is
  <2> QED
    BY <2>4 DEF G
<1>5. Is(after, n)
  BY <1>4
<1> HIDE DEF after
<1>6. after[0] = r /\ \A k \in 1 .. n : after[k] = AppendStep(after[k - 1], chunks[k], f, at)
  BY <1>1, <1>3, <1>5
<1> QED
  BY <1>2, <1>6 DEF n, AppendStates

\* A page starts at a multiple of its size.
LEMMA PageStart ==
  ASSUME NEW a \in Nat
  PROVE  (a * DATA_PAGE_SIZE) % DATA_PAGE_SIZE = 0
<1> DEFINE d == DATA_PAGE_SIZE
<1>1. d \in Nat \ {0} BY SizesAssumption
<1> HIDE DEF d
<1>2. a * d \in Nat BY <1>1
<1>3. (a * d) % d = 0 BY <1>1, <1>2
<1> QED BY <1>3 DEF d

\* All chunks of an append.
LEMMA AppendLoopOn ==
  ASSUME NEW r, DOMAIN r = LoopFields, NEW f \in Fds, NEW id, NEW n \in Nat, NEW at \in Nat,
         NEW chunks, NEW first, NEW last, NEW end, Cut(chunks, first, last, at, end),
         Begins(r, f, id, n, at, chunks[1])
  PROVE  Appended(AppendLoop(r, f, at, chunks), f, id, last, at, end - at)
<1> DEFINE N == Len(chunks)
           From(k) == IF k = 1 THEN at ELSE (first + k - 1) * DATA_PAGE_SIZE
           To(k) == IF first + k - 1 = last THEN end ELSE (first + k) * DATA_PAGE_SIZE
<1>1. first \in Nat /\ last \in Nat /\ first <= last /\ N = last - first + 1 /\ N \in Nat /\ N >= 1
  BY DEF Cut
<1>2. \A k \in 1 .. N : ChunkAt(chunks[k], first + k - 1, From(k), To(k))
  BY <1>1 DEF Cut
<1>3. \A k \in 2 .. N : From(k) = To(k - 1) /\ chunks[k].offs = 0
  <2> SUFFICES ASSUME NEW k \in 2 .. N PROVE From(k) = To(k - 1) /\ chunks[k].offs = 0
    OBVIOUS
  <2>1. k \in 1 .. N /\ k # 1 /\ k \in Nat BY <1>1
  <2>2. first + (k - 1) - 1 # last /\ first + (k - 1) = first + k - 1 /\ first + k - 1 \in Nat BY <1>1, <2>1
  <2>3. From(k) = (first + k - 1) * DATA_PAGE_SIZE /\ To(k - 1) = (first + (k - 1)) * DATA_PAGE_SIZE
    BY <2>1, <2>2
  <2> DEFINE a == first + k - 1
  <2>4. (a * DATA_PAGE_SIZE) % DATA_PAGE_SIZE = 0
    <3>1. a \in Nat BY <2>2
    <3> HIDE DEF a
    <3> QED BY <3>1, PageStart
  <2>5. chunks[k].offs = From(k) % DATA_PAGE_SIZE
    <3> HIDE DEF From, To
    <3> QED BY <1>2, <2>1 DEF ChunkAt
  <2> QED BY <2>2, <2>3, <2>4, <2>5
<1>4. From(1) = at /\ To(N) = end BY <1>1
<1> HIDE DEF From, To, N
<1>5. PICK g : /\ g[0] = r /\ \A k \in 1 .. N : g[k] = AppendStep(g[k - 1], chunks[k], f, at)
               /\ AppendLoop(r, f, at, chunks) = g[N]
  <2>1. Len(chunks) \in Nat BY <1>1 DEF N
  <2>2. \E g : AppendStates(g, r, f, at, chunks) BY <2>1, AppendLoopSteps
  <2> QED BY <2>2 DEF AppendStates, N
<1> DEFINE On(k) == Appended(g[k], f, id, first + k - 1, at, To(k) - at) /\ To(k) - at \in Nat
           G == {k \in 0 .. N : k # 0 => On(k)}
<1>6. 0 \in G BY <1>1
<1>7. ASSUME NEW k \in 1 .. N, k - 1 \in G PROVE k \in G
  <2> DEFINE c == chunks[k]  q == g[k - 1]  b == Len(c.bytes)  j == c.span
             before == From(k) - at
  <2>1. g[k] = AppendStep(q, c, f, at) BY <1>5
  <2>2. /\ j = first + k - 1 /\ b \in Nat \ {0} /\ b = To(k) - From(k)
        /\ From(k) \in Nat /\ To(k) \in Nat
    BY <1>2 DEF ChunkAt
  <2>3. j \in Nat BY <1>1, <2>2
  <2>4. CASE k = 1
    <3>1. q = r /\ before = 0 /\ c = chunks[1] BY <1>4, <1>5, <2>4
    <3> HIDE DEF q, c
    <3>2. Appended(AppendStep(q, c, f, at), f, id, c.span, at, 0 + Len(c.bytes))
      <4> DEFINE w == 0
      <4>1. Begins(q, f, id, n, at, c) /\ w = 0 /\ w \in Nat BY <3>1
      <4>2. DOMAIN q = LoopFields BY <3>1
      <4> HIDE DEF w
      <4>3. Appended(AppendStep(q, c, f, at), f, id, c.span, at, w + Len(c.bytes)) BY <2>2, <2>3, <4>1, <4>2, AppendStepOn
      <4> QED BY <4>3 DEF w
    <3>3. 0 + Len(c.bytes) = To(k) - at BY <2>2, <3>1
    <3>4. On(k) BY <2>1, <2>2, <3>2, <3>3
    <3> HIDE DEF On
    <3> QED BY <3>4
  <2>5. CASE k # 1
    <3>1. k - 1 # 0 /\ k \in 2 .. N BY <1>1, <2>5
    <3>2. On(k - 1) BY <1>7, <3>1
    <3>3. From(k) = To(k - 1) /\ c.offs = 0 BY <1>3, <3>1
    <3>4. before \in Nat /\ first + (k - 1) - 1 = j - 1 /\ j # 0 BY <1>1, <2>2, <3>1, <3>2, <3>3
    <3>5. Appended(q, f, id, j - 1, at, before) BY <3>2, <3>3, <3>4
    <3> DEFINE i == j
    <3>6. c.span = i /\ i \in Nat /\ Appended(q, f, id, c.span - 1, at, before) /\ c.offs = 0 /\ c.span # 0
      BY <2>3, <3>3, <3>4, <3>5
    <3>7. before + b = To(k) - at /\ To(k) - at \in Nat BY <2>2, <3>4
    <3> HIDE DEF q, c, before, i
    <3>8. Appended(AppendStep(q, c, f, at), f, id, c.span, at, before + Len(c.bytes))
      <4>1. DOMAIN q = LoopFields BY <3>6 DEF Appended
      <4> QED BY <2>2, <3>4, <3>6, <4>1, AppendStepOn
    <3>9. On(k) BY <2>1, <2>2, <3>7, <3>8
    <3> HIDE DEF On
    <3> QED BY <3>9
  <2> QED BY <2>4, <2>5
<1> HIDE DEF G
<1>8. \A k \in 0 .. N : k \in G BY <1>1, <1>6, <1>7, Steps
<1>9. On(N) BY <1>1, <1>8 DEF G
<1>10. first + N - 1 = last BY <1>1
<1> QED BY <1>4, <1>5, <1>9, <1>10

\* The end of the file is the end of its last data page, or inside it.
LEMMA FileEnd ==
  ASSUME NEW a \in Nat \ {0}
  PROVE  LET n == (a + DATA_PAGE_SIZE - 1) \div DATA_PAGE_SIZE
         IN /\ n \in Nat \ {0} /\ (a - 1) \div DATA_PAGE_SIZE = n - 1
            /\ (a % DATA_PAGE_SIZE = 0 => a \div DATA_PAGE_SIZE = n)
            /\ (a % DATA_PAGE_SIZE # 0 => a \div DATA_PAGE_SIZE = n - 1)
<1> DEFINE d == DATA_PAGE_SIZE
           n == (a + d - 1) \div d
           q == a \div d
           z == a % d
<1>1. d \in Nat \ {0} BY SizesAssumption
<1> HIDE DEF d
<1>2. a + d - 1 \in Nat /\ a - 1 \in Nat BY <1>1
<1>3. n \in Nat /\ q \in Nat /\ z \in 0 .. d - 1 /\ q * d \in Nat /\ a = q * d + z BY <1>1
<1>4. q + 1 = (a + d) \div d BY <1>1, <1>3
<1>5. CASE z = 0
  <2>1. q # 0 /\ (q - 1) * d = q * d - d /\ (q - 1) * d \in Nat BY <1>1, <1>3, <1>5
  <2>2. a + d - 1 = q * d + (d - 1) /\ a - 1 = (q - 1) * d + (d - 1) BY <1>1, <1>3, <1>5, <2>1
  <2> HIDE DEF q, z
  <2>3. n = q BY <1>1, <1>3, <2>2
  <2>4. (a - 1) \div d = q - 1 BY <1>1, <1>2, <1>3, <2>1, <2>2
  <2> HIDE DEF n
  <2> QED BY <1>3, <1>5, <2>1, <2>3, <2>4 DEF n, q, z, d
<1>6. CASE z # 0
  <2>1. (q + 1) * d = q * d + d /\ (q + 1) * d \in Nat BY <1>1, <1>3
  <2>2. a + d - 1 = (q + 1) * d + (z - 1) /\ a - 1 = q * d + (z - 1) /\ z - 1 \in 0 .. d - 1 BY <1>1, <1>3, <1>6, <2>1
  <2> HIDE DEF q, z
  <2>3. n = q + 1 BY <1>1, <1>3, <2>1, <2>2
  <2>4. (a - 1) \div d = q BY <1>1, <1>2, <1>3, <2>2
  <2> HIDE DEF n
  <2> QED BY <1>3, <1>6, <2>3, <2>4 DEF n, q, z, d
<1> QED BY <1>5, <1>6

\* An object whose header and descriptors say how many bytes it has is a file like the others.
LEMMA StowedSettled ==
  ASSUME NEW t, NEW f \in Fds, NEW id \in IxIds, NEW n \in Nat, NEW m, NEW size \in Nat \ {0}, Stowed(t, f, id, n, m, size),
         n = PageCount(size), m = IxCount(n)
  PROVE  Settled(t, 0)
<1>1. /\ Settled(t, id) /\ t.res = "OK" /\ Extent(t.page, id, n, m) /\ Unmarked(t.page, id)
      /\ \A h \in Pages : IsHeader(t.page, h) /\ t.page[h].lu = id => t.page[h].size = size
      /\ \A g \in Fds : t.fds[g].open /\ t.fds[g].id = id => t.fds[g].size = size
  BY DEF Stowed, Rests
<1>2. \A h \in Pages : IsHeader(t.page, h) /\ t.page[h].lu = id => Filled(t.page, h)
  BY <1>1 DEF Filled
<1>3. ASSUME NEW g \in Fds, t.fds[g].open, t.fds[g].id = id
      PROVE  Length(t.fds[g].size) = Length(t.page[t.fds[g].objix_hdr_pix].size)
  <2> DEFINE h == t.fds[g].objix_hdr_pix
  <2>1. h \in Pages /\ IsHeader(t.page, h) /\ t.page[h].lu = id
    BY <1>1, <1>3 DEF Settled, FdsOK, FdOK
  <2> HIDE DEF h
  <2>2. t.page[h].size = size /\ t.fds[g].size = size BY <1>1, <1>3, <2>1
  <2> QED BY <2>2 DEF h
<1> QED BY <1>1, <1>2, <1>3, EndSettled

\* The descriptor of an append gets its size and its cursor, and the error code is set anew.
Sealed(r, f, size) == [SetCursor(r.s, f, r.pix, r.span) EXCEPT !.fds[f].size = size, !.res = "OK"]

\* Descriptors learn the size before the last index page of an append is stored.
LEMMA SealedOn ==
  ASSUME NEW r, NEW f \in Fds, NEW id, NEW n, NEW span, NEW at, Appends(r.s, r.pix, f, id, n, span, at), r.span = span,
         NEW size \in Nat
  PROVE  LET s == Sealed(r, f, size)
         IN Appends(s, r.pix, f, id, n, span, at) /\ s.res = "OK" /\ s.starved = r.s.starved
<1> DEFINE w == r.pix
           u == r.s
           a == [SetCursor(u, f, w, span) EXCEPT !.fds[f].size = size]
           s == [a EXCEPT !.res = "OK"]
<1>2. Sealed(r, f, size) = s BY DEF Sealed
<1>0. Appends(u, w, f, id, n, span, at) OBVIOUS
<1> HIDE DEF u, w
<1>1. Appends(a, w, f, id, n, span, at) /\ a.starved = u.starved BY <1>0, CursorAppends
<1> HIDE DEF a
<1>3. Busy(a, w, id) /\ a.fds[f].open /\ a.fds[f].id = id BY <1>1 DEF Appends
<1>4. Busy(s, w, id) /\ View(s, w) = View(a, w) /\ s.fds = a.fds /\ s.work = a.work /\ s.res = "OK"
      /\ s.starved = a.starved /\ s.page = a.page
  BY <1>3, ResBusy
<1> HIDE DEF s
<1>5. Appends(s, w, f, id, n, span, at) BY <1>1, <1>3, <1>4, AppendsFds
<1> QED BY <1>1, <1>2, <1>4, <1>5 DEF w, u

\* The header of a file that had no bytes is programmed in place, with the size.
SealHeader(s, w, f, size) ==
  Then(RewriteIndex(SizeWork(s, size), w, 0),
       LAMBDA t : cb_object_event(t, "UPD", t.fds[f].id, 0, w, t.work.size))

\* A file without index pages behind its header gets its size with the header's last
\* entries.
LEMMA SealHeaderOn ==
  ASSUME NEW s, NEW w, NEW f \in Fds, NEW id, NEW n, Appends(s, w, f, id, n, 0, 0), s.res = "OK", NEW size \in Nat
  PROVE  LET t == SealHeader(s, w, f, size)
         IN Rests(t, f, id, n, 1) /\ t.starved = s.starved /\ (size # 0 => Stowed(t, f, id, n, 1, size))
<1> DEFINE u == SizeWork(s, size)
           v == RewriteIndex(u, w, 0)
           t == cb_object_event(v, "UPD", id, 0, w, size)
           m == 0 + 1
<1>1. Appends(u, w, f, id, n, 0, 0) /\ u.res = "OK" /\ u.starved = s.starved /\ u.work.size = size
  BY WorkSize
<1>2. u.page[w].size = UNDEFINED_LEN BY <1>1 DEF Appends
<1> HIDE DEF u
<1>3. IndexStored(u, v, w, f, id, n, 0)
  <2> DEFINE z == 0
  <2>1. Appends(u, w, f, id, n, z, z) /\ v = RewriteIndex(u, w, z) BY <1>1
  <2> HIDE DEF z, v
  <2>2. IndexStored(u, RewriteIndex(u, w, z), w, f, id, n, z) BY <1>1, <2>1, RewriteIndexOn
  <2> QED BY <2>1, <2>2 DEF z
<1>4. SealHeader(s, w, f, size) = IF v.res = "OK" THEN cb_object_event(v, "UPD", v.fds[f].id, 0, w, v.work.size) ELSE v
  <2> HIDE DEF v
  <2> QED BY DEF SealHeader, Then, With, v, u
<1> HIDE DEF v
<1>5. /\ Rests(v, f, id, n, m) /\ v.starved = u.starved /\ v.work = u.work
      /\ w \in Pages /\ Live(v.page, w) /\ v.page[w].lu = id /\ v.page[w].span = 0
      /\ v.page[w].size = AndNum(u.page[w].size, u.work.size, UNDEFINED_LEN)
  BY <1>3 DEF IndexStored
<1>6. v.res = "OK" /\ v.fds[f].id = id /\ v.work.size = size BY <1>1, <1>5 DEF Rests
<1>7. SealHeader(s, w, f, size) = t BY <1>4, <1>6
<1>8. v.page[w].size = size BY <1>1, <1>2, <1>5 DEF AndNum
<1> HIDE DEF m
<1>9. Hears(v, t, f, id, n, m, 0, w, size) BY <1>5, EventRests
<1> HIDE DEF t
<1>10. /\ Rests(t, f, id, n, m) /\ t.page = v.page /\ t.starved = v.starved
       /\ Told(v.fds, t.fds, "UPD", id, 0, w, size)
  BY <1>9 DEF Hears
<1>11. ASSUME size # 0 PROVE Stowed(t, f, id, n, m, size)
  <2>1. ASSUME NEW g \in Fds, t.fds[g].open, t.fds[g].id = id PROVE t.fds[g].size = size
    <3>1. Follows(v.fds[g], t.fds[g], "UPD", id, 0, w, size) BY <1>10 DEF Told
    <3>2. v.fds[g].open /\ v.fds[g].id = id BY <2>1, <3>1 DEF Follows
    <3> QED BY <1>11, <3>1, <3>2 DEF Follows
  <2>2. OneVersion(t.page) BY <1>10 DEF Rests, Settled, Forest
  <2>3. IsHeader(t.page, w) /\ t.page[w].lu = id /\ t.page[w].size = size
    <3>1. Shape(v.page[w], id) BY <1>5 DEF Rests, Settled, Forest, Shaped
    <3>2. Settled(v, id) /\ v.fds[f].open /\ v.fds[f].id = id BY <1>5 DEF Rests
    <3>3. IsIx(id) BY <3>2 DEF Settled, FdsOK, FdOK, IxIds
    <3> QED BY <1>5, <1>8, <1>10, <3>3 DEF IsHeader
  <2>4. ASSUME NEW h \in Pages, IsHeader(t.page, h), t.page[h].lu = id PROVE t.page[h].size = size
    <3>1. h = w BY <1>5, <2>2, <2>3, <2>4, OneHeader
    <3> QED BY <2>3, <3>1
  <2> QED BY <1>10, <2>1, <2>4 DEF Stowed
<1>12. m = 1 BY DEF m
<1> QED BY <1>1, <1>5, <1>7, <1>10, <1>11, <1>12

\* What an append leaves when its last index page is stored: a file of "size" bytes, or a
\* call that ran out of pages.
Closes(a, r, f, id, n, m, size) ==
  /\ (r.s.starved => a.starved) /\ (Stopped(a) \/ Rests(a, f, id, n, m))
  /\ size # 0 => Stopped(a) \/ Stowed(a, f, id, n, m, size)

\* The end of an append.
LEMMA FinishAppendCloses ==
  ASSUME NEW r, DOMAIN r = LoopFields, NEW f \in Fds, NEW id, NEW n, NEW span, NEW at \in Nat,
         ~r.ret, r.span = span, Appends(r.s, r.pix, f, id, n, span, at), r.written \in Nat, at + r.written # 0 \/ span = 0
  PROVE  \E a : /\ Closes(a, r, f, id, n, span + 1, at + r.written)
                /\ FinishAppend(r, f, at) = IF a.res # "OK" THEN a ELSE Fail(a, r.s.res)
<1> DEFINE size == at + r.written
           s == Sealed(r, f, size)
           r0 == [r EXCEPT !.s = s, !.prev = r.span]
           a == IF span = 0 /\ at = 0 THEN SealHeader(s, r.pix, f, size) ELSE StoreAppended(r0, f, at).s
           t == FinishAppend(r, f, at)
<1>1. size \in Nat OBVIOUS
<1>2. t = IF a.res # "OK" THEN a ELSE Fail(a, r.s.res)
  <2> DEFINE b == IF r.span = 0 /\ at = 0
                  THEN Then(RewriteIndex([s EXCEPT !.work.size = size], r.pix, 0),
                            LAMBDA x : cb_object_event(x, "UPD", x.fds[f].id, 0, r.pix, x.work.size))
                  ELSE StoreAppended([r EXCEPT !.s = s, !.prev = r.span], f, at).s
             Result0(x) == IF x.res # "OK" THEN x ELSE Fail(x, r.s.res)
  <2>1. t = With(Result0, b) BY DEF FinishAppend, Sealed
  <2>2. b = a BY DEF SealHeader, SizeWork
  <2> HIDE DEF a, b, t
  <2> QED BY <2>1, <2>2 DEF With
<1>3. Appends(s, r.pix, f, id, n, span, at) /\ s.res = "OK" /\ s.starved = r.s.starved
  <2> HIDE DEF size
  <2> QED BY <1>1, SealedOn
<1> HIDE DEF s
<1>4. Closes(a, r, f, id, n, span + 1, size)
  <2>1. CASE span = 0 /\ at = 0
    <3> DEFINE w == r.pix
    <3>1. a = SealHeader(s, w, f, size) /\ span + 1 = 1 BY <2>1
    <3>2. Appends(s, w, f, id, n, 0, 0) BY <1>3, <2>1
    <3> HIDE DEF a, size, w
    <3>3. Rests(a, f, id, n, 1) /\ a.starved = s.starved /\ (size # 0 => Stowed(a, f, id, n, 1, size))
      BY <1>1, <1>3, <3>1, <3>2, SealHeaderOn
    <3> QED BY <1>3, <3>1, <3>3 DEF Closes
  <2>2. CASE span # 0 \/ at # 0
    <3>1. a = StoreAppended(r0, f, at).s BY <2>2
    <3>2. /\ DOMAIN r0 = LoopFields /\ r0.s = s /\ r0.prev = span /\ r0.pix = r.pix /\ r0.written = r.written
      BY DEF LoopFields
    <3> DEFINE q == StoreAppended(r0, f, at)
    <3> HIDE DEF r0, a
    <3>3. at + r0.written # 0 /\ at + r0.written = size /\ r0.written \in Nat BY <2>2, <3>2
    <3>4. Stores(r0, q, f, id, n, span, at, at + r0.written)
      BY <1>3, <3>2, <3>3, StoreAppendedOn
    <3> HIDE DEF q, size
    <3>5. /\ (s.starved => q.s.starved) /\ (Stopped(q.s) \/ Rests(q.s, f, id, n, span + 1))
          /\ Stopped(q.s) \/ Stowed(q.s, f, id, n, span + 1, size)
      BY <2>2, <3>2, <3>3, <3>4 DEF Stores
    <3> QED BY <1>3, <3>1, <3>5 DEF Closes, q
  <2> QED BY <2>1, <2>2
<1> HIDE DEF a
<1> QED BY <1>2, <1>4

\* The end of an append: the last index page, and the size in the header.
LEMMA FinishAppendEnds ==
  ASSUME NEW r, NEW f \in Fds, NEW id \in IxIds, NEW last \in Nat, NEW at \in Nat, NEW written,
         Appended(r, f, id, last, at, written), PageCount(at + written) = last + 1
  PROVE  Ends(FinishAppend(r, f, at))
<1> DEFINE t == FinishAppend(r, f, at)
<1>1. CASE Broken(r)
  <2>1. t = r.s BY <1>1 DEF FinishAppend, Broken
  <2> HIDE DEF t
  <2>2. Ends(t) BY <1>1, <2>1, StoppedEnds DEF Broken
  <2> QED BY <2>2 DEF t
<1>2. CASE Starving(r, f, id, at)
  <2> DEFINE span == r.span
  <2>1. /\ DOMAIN r = LoopFields /\ ~r.ret /\ r.written \in Nat /\ (at + r.written # 0 \/ span = 0)
        /\ \E n : Appends(r.s, r.pix, f, id, n, span, at) /\ Fails(r.s)
    BY <1>2 DEF Starving, Appended
  <2>2. PICK n : Appends(r.s, r.pix, f, id, n, span, at) /\ Fails(r.s) BY <2>1
  <2>3. r.span = span OBVIOUS
  <2> HIDE DEF span
  <2>4. \E a : /\ Closes(a, r, f, id, n, span + 1, at + r.written)
               /\ FinishAppend(r, f, at) = IF a.res # "OK" THEN a ELSE Fail(a, r.s.res)
    BY <2>1, <2>2, <2>3, FinishAppendCloses
  <2>5. PICK a : Closes(a, r, f, id, n, span + 1, at + r.written)
                 /\ t = IF a.res # "OK" THEN a ELSE Fail(a, r.s.res)
    BY <2>4
  <2> HIDE DEF t
  <2>6. CASE Stopped(a)
    <3>1. t = a BY <2>5, <2>6 DEF Stopped
    <3>2. Ends(t) BY <2>6, <3>1, StoppedEnds
    <3> QED BY <3>2 DEF t
  <2>7. CASE Rests(a, f, id, n, span + 1)
    <3>1. t = Fail(a, r.s.res) /\ Settled(a, id) /\ a.starved BY <2>2, <2>5, <2>7 DEF Rests, Fails, Closes
    <3>2. Settled(t, id) /\ t.starved BY <3>1, FailSettled
    <3>3. Ends(t) BY <3>2 DEF Ends, Settled
    <3> QED BY <3>3 DEF t
  <2> QED BY <2>5, <2>6, <2>7 DEF Closes
<1>3. CASE Entering(r, f, id, last + 1, IxSpan(last), at, written) /\ written # 0
  <2> DEFINE span == IxSpan(last)
             n == last + 1
             size == at + written
             m == span + 1
  <2>1. /\ DOMAIN r = LoopFields /\ ~r.ret /\ r.span = span /\ r.written = written /\ written \in Nat /\ written # 0
        /\ Appends(r.s, r.pix, f, id, n, span, at) /\ r.s.res = "OK"
    BY <1>3 DEF Entering, Appended
  <2>2. size \in Nat \ {0} /\ n \in Nat /\ n - 1 = last /\ n # 0 BY <2>1
  <2>3. n = PageCount(size) /\ m = IxCount(n) BY <2>2 DEF IxCount
  <2> HIDE DEF n, span
  <2>4. \E a : /\ Closes(a, r, f, id, n, span + 1, at + r.written)
               /\ FinishAppend(r, f, at) = IF a.res # "OK" THEN a ELSE Fail(a, r.s.res)
    <3>1. r.written \in Nat /\ at + r.written # 0 BY <2>1, <2>2
    <3> QED BY <2>1, <3>1, FinishAppendCloses
  <2>5. PICK a : Closes(a, r, f, id, n, m, size) /\ t = IF a.res # "OK" THEN a ELSE Fail(a, r.s.res)
    BY <2>1, <2>4
  <2> HIDE DEF t, m, size
  <2>6. CASE Stopped(a)
    <3>1. t = a BY <2>5, <2>6 DEF Stopped
    <3>2. Ends(t) BY <2>6, <3>1, StoppedEnds
    <3> QED BY <3>2 DEF t
  <2>7. CASE Stowed(a, f, id, n, m, size)
    <3>1. Settled(a, 0) BY <2>2, <2>3, <2>7, StowedSettled
    <3>2. a.res = "OK" BY <2>7 DEF Stowed, Rests
    <3>3. t = Fail(a, r.s.res) BY <2>5, <3>2
    <3>4. Settled(t, 0) BY <3>1, <3>3, FailSettled
    <3>5. Ends(t) BY <3>4, StoppedEnds
    <3> QED BY <3>5 DEF t
  <2> QED BY <2>2, <2>5, <2>6, <2>7 DEF Closes
<1> QED BY <1>1, <1>2, <1>3 DEF Appended

\* The loop of spiffs_object_append is the one above.
LEMMA AppendSame ==
  ASSUME NEW s, NEW f, NEW offset, NEW bytes
  PROVE  object_append(s, f, offset, bytes) =
           LET at == IF offset > s.fds[f].size THEN s.fds[f].size ELSE offset
               g == gc_check(s, Len(bytes) + DATA_PAGE_SIZE)
           IN IF g.res = "OK" THEN FinishAppend(AppendLoop(Loop(g, f), f, at, Chunks(at, bytes)), f, at) ELSE g
BY DEF object_append, AppendLoop, Then, With

\* The next data page is named by the last index page or by a new one.
LEMMA NextComes ==
  ASSUME NEW s, NEW f, NEW a \in Nat, NEW b \in Nat, IxSpan((s.fds[f].size - 1) \div DATA_PAGE_SIZE) = b,
         a = b \/ a = b + 1
  PROVE  Comes(s, f, a, b + 1)
BY SMT DEF Comes

\* The first chunk of an append at the end of a file of "at" bytes and n data pages goes to
\* data page k.
FirstAt(s, f, n, at, k) ==
  /\ k \in Nat /\ Comes(s, f, IxSpan(k), IxCount(n)) /\ (at = 0 => k = 0)
  /\ (at % DATA_PAGE_SIZE = 0 /\ k = n) \/ (at % DATA_PAGE_SIZE # 0 /\ n # 0 /\ k = n - 1)

\* An append begins in the last data page of the file, or behind it.
LEMMA FirstComes ==
  ASSUME NEW s, NEW f, NEW n, NEW at \in Nat, at # 0 => s.fds[f].size = at,
         n = (at + DATA_PAGE_SIZE - 1) \div DATA_PAGE_SIZE,
         NEW k, k = at \div DATA_PAGE_SIZE
  PROVE  FirstAt(s, f, n, at, k)
<1> DEFINE d == DATA_PAGE_SIZE
<1>1. d \in Nat \ {0} BY SizesAssumption
<1>2. CASE at = 0
  <2>1. k = 0 /\ at % d = 0 BY <1>1, <1>2
  <2>2. n = 0
    <3>1. d - 1 \in Nat /\ d - 1 < d /\ at + d - 1 = d - 1 BY <1>1, <1>2
    <3> HIDE DEF d
    <3> QED BY <1>1, <3>1 DEF d
  <2>3. IxSpan(0) = 0 BY SizesAssumption DEF IxSpan
  <2> QED BY <1>2, <2>1, <2>2, <2>3 DEF Comes, IxCount, FirstAt
<1>3. CASE at # 0
  <2>1. /\ n \in Nat \ {0} /\ (at - 1) \div d = n - 1
        /\ (at % d = 0 => k = n) /\ (at % d # 0 => k = n - 1)
    BY <1>3, FileEnd
  <2>2. s.fds[f].size = at BY <1>3
  <2> DEFINE j == n - 1  b == IxSpan(j)  a == IxSpan(k)
  <2>3. j \in Nat /\ n = j + 1 /\ (k = n \/ k = j) BY <2>1
  <2>4. IxSpan((s.fds[f].size - 1) \div d) = b BY <2>1, <2>2
  <2> HIDE DEF j, d
  <2>5. b \in Nat /\ IxSpan(j + 1) <= b + 1 /\ b <= IxSpan(j + 1) /\ IxSpan(j + 1) \in Nat BY <2>3, SpanType
  <2>6. a = b \/ a = b + 1
    <3>1. CASE k = j BY <3>1
    <3>2. CASE k = n
      <4>1. a = IxSpan(j + 1) BY <2>3, <3>2
      <4> HIDE DEF a, b
      <4> QED BY <2>5, <4>1
    <3> QED BY <2>3, <3>1, <3>2
  <2>7. IxCount(n) = b + 1 BY <2>1 DEF IxCount, j
  <2> HIDE DEF a, b
  <2>8. Comes(s, f, a, b + 1)
    <3>1. a \in Nat BY <2>5, <2>6
    <3>2. IxSpan((s.fds[f].size - 1) \div DATA_PAGE_SIZE) = b BY <2>4 DEF d
    <3> QED BY <2>5, <2>6, <3>1, <3>2, NextComes
  <2> QED BY <1>3, <2>1, <2>3, <2>7, <2>8 DEF a, d, j, FirstAt
<1> QED BY <1>2, <1>3

\* A call begins to append to an object.
LEMMA AppendBegins ==
  ASSUME NEW g, Settled(g, 0), g.res = "OK", NEW f \in Fds, g.fds[f].open, NEW at, at = Length(g.fds[f].size),
         NEW c, c.span = at \div DATA_PAGE_SIZE, c.offs = at % DATA_PAGE_SIZE
  PROVE  Begins(Loop(g, f), f, g.fds[f].id, PageCount(g.fds[f].size), at, c)
<1> DEFINE r == Loop(g, f)
           id == g.fds[f].id
           size == g.fds[f].size
           n == PageCount(size)
           h == g.fds[f].objix_hdr_pix
<1>1. /\ id \in IxIds /\ size \in Nat /\ n \in Nat
      /\ h \in Pages /\ IsHeader(g.page, h) /\ g.page[h].lu = id /\ g.page[h].size \in Nat \ {0}
      /\ Length(g.page[h].size) = Length(size)
      /\ Extent(g.page, id, n, IxCount(n))
  BY FdExtent
<1>2. at \in Nat /\ (at # 0 => size = at) BY <1>1, PagesOfSize DEF Length
<1>3. n = (at + DATA_PAGE_SIZE - 1) \div DATA_PAGE_SIZE BY DEF PageCount
<1>4. Settled(g, id) /\ Unmarked(g.page, id) BY <1>1, BeginSettled
<1>5. at = 0 => Sizeless(g.page, id)
  <2> SUFFICES ASSUME at = 0, NEW p \in Pages, IsHeader(g.page, p), g.page[p].lu = id
               PROVE  g.page[p].size = UNDEFINED_LEN
    BY DEF Sizeless
  <2>1. OneVersion(g.page) BY DEF Settled, Forest
  <2> HIDE DEF h, id
  <2>2. p = h BY <1>1, <2>1, OneHeader
  <2>3. Length(g.page[h].size) = 0 BY <1>1
  <2> QED BY <1>1, <2>2, <2>3 DEF Length
<1>6. /\ r.s = g /\ r.span = 0 /\ r.prev = -1 /\ r.written = 0 /\ ~r.ret /\ r.pix = g.fds[f].objix_hdr_pix
  BY DEF Loop
<1> HIDE DEF r
<1>7. Starting(r, f, id, n, at)
  <2>1. Rests(g, f, id, n, IxCount(n)) BY <1>1, <1>4 DEF Rests
  <2> QED BY <1>1, <1>5, <1>6, <2>1 DEF Starting
<1> DEFINE k == c.span
<1>8. k = at \div DATA_PAGE_SIZE OBVIOUS
<1> HIDE DEF k, n, id
<1>9. FirstAt(g, f, n, at, k)
  BY <1>2, <1>3, <1>8, FirstComes
<1>10. Begins(r, f, id, n, at, c) BY <1>6, <1>7, <1>9 DEF Begins, FirstAt, k
<1> QED BY <1>10 DEF r, id, n

\* spiffs_object_append at the end of a file.
LEMMA AppendEnds ==
  ASSUME NEW s, Settled(s, 0), s.res = "OK", 0 \notin Fds, NEW f \in Fds, s.fds[f].open,
         NEW offset, offset = Length(s.fds[f].size), NEW bytes \in Seq(Nat), Len(bytes) > 0,
         offset + Len(bytes) < UNDEFINED_LEN
  PROVE  Ends(object_append(s, f, offset, bytes))
<1> DEFINE need == Len(bytes) + DATA_PAGE_SIZE
           g == gc_check(s, need)
           at == IF offset > s.fds[f].size THEN s.fds[f].size ELSE offset
           t == object_append(s, f, offset, bytes)
<1>1. GcDone(s, g) BY GcCheckTidy
<1>2. t = IF g.res = "OK" THEN FinishAppend(AppendLoop(Loop(g, f), f, at, Chunks(at, bytes)), f, at) ELSE g
  BY AppendSame
<1>3. s.fds[f].size \in Nat BY FdExtent
<1>4. offset \in Nat BY <1>3, PagesOfSize
<1>5. at = offset
  <2>1. UNDEFINED_LEN \in Nat BY DEF UNDEFINED_LEN
  <2> QED BY <1>3, <2>1 DEF Length
<1> HIDE DEF t, g, need, at
<1>6. Stopped(g) \/ (Settled(g, 0) /\ g.fds[f].open /\ Length(g.fds[f].size) = offset) BY <1>1, GcFd
<1>7. CASE g.res # "OK"
  <2>1. Ends(t) BY <1>2, <1>6, <1>7, StoppedEnds
  <2> QED BY <2>1 DEF t
<1>8. CASE g.res = "OK"
  <2> DEFINE id == g.fds[f].id
             n == PageCount(g.fds[f].size)
             r == Loop(g, f)
             chunks == Chunks(offset, bytes)
             end == offset + Len(bytes)
             first == offset \div DATA_PAGE_SIZE
             last == (offset + Len(bytes) - 1) \div DATA_PAGE_SIZE
             q == AppendLoop(r, f, offset, chunks)
  <2>1. Settled(g, 0) /\ g.fds[f].open /\ Length(g.fds[f].size) = offset BY <1>6, <1>8 DEF Stopped
  <2>2. id \in IxIds /\ n \in Nat BY <2>1, FdExtent
  <2>3. Cut(chunks, first, last, offset, end) BY <1>4, ChunksCut
  <2>4. DOMAIN r = LoopFields BY DEF Loop, LoopFields
  <2>5. end \in Nat \ {0} /\ end < UNDEFINED_LEN /\ last = (end - 1) \div DATA_PAGE_SIZE BY <1>4
  <2>6. t = FinishAppend(q, f, offset) BY <1>2, <1>5, <1>8
  <2> HIDE DEF chunks, last, end, q, r
  <2>7. last \in Nat /\ first \in Nat /\ ChunkAt(chunks[1], first, offset, IF first = last THEN end ELSE (first + 1) * DATA_PAGE_SIZE)
    <3> HIDE DEF first
    <3>1. first \in Nat /\ last \in Nat /\ first <= last /\ 1 \in 1 .. last - first + 1 /\ first + 1 - 1 = first BY <2>3 DEF Cut
    <3> QED BY <2>3, <3>1 DEF Cut
  <2>8. Begins(r, f, id, n, offset, chunks[1])
    <3> DEFINE c == chunks[1]
    <3>1. c.span = offset \div DATA_PAGE_SIZE /\ c.offs = offset % DATA_PAGE_SIZE BY <2>7 DEF ChunkAt
    <3> HIDE DEF c
    <3>2. Begins(Loop(g, f), f, g.fds[f].id, PageCount(g.fds[f].size), offset, c) BY <1>8, <2>1, <3>1, AppendBegins
    <3> QED BY <3>2 DEF c, r
  <2> HIDE DEF first, id, n
  <2>9. Appended(q, f, id, last, offset, end - offset)
    <3>1. Appended(AppendLoop(r, f, offset, chunks), f, id, last, offset, end - offset)
      BY <1>4, <2>2, <2>3, <2>4, <2>8, AppendLoopOn
    <3> QED BY <3>1 DEF q
  <2>10. PageCount(offset + (end - offset)) = last + 1
    <3>1. offset + (end - offset) = end BY <1>4, <2>5
    <3>2. PageCount(end) = (end + DATA_PAGE_SIZE - 1) \div DATA_PAGE_SIZE
      <4>1. Length(end) = end BY <2>5 DEF Length
      <4> QED BY <4>1 DEF PageCount
    <3>3. LET k == (end + DATA_PAGE_SIZE - 1) \div DATA_PAGE_SIZE
          IN k \in Nat \ {0} /\ (end - 1) \div DATA_PAGE_SIZE = k - 1
      BY <2>5, FileEnd
    <3> QED BY <2>5, <3>1, <3>2, <3>3
  <2>11. Ends(FinishAppend(q, f, offset))
    <3> DEFINE w == end - offset
    <3>1. Appended(q, f, id, last, offset, w) /\ PageCount(offset + w) = last + 1 BY <2>9, <2>10
    <3> HIDE DEF w
    <3> QED BY <1>4, <2>2, <2>7, <3>1, FinishAppendEnds
  <2> QED BY <2>6, <2>11 DEF t
<1> QED BY <1>7, <1>8

\* -------------------------------- SPIFFS_write --------------------------------

\* The lesser of two numbers.
LEMMA LesserOf ==
  ASSUME NEW a \in Nat, NEW b \in Nat
  PROVE  /\ Min({a, b}) \in {a, b} /\ Min({a, b}) <= a /\ Min({a, b}) <= b
<1>1. \E x \in {a, b} : \A y \in {a, b} : x <= y
  <2>1. CASE a <= b BY <2>1
  <2>2. CASE b <= a BY <2>2
  <2> QED BY <2>1, <2>2
<1>2. Min({a, b}) \in {a, b} /\ \A y \in {a, b} : Min({a, b}) <= y
  BY <1>1 DEF Min
<1> QED BY <1>2

\* A part of the bytes of a write.
LEMMA PartOf ==
  ASSUME NEW bytes \in Seq(Nat), NEW i \in Nat \ {0}, NEW j \in Nat, j <= Len(bytes), i <= j + 1
  PROVE  SubSeq(bytes, i, j) \in Seq(Nat) /\ Len(SubSeq(bytes, i, j)) = j - i + 1
<1>1. \A k \in i .. j : bytes[k] \in Nat
  <2> SUFFICES ASSUME NEW k \in i .. j PROVE bytes[k] \in Nat
    OBVIOUS
  <2>1. k \in 1 .. Len(bytes) OBVIOUS
  <2> QED BY <2>1, ElementOfSeq
<1> QED BY <1>1, SubSeqProperties

\* How much of a write changes bytes that the file has.
Part(size, offset, bytes) ==
  IF size = UNDEFINED_LEN \/ offset >= size THEN 0 ELSE Min({size - offset, Len(bytes)})

\* The bytes that a file has are modified, and the others come behind its end.
LEMMA PartBound ==
  ASSUME NEW size \in Nat, NEW offset \in Nat, offset <= Length(size), NEW bytes \in Seq(Nat),
         NEW old, old = Part(size, offset, bytes)
  PROVE  /\ old \in Nat /\ old <= Len(bytes) /\ offset + old <= Length(size)
         /\ old # Len(bytes) => offset + old = Length(size)
<1> DEFINE len == Len(bytes)
<1>1. len \in Nat OBVIOUS
<1>2. CASE size = UNDEFINED_LEN \/ offset >= size
  <2>1. old = 0 BY <1>2 DEF Part
  <2>2. offset = Length(size) BY <1>2 DEF Length
  <2> QED BY <1>1, <2>1, <2>2
<1>3. CASE size # UNDEFINED_LEN /\ ~(offset >= size)
  <2> DEFINE a == size - offset
  <2>1. old = Min({a, len}) /\ Length(size) = size /\ a \in Nat /\ offset + a = size BY <1>3 DEF Part, Length
  <2> HIDE DEF a, len
  <2>2. old \in {a, len} /\ old <= a /\ old <= len BY <1>1, <2>1, LesserOf
  <2> QED BY <1>1, <2>1, <2>2 DEF len
<1> QED BY <1>2, <1>3

\* spiffs_hydro_write.
LEMMA WriteEnds ==
  ASSUME NEW s, Settled(s, 0), s.res = "OK", 0 \notin Fds, NEW f \in Fds, s.fds[f].open,
         NEW offset \in Nat, offset <= Length(s.fds[f].size), NEW bytes \in Seq(Nat), offset + Len(bytes) < UNDEFINED_LEN
  PROVE  Ends(hydro_write(s, f, offset, bytes))
<1> DEFINE size == s.fds[f].size
           old == Part(size, offset, bytes)
           len == Len(bytes)
           u == IF old > 0 THEN object_modify(s, f, offset, SubSeq(bytes, 1, old)) ELSE s
           rest == SubSeq(bytes, old + 1, len)
           t == hydro_write(s, f, offset, bytes)
<1>1. size \in Nat /\ len \in Nat BY FdExtent
<1>2. t = IF u.res = "OK" THEN IF old = len THEN u ELSE object_append(u, f, offset + old, rest) ELSE u
  <2> DEFINE Rest0(x) == IF old = len THEN x ELSE object_append(x, f, offset + old, rest)
             then == IF u.res = "OK" THEN Rest0(u) ELSE u
  <2>1. t = Then(u, Rest0) BY DEF hydro_write, Part
  <2> HIDE DEF u, t, Rest0
  <2>2. t = then BY <2>1 DEF Then, With
  <2> QED BY <2>2 DEF Rest0
<1> HIDE DEF t
<1>3. /\ old \in Nat /\ old <= len /\ offset + old <= Length(size)
      /\ old # len => offset + old = Length(size)
  <2> HIDE DEF size, old
  <2> QED BY <1>1, PartBound DEF size, old
<1> HIDE DEF old
<1>4. Ends(u) /\ (u.res = "OK" => Steady(s, u, f))
  <2>1. CASE old > 0
    <3> DEFINE part == SubSeq(bytes, 1, old)
    <3>1. part \in Seq(Nat) /\ Len(part) = old - 1 + 1 BY <1>1, <1>3, PartOf
    <3>2. Len(part) > 0 /\ offset + Len(part) <= Length(s.fds[f].size) BY <1>3, <2>1, <3>1
    <3> HIDE DEF part
    <3>3. LET v == object_modify(s, f, offset, part) IN Ends(v) /\ (v.res = "OK" => Steady(s, v, f))
      BY <3>1, <3>2, ModifyEnds
    <3>4. u = object_modify(s, f, offset, part) BY <2>1 DEF part
    <3> QED BY <3>3, <3>4
  <2>2. CASE ~(old > 0)
    <3>1. u = s BY <2>2
    <3> HIDE DEF u
    <3>2. Ends(u) BY <3>1, StoppedEnds
    <3> QED BY <3>1, <3>2 DEF Steady
  <2> QED BY <2>1, <2>2
<1> HIDE DEF u
<1>5. CASE u.res # "OK" \/ old = len BY <1>2, <1>4, <1>5 DEF t
<1>6. CASE u.res = "OK" /\ old # len
  <2> DEFINE at == offset + old
  <2>1. t = object_append(u, f, at, rest) BY <1>2, <1>6
  <2>2. Settled(u, 0) /\ u.fds[f].open /\ at = Length(u.fds[f].size) BY <1>3, <1>4, <1>6 DEF Steady
  <2>3. old + 1 \in Nat \ {0} /\ old + 1 <= len + 1 /\ len <= Len(bytes) BY <1>1, <1>3
  <2>4. rest \in Seq(Nat) /\ Len(rest) = len - (old + 1) + 1
    <3> DEFINE i == old + 1
    <3>1. i \in Nat \ {0} /\ i <= len + 1 BY <2>3
    <3> HIDE DEF i
    <3>2. SubSeq(bytes, i, len) \in Seq(Nat) /\ Len(SubSeq(bytes, i, len)) = len - i + 1 BY <1>1, <3>1, PartOf
    <3> QED BY <3>2 DEF i
  <2>5. Len(rest) > 0 /\ at + Len(rest) = offset + len
    <3> HIDE DEF rest, len
    <3> QED BY <1>1, <1>3, <1>6, <2>4
  <2>6. at + Len(rest) < UNDEFINED_LEN BY <2>5
  <2> HIDE DEF at, rest
  <2>7. Ends(object_append(u, f, at, rest)) BY <1>6, <2>2, <2>4, <2>5, <2>6, AppendEnds
  <2> QED BY <2>1, <2>7 DEF t
<1> QED BY <1>5, <1>6

\* --------------- The invariant, and the properties that follow ----------------

\* Handles are numbers from 1, so that the first free descriptor is one.
LEMMA FirstFd ==
  0 \notin Fds /\ \A S \in SUBSET Fds : S # {} => Min(S) \in S
<1>1. Cardinality(Fds) \in Nat BY BoundsAssumption, FS_CardinalityType
<1>2. 0 \notin Fds BY <1>1, BoundsAssumption
<1>3. ASSUME NEW S \in SUBSET Fds, S # {} PROVE Min(S) \in S
  <2>1. S \in SUBSET (1 .. Cardinality(Fds)) BY BoundsAssumption
  <2>2. PICK m \in S : \A x \in S : m <= x BY <1>1, <1>3, <2>1, LeastIndex
  <2> QED BY <2>2 DEF Min
<1> QED BY <1>2, <1>3

\* What the calls are made from, when none has starved and no reset came: every page and
\* every descriptor is in its place.
StoreInv ==
  /\ StatsMatch
  /\ resets \in Nat
  /\ possible = {} <=> resets = 0
  /\ ~starved /\ resets = 0 => Settled(Current, 0)

\* What is kept of a state that a call has left.
LEMMA KeptSettled ==
  ASSUME NEW s, Settled(s, 0), NEW u, DOMAIN u = StateFields, u.page = s.page, u.erase = s.erase,
         u.max_erase_count = s.max_erase_count, u.free_blocks = s.free_blocks, u.allocated = s.allocated,
         u.deleted = s.deleted, u.free_cursor = s.free_cursor,
         u.fds = [f \in Fds |-> IF s.fds[f].open THEN s.fds[f] ELSE Closed]
  PROVE  Settled(u, 0)
<1>1. Sound(u) /\ Layout(u) /\ Forest(u.page, 0)
  BY DEF Settled, Sound, Flash, Counted, Layout, CursorOK
<1>2. DOMAIN Closed = FdFields /\ Closed.open = FALSE
  BY DEF Closed, FdFields
<1>3. FdsOK(u.fds, u.page, 0)
  BY <1>2 DEF Settled, FdsOK, FdsTyped
<1> QED BY <1>1, <1>3 DEF Settled

\* A mount counts the pages it finds, whatever they hold.
LEMMA MountCounts ==
  ASSUME NEW s, {"free_blocks", "allocated", "deleted", "page"} \subseteq DOMAIN s
  PROVE  LET t == Mounted(s)
         IN /\ t.page = s.page
            /\ t.allocated = Cardinality({p \in Pages : Live(s.page, p)})
            /\ t.deleted = Cardinality({p \in Pages : s.page[p].lu = DELETED})
            /\ t.free_blocks = Cardinality({b \in Blocks : s.page[b * MAX_ENTRIES].lu = FREE})
BY DEF Mounted, obj_lu_scan

\* A call keeps the invariant if it ends as one should, whether or not a reset comes in it.
LEMMA Commits ==
  ASSUME StoreInv, NEW result, Ends(result), NEW expected, NEW partial, CommitPart(result, expected, partial)
  PROVE  StoreInv'
<1>1. ~starved /\ resets = 0 BY DEF CommitPart
<1>2. CASE Keep(result) /\ UNCHANGED <<resets, possible, checked>>
  <2>1. /\ page' = result.page /\ erase' = result.erase /\ fs' = Counters(result) /\ starved' = result.starved
        /\ fds' = [f \in Fds |-> IF result.fds[f].open THEN result.fds[f] ELSE Closed]
    BY <1>2 DEF Keep
  <2>2. Counted(result) BY DEF Ends, Sound
  <2>3. StatsMatch'
    BY <2>1, <2>2 DEF StatsMatch, Counted, Counters, LivePages, DeletedPages, FreeBlocks
  <2>4. ASSUME ~starved' PROVE Settled(Current', 0)
    <3>1. Settled(result, 0) BY <2>1, <2>4 DEF Ends
    <3> DEFINE u == Current'
    <3>2. /\ DOMAIN u = StateFields /\ u.page = result.page /\ u.erase = result.erase
          /\ u.max_erase_count = result.max_erase_count /\ u.free_blocks = result.free_blocks
          /\ u.allocated = result.allocated /\ u.deleted = result.deleted
          /\ u.free_cursor = result.free_cursor
          /\ u.fds = [f \in Fds |-> IF result.fds[f].open THEN result.fds[f] ELSE Closed]
      BY <2>1 DEF Current, Counters, StateFields
    <3> HIDE DEF u
    <3>3. Settled(u, 0) BY <3>1, <3>2, KeptSettled
    <3> QED BY <3>3 DEF u
  <2> QED BY <1>2, <2>3, <2>4 DEF StoreInv
<1>3. CASE ResetIn(result, {files, expected} \union partial)
  <2>1. PICK flash \in result.torn :
          /\ Keep(Mounted([Current EXCEPT !.page = flash.page, !.erase = flash.erase]))
          /\ resets' = resets + 1 /\ possible' = {files, expected} \union partial
    BY <1>3 DEF ResetIn
  <2> DEFINE s == [Current EXCEPT !.page = flash.page, !.erase = flash.erase]
             t == Mounted(s)
  <2>2. {"free_blocks", "allocated", "deleted", "page"} \subseteq DOMAIN s
    BY DEF Current
  <2>3. Keep(t) BY <2>1
  <2> HIDE DEF s
  <2>4. /\ t.page = s.page
        /\ t.allocated = Cardinality({p \in Pages : Live(s.page, p)})
        /\ t.deleted = Cardinality({p \in Pages : s.page[p].lu = DELETED})
        /\ t.free_blocks = Cardinality({b \in Blocks : s.page[b * MAX_ENTRIES].lu = FREE})
    BY <2>2, MountCounts
  <2> HIDE DEF t
  <2>5. page' = t.page /\ fs' = Counters(t) BY <2>3 DEF Keep
  <2>6. StatsMatch' BY <2>4, <2>5 DEF StatsMatch, Counters
  <2>7. resets' = 1 /\ possible' # {} BY <1>1, <2>1
  <2> QED BY <2>6, <2>7 DEF StoreInv
<1> QED BY <1>2, <1>3 DEF CommitPart

\* A fresh flash is mounted: no page is in use.
LEMMA StoreStarts == Init => StoreInv
<1> DEFINE blank == [page |-> [p \in Pages |-> Erased], erase |-> [b \in Blocks |-> FREE],
                  max_erase_count |-> 0, free_blocks |-> 0, allocated |-> 0, deleted |-> 0,
                  free_cursor |-> 0, work |-> Erased, fds |-> <<>>]
           m == Mounted(blank)
<1> SUFFICES ASSUME Init PROVE StoreInv OBVIOUS
<1>1. /\ page = m.page /\ erase = m.erase /\ fs = Counters(m) /\ fds = m.fds
      /\ starved = FALSE /\ resets = 0 /\ possible = {}
  BY DEF Init
<1>2. /\ m.page = [p \in Pages |-> Erased] /\ m.erase = [b \in Blocks |-> FREE]
      /\ m.fds = [f \in Fds |-> Closed] /\ m.free_cursor = 0
      /\ m.max_erase_count = EraseCounter(m.erase)
      /\ m.allocated = Cardinality({p \in Pages : Live(m.page, p)})
      /\ m.deleted = Cardinality({p \in Pages : m.page[p].lu = DELETED})
      /\ m.free_blocks = Cardinality({b \in Blocks : m.page[b * MAX_ENTRIES].lu = FREE})
  BY DEF Mounted, obj_lu_scan
<1> HIDE DEF m
<1>3. StatsMatch BY <1>1, <1>2 DEF StatsMatch, Counters
<1> DEFINE u == Current
<1>4. /\ DOMAIN u = StateFields /\ u.page = m.page /\ u.erase = m.erase /\ u.fds = m.fds
      /\ u.max_erase_count = m.max_erase_count /\ u.free_blocks = m.free_blocks
      /\ u.allocated = m.allocated /\ u.deleted = m.deleted /\ u.free_cursor = 0
  BY <1>1, <1>2 DEF Current, Counters, StateFields
<1> HIDE DEF u
<1>5. \A p \in Pages : u.page[p] = Erased BY <1>2, <1>4
<1>6. \A p \in Pages : ~Live(u.page, p) BY <1>5, Blanks DEF Live
<1>7. Sound(u)
  <2>1. u.max_erase_count \in Int
    BY <1>2, <1>4, CounterType DEF FREE
  <2>2. Counted(u) BY <1>2, <1>4 DEF Counted, LivePages, DeletedPages, FreeBlocks
  <2>3. \A p \in Pages : PageOK(u.page[p]) BY <1>5, Blanks
  <2>4. DOMAIN u.page = Pages /\ DOMAIN u.erase = Blocks /\ \A b \in Blocks : u.erase[b] \in Int
    BY <1>2, <1>4 DEF FREE
  <2> QED BY <1>4, <2>1, <2>2, <2>3, <2>4 DEF Sound, Flash
<1>8. Layout(u)
  <2>1. 0 \in Blocks /\ 0 * MAX_ENTRIES = 0 BY SizesAssumption DEF Blocks
  <2>2. 0 \in Pages BY <2>1, BlockPages
  <2>3. EntryOf(0) = 0 BY <2>2, SizesAssumption DEF EntryOf
  <2>4. FreeLast(u.page) BY <1>5, Blanks DEF FreeLast
  <2> QED BY <1>4, <2>2, <2>3, <2>4 DEF Layout, CursorOK
<1>9. Forest(u.page, 0)
  BY <1>6 DEF Forest, Shaped, OneVersion, Refs, Owned, Headed, Sized, IsHeader
<1>10. FdsOK(u.fds, u.page, 0)
  <2>1. DOMAIN Closed = FdFields /\ Closed.open = FALSE BY DEF Closed, FdFields
  <2> QED BY <1>2, <1>4, <2>1 DEF FdsOK, FdsTyped
<1>11. Settled(u, 0) BY <1>7, <1>8, <1>9, <1>10 DEF Settled
<1> QED BY <1>1, <1>3, <1>11 DEF StoreInv, u

\* Where a call starts.
LEMMA Here ==
  ASSUME StoreInv, ~starved, resets = 0
  PROVE  Settled(Current, 0) /\ Current.res = "OK" /\ Current.page = page /\ Current.fds = fds
BY DEF StoreInv, Current

\* A call that is made and ends as one should keeps the invariant.
LEMMA CallKeeps ==
  ASSUME StoreInv, NEW result, NEW expected, Commit(result, expected),
         ~starved /\ resets = 0 => Ends(result)
  PROVE  StoreInv'
<1>1. CommitPart(result, expected, {files}) BY DEF Commit
<1>2. ~starved /\ resets = 0 BY <1>1 DEF CommitPart
<1> QED BY <1>1, <1>2, Commits

\* SPIFFS_open keeps every page and descriptor in its place.
LEMMA OpenKeeps ==
  ASSUME StoreInv, ~TruncateEmpty, NEW n, NEW creat, NEW trunc \in BOOLEAN, SPIFFS_open(n, creat, trunc)
  PROVE  StoreInv'
<1> DEFINE f == NewFd
           p == Min(Headers(page, n))
           made == Then(object_create(Current, n), LAMBDA t : object_open_by_page(t, t.pix, f))
           found == object_open_by_page(Current, p, f)
           cut == IF trunc THEN Then(found, LAMBDA t : object_truncate(t, f, FALSE)) ELSE found
<1>1. FreeFds # {} /\ (trunc /\ ~TruncateEmpty => page[p].size # UNDEFINED_LEN) BY DEF SPIFFS_open
<1>2. f \in Fds /\ 0 \notin Fds
  <2>1. FreeFds \in SUBSET Fds BY DEF FreeFds
  <2> QED BY <1>1, <2>1, FirstFd DEF NewFd
<1>3. CASE Headers(page, n) # {}
  <2>1. Commit(Opened(cut, f), IF trunc THEN Put(n, <<>>) ELSE files) BY <1>3 DEF SPIFFS_open
  <2>2. p \in Pages /\ IsHeader(page, p) BY <1>3, HeaderFound
  <2> HIDE DEF f, p
  <2>3. ASSUME ~starved, resets = 0 PROVE Ends(Opened(cut, f))
    <3>1. Settled(Current, 0) /\ Current.res = "OK" /\ Current.page = page BY <2>3, Here
    <3>2. CASE trunc
      <4>1. Ends(Opened(IF found.res = "OK" THEN object_truncate(found, f, FALSE) ELSE found, f))
        BY <1>1, <1>2, <2>2, <3>1, <3>2, ThroughEnds DEF found
      <4> QED BY <3>2, <4>1 DEF cut, Then, With
    <3>3. CASE ~trunc BY <1>2, <2>2, <3>1, <3>3, FoundEnds DEF cut, found
    <3> QED BY <3>2, <3>3
  <2> HIDE DEF cut
  <2> QED BY <2>1, <2>3, CallKeeps
<1>4. CASE Headers(page, n) = {}
  <2>1. Commit(Opened(made, f), Put(n, <<>>)) BY <1>4 DEF SPIFFS_open
  <2> HIDE DEF f
  <2>2. ASSUME ~starved, resets = 0 PROVE Ends(Opened(made, f))
    <3>1. Settled(Current, 0) /\ Current.res = "OK" BY <2>2, Here
    <3> QED BY <1>2, <3>1, MadeEnds DEF made
  <2> HIDE DEF made
  <2> QED BY <2>1, <2>2, CallKeeps
<1> QED BY <1>3, <1>4

\* SPIFFS_lseek does.
LEMMA LseekKeeps ==
  ASSUME StoreInv, NEW f \in Fds, NEW offset \in Nat, SPIFFS_lseek(f, offset)
  PROVE  StoreInv'
<1> DEFINE span == IxSpan(offset \div DATA_PAGE_SIZE)
           result == Then(obj_lu_find_id_and_span(Current, fds[f].id, span), LAMBDA t : SetCursor(t, f, t.pix, span))
<1>1. fds[f].open /\ Commit(result, files) BY DEF SPIFFS_lseek
<1>2. span \in Nat
  <2>1. offset \div DATA_PAGE_SIZE \in Nat BY SizesAssumption
  <2> QED BY <2>1, SpanType
<1> HIDE DEF span
<1>3. ASSUME ~starved, resets = 0 PROVE Ends(result)
  <2>1. Settled(Current, 0) /\ Current.res = "OK" /\ Current.fds = fds BY <1>3, Here
  <2>2. Settled(result, 0) BY <1>1, <1>2, <2>1, LseekSettled
  <2> QED BY <2>2, StoppedEnds
<1> HIDE DEF result
<1> QED BY <1>1, <1>3, CallKeeps

\* SPIFFS_write does, whatever prefix it stores.
LEMMA WriteKeeps ==
  ASSUME StoreInv, NEW f \in Fds, NEW offset \in Nat, NEW bytes \in Writes, SPIFFS_write(f, offset, bytes)
  PROVE  StoreInv'
<1> DEFINE result == hydro_write(Current, f, offset, bytes)
<1>1. /\ fds[f].open /\ offset <= Length(fds[f].size) /\ offset + Len(bytes) <= MaxSize
      /\ \E e, q : CommitPart(result, e, q)
  BY DEF SPIFFS_write
<1>2. bytes \in Seq(Nat) /\ offset + Len(bytes) < UNDEFINED_LEN
  BY <1>1, BoundsAssumption DEF UNDEFINED_LEN
<1>3. ASSUME NEW e, NEW q, CommitPart(result, e, q) PROVE StoreInv'
  <2>1. Settled(Current, 0) /\ Current.res = "OK" /\ Current.fds = fds BY <1>3, Here DEF CommitPart
  <2>2. Ends(result) BY <1>1, <1>2, <2>1, FirstFd, WriteEnds
  <2> HIDE DEF result
  <2> QED BY <1>3, <2>2, Commits
<1> QED BY <1>1, <1>3

\* SPIFFS_read does.
LEMMA ReadKeeps ==
  ASSUME StoreInv, NEW f \in Fds, SPIFFS_read(f)
  PROVE  StoreInv'
<1> DEFINE result == object_read(Current, f, fds[f].size).s
<1>1. fds[f].open /\ Commit(result, files) BY DEF SPIFFS_read
<1>2. ASSUME ~starved, resets = 0 PROVE Ends(result)
  <2>1. Settled(Current, 0) /\ Current.fds = fds BY <1>2, Here
  <2>2. fds[f].size \in Nat BY <1>1, <2>1 DEF Settled, FdsOK, FdOK
  <2>3. Settled(result, 0) BY <1>1, <2>1, <2>2, ReadSettled
  <2> QED BY <2>3, StoppedEnds
<1> HIDE DEF result
<1> QED BY <1>1, <1>2, CallKeeps

\* SPIFFS_close does.
LEMMA CloseKeeps ==
  ASSUME StoreInv, NEW f \in Fds, SPIFFS_close(f)
  PROVE  StoreInv'
<1> DEFINE result == Close(Current, f)
<1>1. Commit(result, files) BY DEF SPIFFS_close
<1>2. ASSUME ~starved, resets = 0 PROVE Ends(result)
  <2>1. Ends(Current) BY <1>2, Here, StoppedEnds
  <2> QED BY <2>1, CloseEnds
<1> HIDE DEF result
<1> QED BY <1>1, <1>2, CallKeeps

\* SPIFFS_fremove does.
LEMMA FremoveKeeps ==
  ASSUME StoreInv, NEW f \in Fds, SPIFFS_fremove(f)
  PROVE  StoreInv'
<1> DEFINE result == object_truncate(Current, f, TRUE)
<1>1. fds[f].open /\ \E e : Commit(result, e) BY DEF SPIFFS_fremove
<1>2. ASSUME ~starved, resets = 0 PROVE Ends(result)
  <2>1. Settled(Current, 0) /\ Current.res = "OK" /\ Current.fds = fds BY <1>2, Here
  <2> QED BY <1>1, <2>1, FirstFd, TruncateEnds
<1> HIDE DEF result
<1> QED BY <1>1, <1>2, CallKeeps

\* SPIFFS_remove does.
LEMMA RemoveKeeps ==
  ASSUME StoreInv, NEW n, SPIFFS_remove(n)
  PROVE  StoreInv'
<1> DEFINE f == NewFd
           p == Min(Headers(page, n))
           opened == object_open_by_page(Current, p, f)
           result == Opened(RemoveThrough(n, f), f)
<1>1. FreeFds # {} /\ Headers(page, n) # {} /\ \E e : Commit(result, e) BY DEF SPIFFS_remove
<1>2. f \in Fds /\ 0 \notin Fds
  <2>1. FreeFds \in SUBSET Fds BY DEF FreeFds
  <2> QED BY <1>1, <2>1, FirstFd DEF NewFd
<1>3. p \in Pages /\ IsHeader(page, p) BY <1>1, HeaderFound
<1>4. result = Opened(IF opened.res = "OK" THEN object_truncate(opened, f, TRUE) ELSE opened, f)
  BY DEF RemoveThrough, Then, With
<1> HIDE DEF f, p, result
<1>5. ASSUME ~starved, resets = 0 PROVE Ends(result)
  <2>1. Settled(Current, 0) /\ Current.res = "OK" /\ Current.page = page BY <1>5, Here
  <2> QED BY <1>2, <1>3, <1>4, <2>1, ThroughEnds
<1> QED BY <1>1, <1>5, CallKeeps

\* SPIFFS_rename does.
LEMMA RenameKeeps ==
  ASSUME StoreInv, NEW n, NEW m, SPIFFS_rename(n, m)
  PROVE  StoreInv'
<1> DEFINE f == NewFd
           p == Min(Headers(page, n))
           opened == object_open_by_page(Current, p, f)
           Rename(t) == LET h == t.fds[f].objix_hdr_pix
                        IN update_index_hdr(t, f, t.fds[f].id, h, t.page[h], m, 0)
           result == Close(Then(opened, Rename), f)
<1>1. FreeFds # {} /\ Headers(page, n) # {} /\ \E e : Commit(result, e) BY DEF SPIFFS_rename
<1>2. f \in Fds
  <2>1. FreeFds \in SUBSET Fds BY DEF FreeFds
  <2> QED BY <1>1, <2>1, FirstFd DEF NewFd
<1>3. p \in Pages /\ IsHeader(page, p) BY <1>1, HeaderFound
<1> HIDE DEF f, p
<1>4. ASSUME ~starved, resets = 0 PROVE Ends(result)
  <2>1. Settled(Current, 0) /\ Current.res = "OK" /\ Current.page = page BY <1>4, Here
  <2>2. Ends(RenameRun(Current, p, f, m)) BY <1>2, <1>3, <2>1, RenameEnds
  <2>3. RenameRun(Current, p, f, m) = result BY DEF RenameRun
  <2> QED BY <2>2, <2>3
<1> HIDE DEF result
<1> QED BY <1>1, <1>4, CallKeeps

\* The garbage collector does, called with a length.
LEMMA GcKeeps ==
  ASSUME StoreInv, NEW len, SPIFFS_gc(len)
  PROVE  StoreInv'
<1> DEFINE result == gc_check(Current, len)
<1>1. Commit(result, files) BY DEF SPIFFS_gc
<1>2. ASSUME ~starved, resets = 0 PROVE Ends(result)
  <2>1. Settled(Current, 0) /\ Current.res = "OK" BY <1>2, Here
  <2>2. GcDone(Current, result) BY <2>1, FirstFd, GcCheckTidy
  <2> HIDE DEF result
  <2> QED BY <2>2, StoppedEnds DEF GcDone
<1> HIDE DEF result
<1> QED BY <1>1, <1>2, CallKeeps

\* SPIFFS_gc_quick does, if it is to erase only blocks without free pages.
LEMMA QuickKeeps ==
  ASSUME StoreInv, SPIFFS_gc_quick(0)
  PROVE  StoreInv'
<1> DEFINE result == gc_quick(Current, 0)
<1>1. Commit(result, files) BY DEF SPIFFS_gc_quick
<1>2. ASSUME ~starved, resets = 0 PROVE Ends(result)
  <2>1. Settled(Current, 0) BY <1>2, Here
  <2> QED BY <2>1, QuickSettled, StoppedEnds
<1> HIDE DEF result
<1> QED BY <1>1, <1>2, CallKeeps

\* A new mount does.
LEMMA MountKeeps ==
  ASSUME StoreInv, SPIFFS_mount
  PROVE  StoreInv'
<1> DEFINE result == Mounted(Current)
<1>1. Commit(result, files) BY DEF SPIFFS_mount
<1>2. ASSUME ~starved, resets = 0 PROVE Ends(result)
  <2>1. Settled(Current, 0) BY <1>2, Here
  <2> QED BY <2>1, MountSettled, StoppedEnds
<1> HIDE DEF result
<1> QED BY <1>1, <1>2, CallKeeps

\* Every call does, on a file system whose files are only truncated when they have bytes
\* and where SPIFFS_gc_quick is given no free pages.
THEOREM StoreInvariant ==
  ASSUME ~TruncateEmpty, QuickPages \subseteq {0}
  PROVE  Spec => []StoreInv
<1>1. StoreInv /\ [Next]_vars => StoreInv'
  <2> SUFFICES ASSUME StoreInv, [Next]_vars PROVE StoreInv' OBVIOUS
  <2>1. CASE Next
    <3>1. CASE \E n \in Names, creat, trunc \in BOOLEAN : SPIFFS_open(n, creat, trunc)
      BY <3>1, OpenKeeps
    <3>2. CASE \E f \in Fds, offset \in 0 .. MaxSize : SPIFFS_lseek(f, offset)
      <4>1. PICK f \in Fds, offset \in 0 .. MaxSize : SPIFFS_lseek(f, offset) BY <3>2
      <4>2. offset \in Nat BY BoundsAssumption
      <4> QED BY <4>1, <4>2, LseekKeeps
    <3>3. CASE \E f \in Fds, offset \in 0 .. MaxSize, bytes \in Writes : SPIFFS_write(f, offset, bytes)
      <4>1. PICK f \in Fds, offset \in 0 .. MaxSize, bytes \in Writes : SPIFFS_write(f, offset, bytes) BY <3>3
      <4>2. offset \in Nat BY BoundsAssumption
      <4> QED BY <4>1, <4>2, WriteKeeps
    <3>4. CASE \E f \in Fds : SPIFFS_read(f) \/ SPIFFS_close(f) \/ SPIFFS_fremove(f)
      BY <3>4, ReadKeeps, CloseKeeps, FremoveKeeps
    <3>5. CASE \E n \in Names : SPIFFS_remove(n) \/ \E m \in Names : SPIFFS_rename(n, m)
      BY <3>5, RemoveKeeps, RenameKeeps
    <3>6. CASE \E len \in GcSizes : SPIFFS_gc(len)
      BY <3>6, GcKeeps
    <3>7. CASE \E k \in QuickPages : SPIFFS_gc_quick(k)
      BY <3>7, QuickKeeps
    <3>8. CASE SPIFFS_mount
      BY <3>8, MountKeeps
    <3> QED BY <2>1, <3>1, <3>2, <3>3, <3>4, <3>5, <3>6, <3>7, <3>8 DEF Next
  <2>2. CASE UNCHANGED vars
    <3>1. UNCHANGED <<page, erase, fs, fds, work, starved, resets, possible>> BY <2>2 DEF vars
    <3>2. Current' = Current BY <3>1 DEF Current
    <3>3. StatsMatch' BY <3>1 DEF StoreInv, StatsMatch
    <3> QED BY <3>1, <3>2, <3>3 DEF StoreInv
  <2> QED BY <2>1, <2>2
<1> QED BY <1>1, StoreStarts, PTL DEF Spec

\* The counters that the garbage collector decides by are, after every call, those that a
\* new mount would count: whatever a call failed at, and after a reset inside one.
THEOREM CountersMatch ==
  ASSUME ~TruncateEmpty, QuickPages \subseteq {0}
  PROVE  Spec => []StatsMatch
<1>1. StoreInv => StatsMatch BY DEF StoreInv
<1> QED BY <1>1, StoreInvariant, PTL

\* What the invariant says of the flash while the files are known.
LEMMA Known ==
  ASSUME StoreInv, ~starved, ~Unchecked
  PROVE  Settled(Current, 0) /\ Forest(page, 0) /\ FdsOK(fds, page, 0)
<1>1. Settled(Current, 0) BY DEF StoreInv, Unchecked
<1>2. Current.page = page /\ Current.fds = fds BY DEF Current
<1> QED BY <1>1, <1>2 DEF Settled

\* No two live pages claim to be the same span of the same object, so that it does not
\* matter at which page obj_lu_find_id_and_span starts its search.
THEOREM OneVersionOfEachPage ==
  ASSUME ~TruncateEmpty, QuickPages \subseteq {0}
  PROVE  Spec => []Unique
<1>1. StoreInv => Unique
  <2> SUFFICES ASSUME StoreInv, ~starved, ~Unchecked
               PROVE  LET live == {p \in Pages : Live(page, p)}
                      IN Cardinality({<<page[p].lu, page[p].span>> : p \in live}) = Cardinality(live)
    BY DEF Unique
  <2> DEFINE live == {p \in Pages : Live(page, p)}
             pairs == {<<page[p].lu, page[p].span>> : p \in live}
             g == [p \in live |-> <<page[p].lu, page[p].span>>]
  <2>1. OneVersion(page) BY Known DEF Forest
  <2>2. IsFiniteSet(live) BY Finite, FS_Subset
  <2>3. g \in [live -> pairs] OBVIOUS
  <2>4. ASSUME NEW p \in live, NEW q \in live, g[p] = g[q] PROVE p = q
    <3>1. page[p].lu = page[q].lu /\ page[p].span = page[q].span BY <2>4
    <3> QED BY <2>1, <3>1 DEF OneVersion
  <2>5. \A t \in pairs : \E p \in live : g[p] = t OBVIOUS
  <2> HIDE DEF g, pairs, live
  <2>6. g \in Bijection(live, pairs)
    BY <2>3, <2>4, <2>5 DEF Bijection, Injection, Surjection, IsInjective
  <2>7. ExistsBijection(live, pairs) BY <2>6 DEF ExistsBijection
  <2>8. Cardinality(pairs) = Cardinality(live) BY <2>2, <2>7, FS_Bijection
  <2> QED BY <2>8 DEF pairs, live
<1> QED BY <1>1, StoreInvariant, PTL

\* The header of an object in a forest is one page.
LEMMA HeaderIs ==
  ASSUME NEW P, Forest(P, 0), NEW id, id + IX_FLAG \in IxIds, NEW h \in Pages, IsHeader(P, h), P[h].lu = id + IX_FLAG
  PROVE  {p \in Pages : P[p].lu = id + IX_FLAG /\ P[p].span = 0} = {h}
<1> DEFINE ix == id + IX_FLAG
<1>1. ix # FREE /\ ix # DELETED /\ IsIx(ix) BY LiveId DEF IxIds
<1> HIDE DEF ix
<1>2. ASSUME NEW p \in Pages, P[p].lu = ix, P[p].span = 0 PROVE p = h
  <2>1. IsHeader(P, p) BY <1>1, <1>2 DEF IsHeader, Live
  <2> QED BY <1>2, <2>1, OneHeader DEF Forest, ix
<1>3. P[h].span = 0 BY DEF IsHeader
<1> QED BY <1>2, <1>3 DEF ix

\* The least of one number is that number.
LEMMA LeastOne ==
  ASSUME NEW h
  PROVE  h \in Nat => Min({h}) = h
BY DEF Min

\* Every live page belongs to a file: its object has a header, its span is within the size
\* in the header, and a data page is the one that the index of its object names.
PageOwned(P, p) ==
  LET id == P[p].lu % IX_FLAG
      span == P[p].span
      headers == {q \in Pages : P[q].lu = id + IX_FLAG /\ P[q].span = 0}
      pages == PageCount(P[Min(headers)].size)
  IN /\ headers # {}
     /\ IF IsIx(P[p].lu) THEN span = 0 \/ span <= IxSpan(pages - 1)
        ELSE span < pages /\ Ref(P, id, span) = p

\* In a forest every live page does.
LEMMA ForestOwned ==
  ASSUME NEW P, Forest(P, 0), NEW p \in Pages, Live(P, p)
  PROVE  PageOwned(P, p)
<1> DEFINE lu == P[p].lu
           id == lu % IX_FLAG
           span == P[p].span
           ix == Obj(lu)
<1>1. Shape(P[p], 0) /\ lu \in LiveIds /\ span \in Nat BY DEF Forest, Shaped, Shape
<1>2. id + IX_FLAG = ix /\ ix \in IxIds /\ (~IsIx(lu) => id = lu)
  <2>1. CASE IsIx(lu)
    <3>1. lu \in IxIds BY <1>1, <2>1 DEF IxIds
    <3>2. ix = lu BY <2>1 DEF Obj
    <3> HIDE DEF lu
    <3> QED BY <2>1, <3>1, <3>2, DataOf
  <2>2. CASE ~IsIx(lu)
    <3>1. ix = lu + IX_FLAG /\ ix \in IxIds BY <1>1, <2>2, IdKinds DEF Obj
    <3>2. lu \in Nat /\ lu < IX_FLAG BY <1>1, <2>2 DEF LiveIds, IsIx, IX_FLAG, FREE
    <3>3. lu % IX_FLAG = lu BY <3>2 DEF IX_FLAG
    <3> QED BY <3>1, <3>3
  <2> QED BY <2>1, <2>2
<1>3. PICK h \in Pages : IsHeader(P, h) /\ P[h].lu = ix BY DEF Forest, Headed
<1> HIDE DEF id, ix
<1> DEFINE headers == {q \in Pages : P[q].lu = id + IX_FLAG /\ P[q].span = 0}
           pages == PageCount(P[h].size)
<1>4. headers = {h} BY <1>2, <1>3, HeaderIs
<1>5. Min(headers) = h BY <1>4, LeastOne, PageRange
<1>6. ix # 0 BY <1>2, LiveId DEF IxIds
<1>7. P[h].size \in Nat /\ Extent(P, ix, pages, IxCount(pages))
  BY <1>3, <1>6 DEF Forest, Sized, Filled
<1>8. pages \in Nat BY <1>7, PagesOfSize
<1> HIDE DEF pages, headers
<1>9. CASE IsIx(lu)
  <2>1. ix = lu BY <1>9 DEF ix, Obj
  <2>2. span < IxCount(pages) BY <1>7, <2>1 DEF Extent
  <2>3. span = 0 \/ span <= IxSpan(pages - 1)
    <3>1. CASE pages = 0 BY <1>1, <2>2, <3>1 DEF IxCount
    <3>2. CASE pages # 0
      <4> DEFINE k == pages - 1
      <4>1. k \in Nat BY <1>8, <3>2
      <4> HIDE DEF k
      <4>2. IxSpan(k) \in Nat BY <4>1, SpanType
      <4>3. span < IxSpan(k) + 1 BY <2>2, <3>2 DEF IxCount, k
      <4> QED BY <1>1, <4>2, <4>3 DEF k
    <3> QED BY <3>1, <3>2
  <2> QED BY <1>4, <1>5, <1>9, <2>3 DEF PageOwned, headers, pages, id
<1>10. CASE ~IsIx(lu)
  <2>1. lu + IX_FLAG = ix /\ id = lu BY <1>2, <1>10
  <2>2. span < pages BY <1>7, <2>1 DEF Extent
  <2>3. PICK w \in Pages : Owner(P, w, p) BY <1>10 DEF Forest, Owned
  <2>4. Live(P, w) /\ P[w].lu = ix /\ P[w].span = IxSpan(span) /\ P[w].ix[IxEntry(span)] = p
    BY <2>1, <2>3 DEF Owner
  <2>5. IsIx(P[w].lu) /\ "IXDELE" \notin P[w].flags
    <3>1. Shape(P[w], 0) BY <2>4 DEF Forest, Shaped
    <3> QED BY <1>2, <1>6, <2>4, <3>1 DEF IxIds, Shape
  <2>6. Matches(P, P[w].lu, P[w].span) = {w} BY <2>4, <2>5, Spot DEF Forest
  <2>7. Matches(P, id + IX_FLAG, IxSpan(span)) = {w} BY <1>2, <2>4, <2>6
  <2>8. Ref(P, id, span) = p
    <3>1. Min({w}) = w BY LeastOne, PageRange
    <3> HIDE DEF span
    <3> QED BY <2>4, <2>7, <3>1 DEF Ref
  <2> QED BY <1>4, <1>5, <1>10, <2>2, <2>8 DEF PageOwned, headers, pages, id
<1> QED BY <1>9, <1>10

\* Every live page belongs to a file: no call loses pages for good, and none lives on in an
\* object whose header is gone.
THEOREM NoOrphanPages ==
  ASSUME ~TruncateEmpty, QuickPages \subseteq {0}
  PROVE  Spec => []NoOrphans
<1>1. StoreInv => NoOrphans
  <2> SUFFICES ASSUME StoreInv, ~starved, ~Unchecked PROVE \A p \in Pages : Live(page, p) => PageOwned(page, p)
    BY DEF NoOrphans, PageOwned, HeaderOf
  <2> QED BY Known, ForestOwned
<1> QED BY <1>1, StoreInvariant, PTL

\* An open descriptor knows the header, the size and the index page under its cursor: after
\* calls through other descriptors, removals and garbage collection too.
THEOREM DescriptorsFresh ==
  ASSUME ~TruncateEmpty, QuickPages \subseteq {0}
  PROVE  Spec => []FdsFresh
<1>1. StoreInv => FdsFresh
  <2> SUFFICES ASSUME StoreInv, ~starved, ~Unchecked, NEW f \in Fds, fds[f].open
               PROVE  LET d == fds[f]
                          hdr == page[d.objix_hdr_pix]
                      IN /\ hdr.lu = d.id /\ hdr.span = 0
                         /\ Length(d.size) = Length(hdr.size)
                         /\ \/ d.cursor_objix_pix = NoPage
                            \/ /\ d.cursor_objix_pix \in Pages
                               /\ page[d.cursor_objix_pix].lu = d.id
                               /\ page[d.cursor_objix_pix].span = d.cursor_objix_spix
    BY DEF FdsFresh
  <2>1. FdOK(fds[f], page, 0) BY Known DEF FdsOK
  <2>2. fds[f].id # 0 BY <2>1, LiveId DEF FdOK, IxIds
  <2> QED BY <2>1, <2>2 DEF FdOK, IsHeader, CursorAt
<1> QED BY <1>1, StoreInvariant, PTL

================================================================================
